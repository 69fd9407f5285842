---------------------------- MODULE DusdRefinement ----------------------------
(***************************************************************************)
(* The dUSD contracts implement a backed stablecoin.                       *)
(***************************************************************************)
EXTENDS DusdSystem

\* Every vault counts every asset, and the debt token is at its hard peg.
InOrder == price[DebtToken] = BaseUnit /\ supported = [v \in Vaults |-> Assets]

Coin == INSTANCE BackedStablecoin WITH
          DollarUnit <- Unit[Dusd],
          ValueUnit <- BaseUnit,
          DebtUnit <- Unit[DebtToken],
          circulating <- supply[Dusd],
          debt <- supply[DebtToken],
          reserve <- SystemValue,
          market <- <<price, supported>>,
          inOrder <- InOrder

\* Whatever the issuer, the redeemer, the AMO manager and the strategists do in whatever order, it
\* is issuing under cover, redeeming at par or less, expanding and contracting exactly by the debt,
\* lending and repaying; when no price moves the reserve pays for nothing else.
CoinSpec == Coin!Spec
=============================================================================
