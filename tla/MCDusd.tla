-------------------------------- MODULE MCDusd --------------------------------
(***************************************************************************)
(* Instances of DusdSystem for TLC.  The units are small but keep the      *)
(* order of the deployment's (dUSD 10^6, base currency 10^8, debt token    *)
(* 10^18: each divides the next).  MCUnit and MCPrice force every          *)
(* conversion to round, EvenUnit and EvenPrice none.                       *)
(***************************************************************************)
EXTENDS DusdRefinement, TLC

CONSTANTS usdc, frax, dusd, receipt, user, amo, vault, vault2

MCUnit == (usdc :> 2) @@ (frax :> 3) @@ (receipt :> 4) @@ (dusd :> 1)
MCPrice == (usdc :> 3) @@ (frax :> 4) @@ (receipt :> 2) @@ (dusd :> 2)
MCBalance == (usdc :> (user :> 3 @@ amo :> 0)) @@ (frax :> (user :> 2 @@ amo :> 0))
MovingPrices == (usdc :> {1, 3}) @@ (frax :> {}) @@ (receipt :> {2}) @@ (dusd :> {2, 3})

EvenUnit == (usdc :> 1) @@ (receipt :> 2) @@ (dusd :> 1)
EvenPrice == (usdc :> 2) @@ (receipt :> 2) @@ (dusd :> 2)
SmallBalance == usdc :> (user :> 2 @@ amo :> 0)
PegPrices == (usdc :> {}) @@ (receipt :> {2, 3}) @@ (dusd :> {2, 3})

SteadyPrices == [t \in Tokens |-> {}]
AllSupported == [v \in Vaults |-> Assets]
OnlyUsdc == [v \in Vaults |-> {usdc}]
FraxSupported == [v \in Vaults |-> {frax, receipt}]
=============================================================================
