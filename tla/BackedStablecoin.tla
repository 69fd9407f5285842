--------------------------- MODULE BackedStablecoin ---------------------------
(***************************************************************************)
(* What dUSD promises its holders, whatever contracts, vaults, collaterals *)
(* and wallets there are: three amounts and what may happen to them.  What *)
(* the reserve is worth is promised only while the vaults are in order.    *)
(***************************************************************************)
EXTENDS Integers

CONSTANTS DollarUnit,  \* one dUSD
          ValueUnit,   \* one unit of value
          DebtUnit     \* one debt token

VARIABLES circulating,  \* the dUSD there is
          debt,         \* the debt tokens there are
          reserve,      \* the value of what the vaults count
          market,       \* prices and lists
          inOrder       \* whether everything is counted, the debt at par
vars == <<circulating, debt, reserve, market, inOrder>>

\* The reserve pays no more than is taken out of circulation, and is paid for what is put in.
NothingLost ==
  inOrder => (circulating' - circulating) * ValueUnit <= (reserve' - reserve) * DollarUnit

Covered(amount) == amount * ValueUnit <= reserve * DollarUnit

Steady == UNCHANGED <<market, inOrder>>

Init == circulating = 0 /\ debt = 0 /\ reserve = 0

\* Prices or lists change; nobody's tokens do.
Market == market' # market /\ UNCHANGED <<circulating, debt>>

Issue == Steady /\ circulating' > circulating /\ UNCHANGED debt /\ NothingLost

IssueExcess ==
  /\ Steady
  /\ circulating' > circulating
  /\ Covered(circulating')
  /\ UNCHANGED <<debt, reserve>>

\* A redemption, or a holder who burns what he has.
Redeem == Steady /\ circulating' < circulating /\ UNCHANGED debt /\ NothingLost

\* dUSD comes and goes with its worth in debt tokens, to the last unit.
ChangeAmoSupply ==
  /\ Steady
  /\ circulating' # circulating
  /\ (debt' - debt) * DollarUnit = (circulating' - circulating) * DebtUnit
  /\ NothingLost

\* A loan may round one unit of value away; a small one may be worth no debt at all.
Lend ==
  /\ Steady
  /\ UNCHANGED circulating
  /\ debt' >= debt
  /\ inOrder => reserve' >= reserve - 1

Repay ==
  /\ Steady
  /\ UNCHANGED circulating
  /\ debt' < debt
  /\ inOrder => reserve' >= reserve

Next == Market \/ Issue \/ IssueExcess \/ Redeem \/ ChangeAmoSupply \/ Lend \/ Repay

Spec == Init /\ [][Next]_vars
=============================================================================
