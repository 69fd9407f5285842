----------------------------- MODULE FixedPoint -----------------------------
(***************************************************************************)
(* The fixed-point arithmetic of the dUSD contracts.  Every conversion     *)
(* between a token amount, a value in the oracle's base currency and an    *)
(* amount of dUSD is one multiplication followed by one division that      *)
(* rounds down.  The numbers are unbounded: an intermediate product that   *)
(* exceeds 256 bits reverts in the code and is simply not a step here.     *)
(***************************************************************************)
EXTENDS Integers

MulDiv(x, y, denominator) == (x * y) \div denominator

(* Value, in base currency, of an amount of a token with the given unit    *)
(* (10 ** decimals) at the given price, and the converse.                  *)
ValueOf(amount, price, unit) == MulDiv(price, amount, unit)

AmountOf(value, price, unit) == MulDiv(value, unit, price)

AbsDiff(x, y) == IF x >= y THEN x - y ELSE y - x
=============================================================================
