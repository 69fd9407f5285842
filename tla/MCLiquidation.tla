---------------------------- MODULE MCLiquidation ----------------------------
(***************************************************************************)
(* The liquidation arithmetic over every small position: a user with a     *)
(* debt in one reserve and a supply in another, under moving oracle        *)
(* prices.                                                                 *)
(***************************************************************************)
EXTENDS LiquidationMath

CONSTANTS Amounts,          \* raw balances
          Prices,           \* oracle prices
          Units,            \* 10 ^ decimals of the two tokens
          Bonuses,          \* liquidation bonuses, 10000 being none
          HealthFactors,    \* in basis points
          Threshold         \* CLOSE_FACTOR_HF_THRESHOLD, in basis points

ASSUME LiquidationAssumption ==
    /\ Amounts \subseteq Nat
    /\ Prices \subseteq Nat \ {0}
    /\ Units \subseteq Nat \ {0}
    /\ Bonuses \subseteq Nat \ {0}
    /\ HealthFactors \subseteq Nat
    /\ Threshold \in Nat

VARIABLES position,         \* what the user owes and owns, and the reserves' settings
          prices            \* the oracle's price of either token

vars == <<position, prices>>

Init ==
    /\ position \in [debt : Amounts, supply : Amounts,
                     debtUnit : Units, supplyUnit : Units,
                     bonus : Bonuses, healthFactor : HealthFactors]
    /\ prices \in [debt : Prices, supply : Prices]

\* The oracle moves.
Reprice ==
    /\ prices' \in [debt : Prices, supply : Prices]
    /\ UNCHANGED position

Next == Reprice

Spec == Init /\ [][Next]_vars

DebtToken == [price |-> prices.debt, unit |-> position.debtUnit]
SupplyToken == [price |-> prices.supply, unit |-> position.supplyUnit]

Amount ==
    getMaxLiquidationAmountCalculation(SupplyToken, position.supply, DebtToken, position.debt,
                                       position.bonus, position.healthFactor, Threshold)

\* The bots never ask to repay more than the debt, nor more than half of it when
\* the pool closes half only, although the cap by the collateral goes through
\* two roundings, one of them upwards: the pool would clip the amount after the
\* flash loan was sized by it.
AmountWithinDebt ==
    /\ Amount <= position.debt
    /\ position.healthFactor >= Threshold => 2 * Amount <= position.debt

\* The units of the oracle that percentDiv and percentMul, both rounding half up,
\* may add to a value: one, for every bonus from 100 % up to 300 %.
RoundedUp(bonus) == (bonus \div 2 + HALF_PERCENT) \div BASE_PERCENT

\* What the repaid amount entitles the bot to is never worth more than the
\* user's collateral, up to the roundings: an amount above it makes the
\* liquidator flash-borrow what the seized collateral cannot repay.
SeizureWithinCollateral ==
    percentMul(ValueInUSD(Amount, DebtToken), position.bonus)
        <= ValueInUSD(position.supply, SupplyToken) + RoundedUp(position.bonus)
=============================================================================
