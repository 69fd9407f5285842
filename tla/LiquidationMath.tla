--------------------------- MODULE LiquidationMath ---------------------------
(***************************************************************************)
(* The arithmetic by which the liquidator bots decide whom to liquidate    *)
(* and for how much: PercentMath, the choice of the debt and collateral    *)
(* markets, the largest amount a liquidation may repay, and its profit.    *)
(*                                                                         *)
(* Amounts are raw token units and prices are oracle units; a token is     *)
(* [price, unit], unit being 10 ^ decimals.  Health factors are JavaScript *)
(* numbers in the code and are given here in basis points, 10000 being 1.  *)
(***************************************************************************)
EXTENDS Integers

BASE_PERCENT == 10000
HALF_PERCENT == 5000

\* BigNumber.div truncates towards zero, where \div takes the floor.
Truncated(x, y) == IF x >= 0 THEN x \div y ELSE -((-x) \div y)

percentMul(x, pct) ==
    IF x = 0 \/ pct = 0 THEN 0 ELSE Truncated(x * pct + HALF_PERCENT, BASE_PERCENT)

percentDiv(x, pct) ==
    IF x = 0 \/ pct = 0 THEN 0 ELSE (x * BASE_PERCENT + pct \div 2) \div pct

ValueInUSD(amount, token) == (amount * token.price) \div token.unit

\* What the close factor allows: half of the debt, or all of it once the
\* health factor is below the threshold of the pool.
Closable(debt, healthFactor, threshold) ==
    IF healthFactor < threshold THEN debt ELSE debt \div 2

\* Mutant: the cap that forgets the bonus.
CollateralCapFlat(collateralInUSD, borrowToken, bonus) ==
    (collateralInUSD * borrowToken.unit) \div borrowToken.price

\* The amount whose value with the bonus is the value of the collateral.
CollateralCap(collateralInUSD, borrowToken, bonus) ==
    (percentDiv(collateralInUSD, bonus) * borrowToken.unit) \div borrowToken.price

getMaxLiquidationAmountCalculation(collateralToken, collateral, borrowToken, debt, bonus, hf, threshold) ==
    LET amount     == Closable(debt, hf, threshold)
        collateralInUSD == ValueInUSD(collateral, collateralToken)
    IN  IF hf >= BASE_PERCENT THEN 0
        ELSE IF percentMul(ValueInUSD(amount, borrowToken), bonus) > collateralInUSD
             THEN CollateralCap(collateralInUSD, borrowToken, bonus)
             ELSE amount

\* The profit, in oracle units.  The bonus is the one of the borrowed token.
getLiquidationProfitInUSD(borrowToken, bonus, amount) ==
    Truncated(percentMul(borrowToken.price * amount, bonus - BASE_PERCENT), borrowToken.unit)

\* The reserves that a sort by raw amount, the largest first, may put first.
Largest(reserves, amount) ==
    {r \in reserves : \A s \in reserves : amount[s] <= amount[r]}

\* The debt and collateral markets that getUserLiquidationParams may pick.
DebtMarkets(reserves) ==
    Largest({r \in reserves : r.borrowingEnabled}, [r \in reserves |-> r.totalDebt])

CollateralMarkets(reserves) ==
    Largest({r \in reserves : r.usageAsCollateralEnabled /\ r.liquidationBonus > 0},
            [r \in reserves |-> r.totalSupply])
=============================================================================
