-------------------------- MODULE LiquidationProofs --------------------------
(***************************************************************************)
(* The liquidation arithmetic for every position, price and bonus.         *)
(* AmountWithinDebt: the cap by the collateral is taken only when the      *)
(* value of the closable debt, with the bonus, exceeds the collateral, and *)
(* then neither of its two roundings takes it above the closable debt.     *)
(* SeizureWithinCollateral: what the cap is worth with the bonus is the    *)
(* collateral, up to the two roundings.                                    *)
(***************************************************************************)
EXTENDS MCLiquidation, FixedPointTheorems

\* Half of a number, rounded down.
LEMMA HalfBounds ==
    ASSUME NEW n \in Nat
    PROVE  /\ n \div 2 \in Nat
           /\ 2 * (n \div 2) <= n
OBVIOUS

\* A value that with the bonus, rounded half up, exceeds the collateral is at
\* least the collateral's value without the bonus, rounded half up.
LEMMA PercentDivAtMost ==
    ASSUME NEW c \in Nat, NEW v \in Nat, NEW b \in Nat \ {0},
           percentMul(v, b) > c
    PROVE  /\ percentDiv(c, b) \in Nat
           /\ percentDiv(c, b) <= v
<1>1. v * b \in Nat /\ v * b + 5000 >= 0
  OBVIOUS
<1>2. v # 0
  BY DEF percentMul
<1>3. (v * b + 5000) \div 10000 > c
  BY <1>1, <1>2 DEF percentMul, Truncated, HALF_PERCENT, BASE_PERCENT
<1>4. c * 10000 + 5000 <= v * b
  BY <1>1, <1>3
<1>5. CASE c = 0
  BY <1>5 DEF percentDiv
<1>6. CASE c # 0
  <2>1. b \div 2 \in Nat /\ 2 * (b \div 2) <= b
    BY HalfBounds
  <2>2. c * 10000 + b \div 2 \in Nat
    BY <2>1
  <2>3. c * 10000 + b \div 2 < v * b + b
    BY <1>4, <2>1, <1>1
  <2>4. v * b + b = (v + 1) * b
    OBVIOUS
  <2>. DEFINE q == (c * 10000 + b \div 2) \div b
  <2>5. q \in Nat /\ q * b <= c * 10000 + b \div 2
    BY <2>2, DivBounds
  <2>6. q <= v
    <3>1. q * b < (v + 1) * b
      BY <2>2, <2>3, <2>4, <2>5
    <3>. HIDE DEF q
    <3>2. q < v + 1
      BY <2>5, <3>1, MulLess
    <3>. QED  BY <2>5, <3>2
  <2>7. percentDiv(c, b) = q
    BY <1>6 DEF percentDiv, BASE_PERCENT
  <2>. QED  BY <2>5, <2>6, <2>7
<1>. QED  BY <1>5, <1>6

\* Value is a natural number, and what a value buys back is no more than the
\* amount it is the value of.
LEMMA ValueBuysBack ==
    ASSUME NEW a \in Nat, NEW p \in Nat \ {0}, NEW u \in Nat \ {0}, NEW d \in Nat,
           d <= ValueInUSD(a, [price |-> p, unit |-> u])
    PROVE  /\ (d * u) \div p \in Nat
           /\ (d * u) \div p <= a
<1>. DEFINE v == (a * p) \div u
<1>1. a * p \in Nat /\ d * u \in Nat
  OBVIOUS
<1>2. v \in Nat /\ v * u <= a * p
  BY <1>1, DivBounds
<1>3. d <= v
  BY DEF ValueInUSD
<1>. HIDE DEF v
<1>4. d * u <= v * u
  BY <1>2, <1>3
<1>5. d * u <= a * p
  BY <1>1, <1>2, <1>4
<1>. QED  BY <1>1, <1>5, DivAtMost

\* The amount is a natural number within what the close factor allows.
LEMMA AmountWithinClosable ==
    ASSUME NEW debt \in Nat, NEW supply \in Nat, NEW b \in Nat \ {0},
           NEW hf \in Nat, NEW t \in Nat,
           NEW dp \in Nat \ {0}, NEW du \in Nat \ {0},
           NEW sp \in Nat \ {0}, NEW su \in Nat \ {0}
    PROVE  LET amount == getMaxLiquidationAmountCalculation(
                             [price |-> sp, unit |-> su], supply,
                             [price |-> dp, unit |-> du], debt, b, hf, t)
           IN  amount \in Nat /\ amount <= Closable(debt, hf, t)
<1>. DEFINE D == [price |-> dp, unit |-> du]
            S == [price |-> sp, unit |-> su]
            closable == Closable(debt, hf, t)
            v == ValueInUSD(closable, D)
            c == ValueInUSD(supply, S)
            capped == percentMul(v, b) > c
            amount == getMaxLiquidationAmountCalculation(S, supply, D, debt, b, hf, t)
<1>1. closable \in Nat
  BY HalfBounds DEF Closable
<1>2. v \in Nat /\ c \in Nat
  <2>. HIDE DEF closable
  <2>1. closable * dp \in Nat /\ supply * sp \in Nat
    BY <1>1
  <2>. QED  BY <2>1, DivBounds DEF ValueInUSD
<1>3. amount = IF hf >= BASE_PERCENT THEN 0
               ELSE IF capped THEN CollateralCap(c, D, b) ELSE closable
  BY DEF getMaxLiquidationAmountCalculation
<1>4. ASSUME capped
      PROVE  CollateralCap(c, D, b) \in Nat /\ CollateralCap(c, D, b) <= closable
  <2>1. percentDiv(c, b) \in Nat /\ percentDiv(c, b) <= v
    <3>. HIDE DEF v, c
    <3>. QED  BY <1>2, <1>4, PercentDivAtMost
  <2>2. CollateralCap(c, D, b) = (percentDiv(c, b) * du) \div dp
    BY DEF CollateralCap
  <2>. HIDE DEF closable, c
  <2>. QED  BY <1>1, <2>1, <2>2, ValueBuysBack
<1>. HIDE DEF closable, v, c, capped, D, S
<1>5. amount \in Nat /\ amount <= closable
  BY <1>1, <1>3, <1>4
<1>. QED  BY <1>5 DEF closable, D, S

\* A percentage of a value is a natural number, and rounds half up.
LEMMA PercentMulIs ==
    ASSUME NEW v \in Nat, NEW b \in Nat
    PROVE  /\ v * b \in Nat
           /\ percentMul(v, b) \in Nat
           /\ percentMul(v, b) <= (v * b + 5000) \div 10000
<1>1. v * b \in Nat /\ v * b + 5000 >= 0
  OBVIOUS
<1>2. (v * b + 5000) \div 10000 \in Nat
  BY <1>1
<1>. QED  BY <1>1, <1>2 DEF percentMul, Truncated, HALF_PERCENT, BASE_PERCENT

\* A value no greater than percentDiv(c, b) is, with the bonus, worth no more
\* than c, up to the two roundings.
LEMMA PercentMulOfDiv ==
    ASSUME NEW c \in Nat, NEW b \in Nat \ {0}, NEW v \in Nat, v <= percentDiv(c, b)
    PROVE  percentMul(v, b) <= c + RoundedUp(b)
<1>. DEFINE half == b \div 2
            q == (c * 10000 + half) \div b
<1>1. half \in Nat
  BY HalfBounds
<1>2. c * 10000 + half \in Nat
  BY <1>1
<1>3. q \in Nat /\ q * b <= c * 10000 + half
  BY <1>2, DivBounds
<1>4. v <= q
  <2>1. percentDiv(c, b) = IF c = 0 THEN 0 ELSE q
    BY DEF percentDiv, BASE_PERCENT
  <2>. HIDE DEF q
  <2>. QED  BY <2>1, <1>3
<1>5. RoundedUp(b) = (half + 5000) \div 10000
  BY DEF RoundedUp, HALF_PERCENT, BASE_PERCENT
<1>. HIDE DEF half, q
<1>6. v * b <= c * 10000 + half
  <2>1. v * b <= q * b /\ v * b \in Nat /\ q * b \in Nat
    BY <1>3, <1>4
  <2>. QED  BY <2>1, <1>1, <1>3
<1>. DEFINE w == v * b
<1>7. w \in Nat
  OBVIOUS
<1>8. percentMul(v, b) \in Nat /\ percentMul(v, b) <= (w + 5000) \div 10000
  BY PercentMulIs
<1>9. w <= c * 10000 + half
  BY <1>6
<1>. HIDE DEF w
<1>10. (w + 5000) \div 10000 <= c + (half + 5000) \div 10000
  BY <1>1, <1>7, <1>9
<1>. QED  BY <1>5, <1>8, <1>7, <1>1, <1>10

\* The amount a bot repays is worth, with the bonus, no more than the
\* collateral, up to the two roundings.
LEMMA SeizureBounded ==
    ASSUME NEW debt \in Nat, NEW supply \in Nat, NEW b \in Nat \ {0},
           NEW hf \in Nat, NEW t \in Nat,
           NEW dp \in Nat \ {0}, NEW du \in Nat \ {0},
           NEW sp \in Nat \ {0}, NEW su \in Nat \ {0}
    PROVE  LET D == [price |-> dp, unit |-> du]
               S == [price |-> sp, unit |-> su]
               amount == getMaxLiquidationAmountCalculation(S, supply, D, debt, b, hf, t)
           IN  percentMul(ValueInUSD(amount, D), b) <= ValueInUSD(supply, S) + RoundedUp(b)
<1>. DEFINE D == [price |-> dp, unit |-> du]
            S == [price |-> sp, unit |-> su]
            closable == Closable(debt, hf, t)
            c == ValueInUSD(supply, S)
            q == percentDiv(c, b)
            capped == percentMul(ValueInUSD(closable, D), b) > c
            amount == getMaxLiquidationAmountCalculation(S, supply, D, debt, b, hf, t)
            seized == percentMul(ValueInUSD(amount, D), b)
<1>1. closable \in Nat /\ closable * dp \in Nat /\ supply * sp \in Nat
  <2>1. closable \in Nat
    BY HalfBounds DEF Closable
  <2>. HIDE DEF closable
  <2>. QED  BY <2>1
<1>2. c \in Nat /\ ValueInUSD(closable, D) \in Nat
  <2>. HIDE DEF closable
  <2>. QED  BY <1>1, DivBounds DEF ValueInUSD
<1>3. RoundedUp(b) \in Nat
  <2>1. b \div 2 \in Nat
    BY HalfBounds
  <2>. QED  BY <2>1 DEF RoundedUp, HALF_PERCENT, BASE_PERCENT
<1>4. amount = IF hf >= BASE_PERCENT THEN 0
               ELSE IF capped THEN CollateralCap(c, D, b) ELSE closable
  BY DEF getMaxLiquidationAmountCalculation
<1>5. ASSUME amount = 0
      PROVE  seized = 0
  <2>1. ValueInUSD(0, D) = 0
    <3>1. (0 * dp) \div du = 0
      BY DivBounds
    <3>. QED  BY <3>1 DEF ValueInUSD
  <2>. QED  BY <1>5, <2>1 DEF percentMul
<1>6. ASSUME amount = closable, ~capped
      PROVE  seized <= c
  <2>1. percentMul(ValueInUSD(closable, D), b) \in Nat
    <3>. DEFINE v == ValueInUSD(closable, D)
    <3>1. v \in Nat /\ b \in Nat
      BY <1>2
    <3>. HIDE DEF v
    <3>2. percentMul(v, b) \in Nat
      BY <3>1, PercentMulIs
    <3>. QED  BY <3>2 DEF v
  <2>. HIDE DEF closable, D, c, amount
  <2>. QED  BY <1>2, <1>6, <2>1
<1>7. ASSUME amount = CollateralCap(c, D, b)
      PROVE  seized <= c + RoundedUp(b)
  <2>1. q \in Nat
    <3>. HIDE DEF c
    <3>1. b \div 2 \in Nat /\ c * 10000 + b \div 2 \in Nat
      BY HalfBounds, <1>2
    <3>2. (c * 10000 + b \div 2) \div b \in Nat
      BY <3>1, DivBounds
    <3>. QED  BY <3>2 DEF percentDiv, BASE_PERCENT
  <2>2. amount = (q * du) \div dp
    BY <1>7 DEF CollateralCap
  <2>. HIDE DEF q, c, amount
  <2>3. q * du \in Nat
    BY <2>1
  <2>4. amount \in Nat /\ amount * dp <= q * du
    BY <2>2, <2>3, DivBounds
  <2>5. amount * dp \in Nat
    BY <2>4
  <2>6. (amount * dp) \div du \in Nat /\ (amount * dp) \div du <= q
    BY <2>1, <2>4, <2>5, DivBounds, DivAtMost
  <2>7. ValueInUSD(amount, D) = (amount * dp) \div du
    BY DEF ValueInUSD
  <2>. QED  BY <1>2, <2>6, <2>7, PercentMulOfDiv DEF q
<1>. HIDE DEF D, S, closable, c, q, capped, amount
<1>8. seized <= c + RoundedUp(b)
  <2>1. CASE amount = 0
    BY <2>1, <1>5, <1>2, <1>3
  <2>2. CASE amount = closable /\ ~capped
    <3>1. seized <= c /\ seized \in Nat
      BY <2>2, <1>6, <1>2, PercentMulIs
    <3>. HIDE DEF seized
    <3>. QED  BY <3>1, <1>2, <1>3
  <2>. QED  BY <2>1, <2>2, <1>4, <1>7
<1>. QED  BY <1>8 DEF D, S, c, amount

\* In every reachable state the amounts and the prices are in their ranges.
InRange ==
    /\ position \in [debt : Nat, supply : Nat,
                     debtUnit : Nat \ {0}, supplyUnit : Nat \ {0},
                     bonus : Nat \ {0}, healthFactor : Nat]
    /\ prices \in [debt : Nat \ {0}, supply : Nat \ {0}]

LEMMA PositionsInRange == Spec => []InRange
<1>1. Init => InRange
  BY LiquidationAssumption DEF Init, InRange
<1>2. InRange /\ [Next]_vars => InRange'
  BY LiquidationAssumption DEF Next, Reprice, vars, InRange
<1>. QED  BY <1>1, <1>2, PTL DEF Spec

\* The bots never ask to repay more than the debt, nor more than half of it
\* when the pool closes half only, whatever the balances, prices and bonuses.
THEOREM RepaysWithinDebt == Spec => []AmountWithinDebt
<1>1. ASSUME InRange
      PROVE  AmountWithinDebt
  <2>. DEFINE closable == Closable(position.debt, position.healthFactor, Threshold)
  <2>1. Threshold \in Nat
    BY LiquidationAssumption
  <2>2. Amount \in Nat /\ Amount <= closable
    BY <1>1, <2>1, AmountWithinClosable DEF InRange, Amount, DebtToken, SupplyToken
  <2>3. /\ closable \in Nat /\ closable <= position.debt
        /\ position.healthFactor >= Threshold => 2 * closable <= position.debt
    BY <1>1, <2>1, HalfBounds DEF InRange, Closable
  <2>. HIDE DEF closable
  <2>. QED  BY <2>2, <2>3, <1>1 DEF InRange, AmountWithinDebt
<1>. QED  BY <1>1, PositionsInRange, PTL

\* What the repaid amount entitles the bot to is never worth more than the
\* collateral, up to the two roundings, whatever the balances, prices and bonuses.
THEOREM SeizesWithinCollateral == Spec => []SeizureWithinCollateral
<1>1. ASSUME InRange
      PROVE  SeizureWithinCollateral
  <2>1. Threshold \in Nat
    BY LiquidationAssumption
  <2>. QED
    BY <1>1, <2>1, SeizureBounded
       DEF InRange, SeizureWithinCollateral, Amount, DebtToken, SupplyToken
<1>. QED  BY <1>1, PositionsInRange, PTL
=============================================================================
