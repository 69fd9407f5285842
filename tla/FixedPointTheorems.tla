------------------------- MODULE FixedPointTheorems -------------------------
(***************************************************************************)
(* Facts about the rounding of FixedPoint, for all natural numbers.        *)
(***************************************************************************)
EXTENDS FixedPoint, TLAPS

(* The quotient is the largest number of denominators that fits.           *)
LEMMA DivBounds ==
  ASSUME NEW n \in Nat, NEW d \in Nat \ {0}
  PROVE  /\ n \div d \in Nat
         /\ (n \div d) * d <= n
         /\ n < (n \div d) * d + d
OBVIOUS

LEMMA MulLess ==
  ASSUME NEW a \in Int, NEW b \in Int, NEW d \in Nat \ {0}, a * d < b * d
  PROVE  a < b
OBVIOUS

(* A number that fits is at most the quotient.                             *)
LEMMA DivGreatest ==
  ASSUME NEW n \in Nat, NEW d \in Nat \ {0}, NEW q \in Nat, q * d <= n
  PROVE  q <= n \div d
OBVIOUS

(* A number that exceeds no multiple gives no more than the multiplier.    *)
LEMMA DivAtMost ==
  ASSUME NEW n \in Nat, NEW d \in Nat \ {0}, NEW q \in Nat, n <= q * d
  PROVE  n \div d \in Nat /\ n \div d <= q
<1>1. n \div d \in Nat /\ (n \div d) * d <= n
  BY DivBounds
<1>2. (n \div d) * d < (q + 1) * d
  BY <1>1
<1> QED BY <1>1, <1>2, MulLess

(* More of a token is worth at least as much more as its own value ...     *)
LEMMA ValueGain ==
  ASSUME NEW p \in Nat, NEW u \in Nat \ {0}, NEW x \in Nat, NEW n \in Nat
  PROVE  /\ ValueOf(x, p, u) \in Nat /\ ValueOf(n, p, u) \in Nat
         /\ ValueOf(x + n, p, u) >= ValueOf(x, p, u) + ValueOf(n, p, u)
<1> DEFINE f == (p * x) \div u
           g == (p * n) \div u
<1>1. p * x \in Nat /\ p * n \in Nat /\ p * (x + n) = p * x + p * n
  OBVIOUS
<1>2. f \in Nat /\ f * u <= p * x /\ g \in Nat /\ g * u <= p * n
  BY <1>1, DivBounds
<1>3. ValueOf(x, p, u) = f /\ ValueOf(n, p, u) = g
      /\ ValueOf(x + n, p, u) = (p * (x + n)) \div u
  BY DEF ValueOf, MulDiv
<1> HIDE DEF f, g
<1>4. (f + g) * u <= p * (x + n)
  BY <1>1, <1>2
<1>5. f + g <= (p * (x + n)) \div u
  BY <1>1, <1>2, <1>4, DivGreatest
<1>6. (p * (x + n)) \div u \in Nat
  BY <1>1, DivBounds
<1> QED BY <1>2, <1>3, <1>5, <1>6

(* ... and giving away what fits into a value costs no more than it.       *)
LEMMA ValueLoss ==
  ASSUME NEW p \in Nat, NEW u \in Nat \ {0}, NEW x \in Nat, NEW n \in Nat, n <= x,
         NEW w \in Nat, p * n <= w * u
  PROVE  /\ ValueOf(x, p, u) \in Nat /\ ValueOf(x - n, p, u) \in Nat
         /\ ValueOf(x - n, p, u) >= ValueOf(x, p, u) - w
<1> DEFINE y == x - n
           f == (p * x) \div u
           g == (p * y) \div u
<1>1. y \in Nat /\ x = y + n
  OBVIOUS
<1> HIDE DEF y
<1>2. p * x \in Nat /\ p * y \in Nat /\ p * x = p * y + p * n
  BY <1>1
<1>3. f \in Nat /\ f * u <= p * x /\ g \in Nat /\ p * y < g * u + u
  BY <1>2, DivBounds
<1>4. ValueOf(x, p, u) = f /\ ValueOf(x - n, p, u) = g
  BY DEF ValueOf, MulDiv, y
<1> HIDE DEF f, g
<1>5. f * u < (g + 1 + w) * u
  BY <1>2, <1>3
<1>6. f < g + 1 + w
  BY <1>3, <1>5, MulLess
<1> QED BY <1>3, <1>4, <1>6

(* A conversion fits into what it converts.                                *)
LEMMA MulDivFits ==
  ASSUME NEW x \in Nat, NEW y \in Nat, NEW d \in Nat \ {0}
  PROVE  /\ MulDiv(x, y, d) \in Nat
         /\ MulDiv(x, y, d) * d <= x * y
         /\ x * y <= (MulDiv(x, y, d) + 1) * d
<1> DEFINE z == x * y
           q == z \div d
<1>1. z \in Nat
  OBVIOUS
<1> HIDE DEF z
<1>2. q \in Nat /\ q * d <= z /\ z < q * d + d
  BY <1>1, DivBounds
<1>3. MulDiv(x, y, d) = q
  BY DEF MulDiv, z
<1> HIDE DEF q
<1> QED BY <1>1, <1>2, <1>3 DEF z

(* Division by a divisor of one factor does not round.                     *)
LEMMA MulDivExact ==
  ASSUME NEW x \in Nat, NEW y \in Nat, NEW d \in Nat \ {0}, y % d = 0
  PROVE  MulDiv(x, y, d) * d = x * y
<1> DEFINE k == y \div d
           q == MulDiv(x, y, d)
<1>1. k \in Nat /\ y = k * d
  OBVIOUS
<1>2. q \in Nat /\ q * d <= x * y /\ x * y <= (q + 1) * d
  BY MulDivFits
<1>3. x * y = (x * k) * d /\ x * k \in Nat
  BY <1>1
<1>4. x * y < q * d + d
  BY DivBounds DEF MulDiv
<1> HIDE DEF k, q
<1>5. x * k < q + 1
  BY <1>2, <1>3, <1>4, MulLess
<1>6. q < x * k + 1
  BY <1>2, <1>3, MulLess
<1>7. q = x * k
  BY <1>2, <1>3, <1>5, <1>6
<1> QED BY <1>3, <1>7 DEF q
=============================================================================
