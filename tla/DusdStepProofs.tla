--------------------------- MODULE DusdStepProofs ---------------------------
(***************************************************************************)
(* What a step of DusdSystem may never do, for all tokens, units, prices,  *)
(* accounts, vaults and settings.  The steps start in states that satisfy  *)
(* the inductive invariant of DusdSystemProofs.                            *)
(***************************************************************************)
EXTENDS DusdSystemProofs, DusdRefinement

-----------------------------------------------------------------------------
(* The worth of all vaults, and the surplus, for any book and any supply.  *)
SystemValueIn(b) == SumFunctionOnSet([v \in Vaults |-> TotalValueIn(b, v)], Vaults)

(* The vaults hold the same in both books, but for one asset in one vault. *)
OnlyChange(b, c, a, v) == \A w \in Vaults, x \in Assets : w # v \/ x # a => c[x][w] = b[x][w]

(* One vault's total is a natural number, and depends on its assets only.  *)
LEMMA TotalNat ==
  ASSUME VaultTypeOK, NEW b \in Books, NEW v \in Vaults
  PROVE  TotalValueIn(b, v) \in Nat
<1> DEFINE S == supported[v]
           f == [x \in Assets |-> AssetValueFromAmount(b[x][v], x)]
<1>1. S \subseteq Assets /\ IsFiniteSet(S)
  BY HoldersFinite, FS_Subset DEF VaultTypeOK
<1>2. \A x \in Assets : b[x][v] \in Nat /\ x \in Tokens
  BY NamesPlaced DEF Books
<1>3. \A x \in S : f[x] \in Nat
  BY <1>1, <1>2, ValueNat
<1>4. TotalValueIn(b, v) = SumFunctionOnSet(f, S)
  BY DEF TotalValueIn
<1> HIDE DEF S, f
<1> QED BY <1>1, <1>3, <1>4, SumNat

LEMMA TotalSame ==
  ASSUME VaultTypeOK, NEW b \in Books, NEW c \in Books, NEW v \in Vaults,
         \A x \in Assets : c[x][v] = b[x][v]
  PROVE  TotalValueIn(c, v) = TotalValueIn(b, v)
<1>1. [x \in Assets |-> AssetValueFromAmount(c[x][v], x)]
        = [x \in Assets |-> AssetValueFromAmount(b[x][v], x)]
  OBVIOUS
<1> QED BY <1>1 DEF TotalValueIn

(* A vault's total follows a change of one supported asset.                *)
LEMMA TotalChange ==
  ASSUME VaultTypeOK, NEW b \in Books, NEW c \in Books, NEW v \in Vaults, NEW a \in Assets,
         \A x \in Assets : x # a => c[x][v] = b[x][v],
         a \in supported[v] \/ c[a][v] = b[a][v]
  PROVE  TotalValueIn(c, v) = TotalValueIn(b, v) - AssetValueFromAmount(b[a][v], a)
                                + AssetValueFromAmount(c[a][v], a)
<1> DEFINE S == supported[v]
           f == [x \in Assets |-> AssetValueFromAmount(b[x][v], x)]
           g == [x \in Assets |-> AssetValueFromAmount(c[x][v], x)]
<1>1. S \subseteq Assets /\ IsFiniteSet(S)
  BY HoldersFinite, FS_Subset DEF VaultTypeOK
<1>2. \A x \in Assets : b[x][v] \in Nat /\ c[x][v] \in Nat /\ x \in Tokens
  BY NamesPlaced DEF Books
<1>3. (\A x \in S : f[x] \in Nat) /\ (\A x \in S : g[x] \in Nat)
  BY <1>1, <1>2, ValueNat
<1>4. TotalValueIn(b, v) = SumFunctionOnSet(f, S) /\ TotalValueIn(c, v) = SumFunctionOnSet(g, S)
  BY DEF TotalValueIn
<1>5. f[a] = AssetValueFromAmount(b[a][v], a) /\ g[a] = AssetValueFromAmount(c[a][v], a)
  OBVIOUS
<1>6. \A x \in S \ {a} : f[x] = g[x]
  BY <1>1
<1>7. CASE a \in supported[v]
  <2>1. a \in S
    BY <1>7
  <2> HIDE DEF S, f, g
  <2>2. ASSUME NEW U, IsFiniteSet(U), a \in U, \A x \in U : f[x] \in Nat,
               \A x \in U : g[x] \in Nat, \A x \in U \ {a} : f[x] = g[x]
        PROVE  SumFunctionOnSet(g, U) = SumFunctionOnSet(f, U) - f[a] + g[a]
    BY <2>2, SumUpdate
  <2>3. SumFunctionOnSet(g, S) = SumFunctionOnSet(f, S) - f[a] + g[a]
    BY <1>1, <1>3, <1>6, <2>1, <2>2
  <2> QED BY <1>4, <1>5, <2>3
<1>8. CASE c[a][v] = b[a][v]
  <2>1. TotalValueIn(c, v) = TotalValueIn(b, v)
    BY <1>8, TotalSame
  <2>2. TotalValueIn(b, v) \in Nat /\ AssetValueFromAmount(b[a][v], a) \in Nat
    BY <1>2, TotalNat, ValueNat
  <2> QED BY <1>8, <2>1, <2>2
<1> QED BY <1>7, <1>8

(* So does the worth of all vaults.                                        *)
LEMMA SystemChange ==
  ASSUME VaultTypeOK, NEW b \in Books, NEW c \in Books, NEW v \in Vaults, NEW a \in Assets,
         OnlyChange(b, c, a, v), a \in supported[v] \/ c[a][v] = b[a][v]
  PROVE  /\ SystemValueIn(b) \in Nat /\ SystemValueIn(c) \in Nat
         /\ SystemValueIn(c) = SystemValueIn(b) - AssetValueFromAmount(b[a][v], a)
                                 + AssetValueFromAmount(c[a][v], a)
<1> DEFINE V == Vaults
           f == [w \in Vaults |-> TotalValueIn(b, w)]
           g == [w \in Vaults |-> TotalValueIn(c, w)]
           old == AssetValueFromAmount(b[a][v], a)
           new == AssetValueFromAmount(c[a][v], a)
<1>1. IsFiniteSet(V) /\ v \in V
  BY NamesAssumption
<1>2. (\A w \in V : f[w] \in Nat) /\ (\A w \in V : g[w] \in Nat)
  BY TotalNat
<1>3. \A w \in V \ {v} : f[w] = g[w]
  BY TotalSame DEF OnlyChange
<1>4. g[v] = f[v] - old + new
  BY TotalChange DEF OnlyChange
<1>5. old \in Nat /\ new \in Nat
  BY NamesPlaced, ValueNat DEF Books
<1>6. SystemValueIn(b) = SumFunctionOnSet(f, V) /\ SystemValueIn(c) = SumFunctionOnSet(g, V)
  BY DEF SystemValueIn
<1> HIDE DEF V, f, g, old, new
<1>7. SumFunctionOnSet(f, V) \in Nat /\ SumFunctionOnSet(g, V) \in Nat
  BY <1>1, <1>2, SumNat
<1>8. SumFunctionOnSet(g, V) = SumFunctionOnSet(f, V) - f[v] + g[v]
  BY <1>1, <1>2, <1>3, SumUpdate
<1>9. f[v] \in Nat /\ g[v] \in Nat
  BY <1>1, <1>2
<1>10. SumFunctionOnSet(g, V) = SumFunctionOnSet(f, V) - old + new
  BY <1>4, <1>5, <1>7, <1>8, <1>9
<1> QED BY <1>6, <1>7, <1>10 DEF old, new

LEMMA SystemSame ==
  ASSUME VaultTypeOK, NEW b \in Books, NEW c \in Books,
         \A w \in Vaults, x \in Assets : c[x][w] = b[x][w]
  PROVE  SystemValueIn(b) \in Nat /\ SystemValueIn(c) = SystemValueIn(b)
<1>1. [w \in Vaults |-> TotalValueIn(b, w)] = [w \in Vaults |-> TotalValueIn(c, w)]
  BY TotalSame
<1> DEFINE V == Vaults
           f == [w \in Vaults |-> TotalValueIn(b, w)]
<1>2. IsFiniteSet(V) /\ \A w \in V : f[w] \in Nat
  BY NamesAssumption, TotalNat
<1>3. SystemValueIn(b) = SumFunctionOnSet(f, V) /\ SystemValueIn(c) = SumFunctionOnSet(f, V)
  BY <1>1 DEF SystemValueIn
<1> HIDE DEF V, f
<1> QED BY <1>2, <1>3, SumNat

(* Taking an amount in raises the worth by at least its value.             *)
LEMMA WorthGained ==
  ASSUME VaultTypeOK, NEW b \in Books, NEW c \in Books, NEW v \in Vaults, NEW a \in Assets,
         OnlyChange(b, c, a, v), a \in supported[v] \/ c[a][v] = b[a][v],
         NEW n \in Nat, c[a][v] = b[a][v] + n
  PROVE  /\ SystemValueIn(b) \in Nat /\ SystemValueIn(c) \in Nat
         /\ AssetValueFromAmount(n, a) \in Nat
         /\ SystemValueIn(c) >= SystemValueIn(b) + AssetValueFromAmount(n, a)
<1> DEFINE x == b[a][v]
           old == AssetValueFromAmount(x, a)
           new == AssetValueFromAmount(x + n, a)
           gain == AssetValueFromAmount(n, a)
<1>1. x \in Nat /\ price[a] \in Nat /\ Unit[a] \in Nat \ {0}
  BY NamesPlaced, NumbersAssumption DEF Books, VaultTypeOK
<1>2. /\ SystemValueIn(b) \in Nat /\ SystemValueIn(c) \in Nat
      /\ SystemValueIn(c) = SystemValueIn(b) - old + new
  BY SystemChange
<1> HIDE DEF x
<1>3. old \in Nat /\ gain \in Nat /\ new >= old + gain
  BY <1>1, ValueGain DEF AssetValueFromAmount
<1>4. new \in Nat
  BY <1>1, NamesPlaced, ValueNat
<1> HIDE DEF old, new, gain
<1>5. gain \in Nat /\ SystemValueIn(c) >= SystemValueIn(b) + gain
  BY <1>2, <1>3, <1>4
<1> QED BY <1>2, <1>5 DEF gain

(* Giving an amount away lowers it by no more than a value it fits into.   *)
LEMMA WorthLost ==
  ASSUME VaultTypeOK, NEW b \in Books, NEW c \in Books, NEW v \in Vaults, NEW a \in Assets,
         OnlyChange(b, c, a, v), a \in supported[v] \/ c[a][v] = b[a][v],
         NEW n \in Nat, n <= b[a][v], c[a][v] = b[a][v] - n,
         NEW w \in Nat, price[a] * n <= w * Unit[a]
  PROVE  /\ SystemValueIn(b) \in Nat /\ SystemValueIn(c) \in Nat
         /\ SystemValueIn(c) >= SystemValueIn(b) - w
<1> DEFINE x == b[a][v]
           old == AssetValueFromAmount(x, a)
           new == AssetValueFromAmount(x - n, a)
<1>1. x \in Nat /\ price[a] \in Nat /\ Unit[a] \in Nat \ {0}
  BY NamesPlaced, NumbersAssumption DEF Books, VaultTypeOK
<1>2. /\ SystemValueIn(b) \in Nat /\ SystemValueIn(c) \in Nat
      /\ SystemValueIn(c) = SystemValueIn(b) - old + new
  BY SystemChange
<1>3. n <= x
  OBVIOUS
<1> HIDE DEF x
<1>4. old \in Nat /\ new \in Nat /\ new >= old - w
  BY <1>1, <1>3, ValueLoss DEF AssetValueFromAmount
<1> HIDE DEF old, new
<1> QED BY <1>2, <1>4

-----------------------------------------------------------------------------
(* What a movement between two different holders does, exactly.            *)
LEMMA MoveExact ==
  ASSUME NEW b \in Books, NEW t \in Tokens, NEW from \in Holders, NEW to \in Holders,
         from # to, NEW n \in Nat, b[t][from] >= n
  PROVE  /\ Move(b, t, from, to, n) \in Books
         /\ Move(b, t, from, to, n)[t][from] = b[t][from] - n
         /\ Move(b, t, from, to, n)[t][to] = b[t][to] + n
<1> DEFINE d == Debit(b, t, from, n)
<1>1. /\ d \in Books /\ d[t][from] = b[t][from] - n
      /\ \A u \in Tokens, k \in Holders : u # t \/ k # from => d[u][k] = b[u][k]
  BY DebitBook
<1>2. /\ Credit(d, t, to, n) \in Books
      /\ Credit(d, t, to, n)[t][to] = d[t][to] + n
      /\ \A u \in Tokens, k \in Holders : u # t \/ k # to => Credit(d, t, to, n)[u][k] = d[u][k]
  BY <1>1, CreditBook
<1> HIDE DEF d
<1> QED BY <1>1, <1>2 DEF Move, d

(* A vault takes an asset in from an account.                              *)
LEMMA TakeIn ==
  ASSUME VaultTypeOK, NEW b \in Books, NEW a \in Assets, NEW v \in Vaults,
         NEW from \in Accounts, NEW n \in Nat, b[a][from] >= n,
         a \in supported[v] \/ Move(b, a, from, v, n)[a][v] = b[a][v]
  PROVE  /\ Move(b, a, from, v, n) \in Books
         /\ OnlyChange(b, Move(b, a, from, v, n), a, v)
         /\ AssetValueFromAmount(n, a) \in Nat
         /\ SystemValueIn(b) \in Nat /\ SystemValueIn(Move(b, a, from, v, n)) \in Nat
         /\ SystemValueIn(Move(b, a, from, v, n)) >= SystemValueIn(b) + AssetValueFromAmount(n, a)
<1> DEFINE c == Move(b, a, from, v, n)
<1>1. from \in Holders /\ v \in Holders /\ from # v /\ from \notin Vaults /\ a \in Tokens
  BY NamesPlaced
<1>2. c \in Books /\ c[a][v] = b[a][v] + n
  BY <1>1, MoveExact
<1>3. OnlyChange(b, c, a, v)
  <2>1. \A u \in Tokens, k \in Holders : u # a \/ k \notin {from, v} => c[u][k] = b[u][k]
    BY <1>1, MoveBook
  <2> QED BY <1>1, <2>1, NamesPlaced DEF OnlyChange
<1>4. a \in supported[v] \/ c[a][v] = b[a][v]
  OBVIOUS
<1> HIDE DEF c
<1>5. /\ SystemValueIn(b) \in Nat /\ SystemValueIn(c) \in Nat
      /\ AssetValueFromAmount(n, a) \in Nat
      /\ SystemValueIn(c) >= SystemValueIn(b) + AssetValueFromAmount(n, a)
  BY <1>2, <1>3, <1>4, WorthGained
<1> QED BY <1>2, <1>3, <1>5 DEF c

(* A vault gives an asset to a holder that is no vault.                    *)
LEMMA GiveOut ==
  ASSUME VaultTypeOK, NEW b \in Books, NEW a \in Assets, NEW v \in Vaults,
         NEW to \in Holders, to \notin Vaults, NEW n \in Nat, b[a][v] >= n,
         a \in supported[v] \/ Move(b, a, v, to, n)[a][v] = b[a][v],
         NEW w \in Nat, price[a] * n <= w * Unit[a]
  PROVE  /\ Move(b, a, v, to, n) \in Books
         /\ OnlyChange(b, Move(b, a, v, to, n), a, v)
         /\ Move(b, a, v, to, n)[a][v] = b[a][v] - n
         /\ SystemValueIn(b) \in Nat /\ SystemValueIn(Move(b, a, v, to, n)) \in Nat
         /\ SystemValueIn(Move(b, a, v, to, n)) >= SystemValueIn(b) - w
<1> DEFINE c == Move(b, a, v, to, n)
<1>1. v \in Holders /\ to # v /\ a \in Tokens
  BY NamesPlaced
<1>2. c \in Books /\ c[a][v] = b[a][v] - n
  BY <1>1, MoveExact
<1>3. OnlyChange(b, c, a, v)
  <2>1. \A u \in Tokens, k \in Holders : u # a \/ k \notin {v, to} => c[u][k] = b[u][k]
    BY <1>1, MoveBook
  <2> QED BY <1>1, <2>1, NamesPlaced DEF OnlyChange
<1>4. a \in supported[v] \/ c[a][v] = b[a][v]
  OBVIOUS
<1>5. n <= b[a][v]
  BY <1>1, NamesPlaced DEF Books
<1> HIDE DEF c
<1>6. /\ SystemValueIn(b) \in Nat /\ SystemValueIn(c) \in Nat
      /\ SystemValueIn(c) >= SystemValueIn(b) - w
  BY <1>2, <1>3, <1>4, <1>5, WorthLost
<1> QED BY <1>2, <1>3, <1>6 DEF c

-----------------------------------------------------------------------------
(* The units, and what the conversions leave on the table.                 *)
LEMMA UnitsNat ==
  /\ Unit[Dusd] \in Nat \ {0} /\ Unit[DebtToken] \in Nat \ {0} /\ BaseUnit \in Nat \ {0}
  /\ \A a \in Assets : Unit[a] \in Nat \ {0}
BY NumbersAssumption, NamesPlaced

(* dUSD minted for a value never exceeds it.                               *)
LEMMA DusdForValue ==
  ASSUME NEW V \in Nat
  PROVE  /\ BaseValueToDusdAmount(V) \in Nat
         /\ BaseValueToDusdAmount(V) * BaseUnit <= V * Unit[Dusd]
BY UnitsNat, MulDivFits DEF BaseValueToDusdAmount

(* dUSD converts to base value exactly: its unit divides the base unit.     *)
LEMMA ValueForDusd ==
  ASSUME NEW n \in Nat
  PROVE  /\ DusdAmountToBaseValue(n) \in Nat
         /\ DusdAmountToBaseValue(n) * Unit[Dusd] = n * BaseUnit
<1>1. BaseUnit % Unit[Dusd] = 0
  BY DecimalsAssumption
<1> QED BY <1>1, UnitsNat, MulDivFits, MulDivExact DEF DusdAmountToBaseValue

(* An amount of collateral for a value fits into it.                       *)
LEMMA AmountForValue ==
  ASSUME VaultTypeOK, NEW V \in Nat, NEW a \in Assets, price[a] > 0
  PROVE  /\ AssetAmountFromValue(V, a) \in Nat
         /\ price[a] * AssetAmountFromValue(V, a) <= V * Unit[a]
<1>1. price[a] \in Nat \ {0} /\ Unit[a] \in Nat
  BY UnitsNat, NamesPlaced DEF VaultTypeOK
<1>2. /\ AssetAmountFromValue(V, a) \in Nat
      /\ AssetAmountFromValue(V, a) * price[a] <= V * Unit[a]
  BY <1>1, MulDivFits DEF AssetAmountFromValue, AmountOf
<1> QED BY <1>1, <1>2

(* Debt tokens at par are worth the value they stand for, exactly.         *)
LEMMA DebtAtPar ==
  ASSUME VaultTypeOK, price[DebtToken] = BaseUnit, NEW V \in Nat
  PROVE  /\ BaseToDebtUnits(V) \in Nat
         /\ price[DebtToken] * BaseToDebtUnits(V) <= V * Unit[DebtToken]
         /\ AssetValueFromAmount(BaseToDebtUnits(V), DebtToken) = V
<1> DEFINE d == BaseToDebtUnits(V)
           u == Unit[DebtToken]
           p == BaseUnit
<1>1. u % p = 0 /\ u \in Nat \ {0} /\ p \in Nat \ {0}
  BY DecimalsAssumption, UnitsNat
<1>2. d \in Nat /\ d * p = V * u
  BY <1>1, MulDivFits, MulDivExact DEF BaseToDebtUnits
<1>3. AssetValueFromAmount(d, DebtToken) = (p * d) \div u
  BY DEF AssetValueFromAmount, ValueOf, MulDiv
<1> HIDE DEF d, u, p
<1>4. p * d = V * u
  BY <1>1, <1>2
<1>5. (V * u) \div u = V
  <2>1. V * u \in Nat /\ V * u <= V * u
    BY <1>1
  <2>2. V <= (V * u) \div u
    BY <1>1, <2>1, DivGreatest
  <2>3. (V * u) \div u \in Nat /\ (V * u) \div u <= V
    BY <1>1, <2>1, DivAtMost
  <2> QED BY <2>2, <2>3
<1>6. AssetValueFromAmount(d, DebtToken) = V /\ p * d <= V * u
  BY <1>1, <1>3, <1>4, <1>5
<1> QED BY <1>2, <1>6 DEF d, u, p

(* What lent collateral is worth, rounded up.                              *)
LEMMA LentWorth ==
  ASSUME VaultTypeOK, NEW n \in Nat, NEW a \in Assets
  PROVE  /\ AssetValueFromAmount(n, a) \in Nat
         /\ price[a] * n <= (AssetValueFromAmount(n, a) + 1) * Unit[a]
<1>1. price[a] \in Nat /\ Unit[a] \in Nat \ {0}
  BY UnitsNat, NamesPlaced DEF VaultTypeOK
<1> QED BY <1>1, MulDivFits DEF AssetValueFromAmount, ValueOf

(* A surplus moves with the worth gained and the dUSD minted.              *)
LEMMA SurplusMoves ==
  ASSUME NEW X \in Int, NEW Y \in Int, NEW s \in Int, NEW gain \in Int, NEW minted \in Int,
         NEW loss \in Int, NEW u \in Nat, NEW p \in Nat,
         Y >= X + gain, gain * u + loss >= minted * p
  PROVE  Y * u - (s + minted) * p >= X * u - s * p - loss
<1>1. Y * u >= (X + gain) * u
  OBVIOUS
<1>2. (X + gain) * u = X * u + gain * u /\ (s + minted) * p = s * p + minted * p
  OBVIOUS
<1>3. Y * u \in Int /\ X * u \in Int /\ gain * u \in Int /\ s * p \in Int /\ minted * p \in Int
  OBVIOUS
<1> QED BY <1>1, <1>2, <1>3

-----------------------------------------------------------------------------
(* The surplus in terms of the books before and after a step.              *)
LEMMA SurplusKept ==
  ASSUME IInv, IInv', UNCHANGED vaultVars, NEW gain \in Int, NEW minted \in Int,
         SystemValueIn(bal') >= SystemValueIn(bal) + gain,
         supply'[Dusd] = supply[Dusd] + minted,
         gain * Unit[Dusd] + RoundingLoss >= minted * BaseUnit
  PROVE  Surplus' >= Surplus - RoundingLoss
<1> DEFINE X == SystemValueIn(bal)
           Y == SystemValueIn(bal')
           s == supply[Dusd]
           loss == RoundingLoss
           u == Unit[Dusd]
           p == BaseUnit
<1>1. u \in Nat /\ p \in Nat /\ loss \in Nat
  BY UnitsNat DEF RoundingLoss
<1>2. bal \in Books /\ bal' \in Books /\ s \in Nat
  BY NamesPlaced DEF IInv, Sound, Balanced, Supplies
<1>3. X \in Nat /\ Y \in Nat
  BY <1>2, SystemSame DEF IInv, SettingsTypeOK
<1>4. Surplus = X * u - s * p
  BY DEF Surplus, SystemValue, SystemValueIn, TotalValue
<1>5. Surplus' = Y * u - (s + minted) * p
  BY DEF Surplus, SystemValue, SystemValueIn, TotalValue, TotalValueIn, AssetValueFromAmount,
         vaultVars
<1>6. Y >= X + gain /\ gain * u + loss >= minted * p
  OBVIOUS
<1> HIDE DEF X, Y, s, loss, u, p
<1>7. Y * u - (s + minted) * p >= X * u - s * p - loss
  BY <1>1, <1>2, <1>3, <1>6, SurplusMoves
<1> QED BY <1>4, <1>5, <1>7 DEF loss

(* A step that leaves the vaults alone and mints no dUSD.                  *)
LEMMA VaultsUntouched ==
  ASSUME IInv, IInv', UNCHANGED vaultVars,
         \A v \in Vaults, a \in Assets : bal'[a][v] = bal[a][v],
         supply'[Dusd] <= supply[Dusd]
  PROVE  Surplus' >= Surplus - RoundingLoss
<1> DEFINE minted == supply'[Dusd] - supply[Dusd]
           p == BaseUnit
<1>1. bal \in Books /\ bal' \in Books /\ supply[Dusd] \in Nat /\ supply'[Dusd] \in Nat
  BY NamesPlaced DEF IInv, Sound, Balanced, Supplies
<1>2. SystemValueIn(bal') >= SystemValueIn(bal) + 0
  BY <1>1, SystemSame DEF IInv, SettingsTypeOK
<1>3. /\ minted \in Int /\ supply'[Dusd] = supply[Dusd] + minted /\ minted <= 0
      /\ Unit[Dusd] \in Nat /\ p \in Nat /\ RoundingLoss \in Nat
  BY <1>1, UnitsNat DEF RoundingLoss
<1> HIDE DEF minted, p
<1>4. minted * p <= 0
  BY <1>3
<1>5. 0 * Unit[Dusd] + RoundingLoss >= minted * p
  BY <1>3, <1>4
<1> QED BY <1>2, <1>3, <1>5, SurplusKept DEF p

-----------------------------------------------------------------------------
(* The vaults' own operations.                                             *)
LEMMA VaultBacking ==
  ASSUME IInv, IInv', VaultNext, OrdinaryStep
  PROVE  Surplus' >= Surplus - RoundingLoss
<1>1. bal \in Books /\ supply[Dusd] \in Nat /\ VaultTypeOK /\ UNCHANGED vaultVars
  BY NamesPlaced DEF IInv, Sound, Balanced, Supplies, SettingsTypeOK, OrdinaryStep
<1>2. ASSUME NEW v \in Vaults, NEW caller \in Accounts, NEW n \in Nat, NEW a \in Assets,
             Deposit(v, caller, n, a)
      PROVE  Surplus' >= Surplus - RoundingLoss
  <2>1. /\ SystemValueIn(bal) \in Nat /\ SystemValueIn(bal') \in Nat
        /\ SystemValueIn(bal') >= SystemValueIn(bal) + AssetValueFromAmount(n, a)
        /\ AssetValueFromAmount(n, a) \in Nat
    BY <1>1, <1>2, TakeIn DEF Deposit, CanTransferFrom
  <2>2. SystemValueIn(bal') >= SystemValueIn(bal) + 0 /\ supply'[Dusd] = supply[Dusd] + 0
    BY <1>1, <1>2, <2>1 DEF Deposit
  <2>3. 0 * Unit[Dusd] + RoundingLoss >= 0 * BaseUnit
    BY UnitsNat DEF RoundingLoss
  <2> QED BY <1>1, <2>2, <2>3, SurplusKept
<1>3. ASSUME NEW v \in Vaults, NEW caller \in Accounts, NEW n \in Nat, NEW m \in Nat,
             NEW from \in Assets, NEW to \in Assets,
             ExchangeCollateral(v, caller, n, from, m, to)
      PROVE  Surplus' >= Surplus - RoundingLoss
  <2> DEFINE b1 == Move(bal, from, caller, v, n)
             c == Move(b1, to, v, caller, m)
             V == AssetValueFromAmount(n, from)
  <2>1. /\ bal' = c /\ supply' = supply /\ to \in supported[v] /\ price[to] > 0
        /\ bal[from][caller] >= n /\ b1[to][v] >= m
        /\ m <= AssetAmountFromValue(V, to)
    BY <1>3 DEF ExchangeCollateral, CanTransferFrom, CanTransfer, MaxExchangeAmount
  <2>2. caller \in Holders /\ caller \notin Vaults /\ v \in Holders /\ caller # v
    BY NamesPlaced
  <2>3. b1 \in Books
    BY <1>1, <2>1, <2>2, NamesPlaced, MoveExact
  <2>4. from \in supported[v] \/ b1[from][v] = bal[from][v]
    <3>1. CASE from = to
      BY <2>1, <3>1
    <3>2. CASE from # to
      <4>1. c[from][v] = b1[from][v]
        BY <2>1, <2>2, <2>3, <3>2, NamesPlaced, MoveBook
      <4> QED BY <2>1, <4>1 DEF OrdinaryStep
    <3> QED BY <3>1, <3>2
  <2>5. /\ V \in Nat /\ SystemValueIn(bal) \in Nat /\ SystemValueIn(b1) \in Nat
        /\ SystemValueIn(b1) >= SystemValueIn(bal) + V
    BY <1>1, <2>1, <2>4, TakeIn
  <2> HIDE DEF b1, V
  <2>6. price[to] * m <= V * Unit[to]
    <3> DEFINE p == price[to]
               k == AssetAmountFromValue(V, to)
    <3>1. p \in Nat /\ k \in Nat /\ p * k <= V * Unit[to] /\ m <= k
      BY <1>1, <2>1, <2>5, NamesPlaced, AmountForValue DEF VaultTypeOK
    <3>2. V * Unit[to] \in Nat
      BY <2>5, UnitsNat
    <3> HIDE DEF p, k
    <3>3. p * m <= p * k
      BY <3>1
    <3>4. p * m \in Nat /\ p * k \in Nat
      BY <3>1
    <3>5. p * m <= V * Unit[to]
      BY <3>1, <3>2, <3>3, <3>4
    <3> QED BY <3>5 DEF p
  <2>7. SystemValueIn(c) \in Nat /\ SystemValueIn(c) >= SystemValueIn(b1) - V
    BY <1>1, <2>1, <2>2, <2>3, <2>5, <2>6, GiveOut
  <2>8. SystemValueIn(bal') >= SystemValueIn(bal) + 0 /\ supply'[Dusd] = supply[Dusd] + 0
    BY <1>1, <2>1, <2>5, <2>7
  <2>9. 0 * Unit[Dusd] + RoundingLoss >= 0 * BaseUnit
    BY UnitsNat DEF RoundingLoss
  <2> QED BY <1>1, <2>8, <2>9, SurplusKept
<1>4. ASSUME UNCHANGED <<bal, supply>>
      PROVE  Surplus' >= Surplus - RoundingLoss
  BY <1>1, <1>4, VaultsUntouched
<1>5. ASSUME NEW v \in Vaults, NEW caller \in Strategists, NEW n \in Amounts, NEW m \in Amounts,
             NEW from \in Assets, NEW to \in Assets,
             ExchangeCollateral(v, caller, n, from, m, to)
      PROVE  Surplus' >= Surplus - RoundingLoss
  <2>1. n \in Nat /\ m \in Nat /\ caller \in Accounts
    BY NumbersAssumption, VaultAssumption
  <2> QED BY <1>3, <1>5, <2>1
<1>6. ASSUME NEW v \in Vaults, NEW caller \in Strategists, NEW n \in Amounts,
             NEW min \in SlippageBounds, NEW from \in Assets, NEW to \in Assets,
             ExchangeMaxCollateral(v, caller, n, from, to, min)
      PROVE  Surplus' >= Surplus - RoundingLoss
  <2> DEFINE m == MaxExchangeAmount(n, from, to)
  <2>1. n \in Nat /\ caller \in Accounts /\ from \in Tokens /\ to \in Tokens
    BY NumbersAssumption, VaultAssumption, NamesPlaced
  <2>2. price[to] > 0 /\ ExchangeCollateral(v, caller, n, from, m, to)
    BY <1>6 DEF ExchangeMaxCollateral
  <2>3. m \in Nat
    BY <1>1, <2>1, <2>2, ValueNat, AmountNat DEF MaxExchangeAmount
  <2> HIDE DEF m
  <2> QED BY <1>3, <2>1, <2>2, <2>3
<1>7. ASSUME NEW v \in Vaults, NEW caller \in Accounts, NEW n \in Amounts, NEW a \in Assets,
             Deposit(v, caller, n, a)
      PROVE  Surplus' >= Surplus - RoundingLoss
  BY <1>2, <1>7, NumbersAssumption
<1> QED BY <1>4, <1>5, <1>6, <1>7
        DEF VaultNext, AllowCollateral, DisallowCollateral, SetPrice, ledgerVars

(* Transfers between accounts leave the vaults alone; burns only help.     *)
LEMMA LedgerBacking ==
  ASSUME IInv, IInv', LedgerNext, UNCHANGED vaultVars
  PROVE  Surplus' >= Surplus - RoundingLoss
<1>1. bal \in Books /\ supply \in Supplies /\ supply[Dusd] \in Nat
  BY NamesPlaced DEF IInv, Sound, Balanced, Supplies
<1>2. ASSUME NEW account, NEW allowed, SetAllowlisted(account, allowed)
      PROVE  Surplus' >= Surplus - RoundingLoss
  BY <1>1, <1>2, VaultsUntouched DEF SetAllowlisted
<1>3. ASSUME NEW t \in Tokens, NEW from \in Accounts, NEW to \in Accounts, NEW n \in Amounts,
             HolderTransfer(t, from, to, n)
      PROVE  Surplus' >= Surplus - RoundingLoss
  <2>1. /\ n \in Nat /\ from \in Holders /\ to \in Holders
        /\ bal[t][from] >= n /\ bal' = Move(bal, t, from, to, n) /\ supply' = supply
    BY <1>3, NumbersAssumption, NamesPlaced DEF HolderTransfer, CanTransfer
  <2>2. \A u \in Tokens, k \in Holders : u # t \/ k \notin {from, to} => bal'[u][k] = bal[u][k]
    BY <1>1, <2>1, MoveBook
  <2>3. \A v \in Vaults, a \in Assets : bal'[a][v] = bal[a][v]
    BY <2>2, NamesPlaced
  <2> QED BY <1>1, <2>1, <2>3, VaultsUntouched
<1>4. ASSUME NEW holder \in Accounts, NEW n \in Amounts, HolderBurn(holder, n)
      PROVE  Surplus' >= Surplus - RoundingLoss
  <2>1. /\ n \in Nat /\ holder \in Holders /\ Dusd \in Tokens
        /\ bal[Dusd][holder] >= n /\ bal' = Debit(bal, Dusd, holder, n)
        /\ supply' = [supply EXCEPT ![Dusd] = @ - n]
    BY <1>4, NumbersAssumption, NamesPlaced DEF HolderBurn, CanBurn
  <2>2. \A v \in Vaults, a \in Assets : bal'[a][v] = bal[a][v]
    BY <1>1, <2>1, NamesPlaced, DebitBook
  <2>3. supply'[Dusd] <= supply[Dusd]
    BY <1>1, <2>1 DEF Supplies
  <2> QED BY <2>2, <2>3, VaultsUntouched
<1> QED BY <1>2, <1>3, <1>4 DEF LedgerNext

(* Issuing: the dUSD minted is worth no more than the collateral taken in. *)
LEMMA IssueBacking ==
  ASSUME IInv, IInv', UNCHANGED vaultVars, NEW caller \in Accounts, NEW n \in Nat,
         NEW a \in Assets, NEW min, Issue(caller, n, a, min)
  PROVE  Surplus' >= Surplus - RoundingLoss
<1> DEFINE V == AssetValueFromAmount(n, a)
           minted == BaseValueToDusdAmount(V)
           b1 == Move(bal, a, caller, issuerVault, n)
<1>1. /\ bal \in Books /\ supply \in Supplies /\ supply[Dusd] \in Nat
      /\ VaultTypeOK /\ issuerVault \in Vaults
  BY NamesPlaced DEF IInv, Sound, Balanced, Supplies, SettingsTypeOK, IssuerTypeOK
<1>2. /\ bal[a][caller] >= n /\ a \in supported[issuerVault]
      /\ bal' = Credit(b1, Dusd, caller, minted)
      /\ supply' = [supply EXCEPT ![Dusd] = @ + minted]
  BY DEF Issue, CanTransferFrom, IsAssetMintingEnabled
<1>3. /\ b1 \in Books /\ V \in Nat
      /\ SystemValueIn(bal) \in Nat /\ SystemValueIn(b1) \in Nat
      /\ SystemValueIn(b1) >= SystemValueIn(bal) + V
  BY <1>1, <1>2, TakeIn
<1> HIDE DEF V, b1
<1>4. minted \in Nat /\ minted * BaseUnit <= V * Unit[Dusd]
  BY <1>3, DusdForValue
<1> HIDE DEF minted
<1>5. /\ bal' \in Books
      /\ \A v \in Vaults, x \in Assets : bal'[x][v] = b1[x][v]
  <2>1. caller \in Holders /\ Dusd \in Tokens /\ \A x \in Assets : x \in Tokens /\ x # Dusd
    BY NamesPlaced
  <2>2. \A w \in Vaults : w \in Holders
    BY NamesPlaced
  <2>3. /\ Credit(b1, Dusd, caller, minted) \in Books
        /\ \A u \in Tokens, k \in Holders :
             u # Dusd \/ k # caller => Credit(b1, Dusd, caller, minted)[u][k] = b1[u][k]
    BY <1>3, <1>4, <2>1, CreditBook
  <2> QED BY <1>2, <2>1, <2>2, <2>3
<1>6. SystemValueIn(bal') = SystemValueIn(b1)
  BY <1>1, <1>3, <1>5, SystemSame
<1>7. supply'[Dusd] = supply[Dusd] + minted
  BY <1>1, <1>2, NamesPlaced DEF Supplies
<1>8. V * Unit[Dusd] + RoundingLoss >= minted * BaseUnit
  <2>1. RoundingLoss \in Nat
    BY UnitsNat DEF RoundingLoss
  <2>2. V * Unit[Dusd] \in Nat /\ minted * BaseUnit \in Nat
    BY <1>3, <1>4, UnitsNat
  <2> HIDE DEF RoundingLoss
  <2> QED BY <1>4, <2>1, <2>2
<1>9. SystemValueIn(bal') >= SystemValueIn(bal) + V
  BY <1>3, <1>6
<1> QED BY <1>3, <1>4, <1>7, <1>8, <1>9, SurplusKept

(* A payout of collateral for the dUSD burned costs the vaults no more     *)
(* than the dUSD was worth, however it is split between two accounts.      *)
LEMMA PayBacking ==
  ASSUME IInv, IInv', UNCHANGED vaultVars, NEW n \in Nat, NEW a \in Assets,
         a \in supported[redeemerVault], price[a] > 0,
         supply' = [supply EXCEPT ![Dusd] = @ - n],
         OnlyChange(bal, bal', a, redeemerVault),
         bal[a][redeemerVault] >= CollateralFor(n, a),
         bal'[a][redeemerVault] = bal[a][redeemerVault] - CollateralFor(n, a)
  PROVE  Surplus' >= Surplus - RoundingLoss
<1> DEFINE W == DusdAmountToBaseValue(n)
           total == CollateralFor(n, a)
           v == redeemerVault
<1>1. /\ bal \in Books /\ bal' \in Books /\ supply \in Supplies /\ supply[Dusd] \in Nat
      /\ VaultTypeOK /\ v \in Vaults
  BY NamesPlaced DEF IInv, Sound, Balanced, Supplies, SettingsTypeOK, RedeemerTypeOK
<1>2. W \in Nat /\ W * Unit[Dusd] = n * BaseUnit
  BY ValueForDusd
<1>3. total \in Nat /\ price[a] * total <= W * Unit[a]
  BY <1>1, <1>2, AmountForValue DEF CollateralFor
<1>4. total <= bal[a][v] /\ bal'[a][v] = bal[a][v] - total
  BY <1>1, <1>3, NamesPlaced DEF Books
<1> HIDE DEF W, total, v
<1>5. /\ SystemValueIn(bal) \in Nat /\ SystemValueIn(bal') \in Nat
      /\ SystemValueIn(bal') >= SystemValueIn(bal) - W
  <2>1. OnlyChange(bal, bal', a, v) /\ a \in supported[v]
    BY DEF v
  <2> QED BY <1>1, <1>2, <1>3, <1>4, <2>1, WorthLost
<1>6. supply'[Dusd] = supply[Dusd] + (-n) /\ -n \in Int /\ -W \in Int
  BY <1>1, <1>2, NamesPlaced DEF Supplies
<1>7. SystemValueIn(bal') >= SystemValueIn(bal) + (-W)
  BY <1>2, <1>5
<1>8. (-W) * Unit[Dusd] + RoundingLoss >= (-n) * BaseUnit
  <2>1. RoundingLoss \in Nat
    BY UnitsNat DEF RoundingLoss
  <2>2. (-W) * Unit[Dusd] = -(W * Unit[Dusd]) /\ (-n) * BaseUnit = -(n * BaseUnit)
        /\ n * BaseUnit \in Nat
    BY <1>2, UnitsNat
  <2> HIDE DEF RoundingLoss
  <2> QED BY <1>2, <2>1, <2>2
<1> QED BY <1>6, <1>7, <1>8, SurplusKept

(* A fee is at most the highest fee.                                       *)
LEMMA FeeAtMost ==
  ASSUME RedeemerTypeOK, NEW n \in Nat, NEW a \in Assets
  PROVE  /\ MulDiv(n, MaxFeeBps, OneHundredPercentBps) \in Nat
         /\ FeeOn(n, a) <= MulDiv(n, MaxFeeBps, OneHundredPercentBps)
<1> DEFINE f == CurrentFeeBps(a)
           m == MaxFeeBps
           d == OneHundredPercentBps
           fee == MulDiv(n, f, d)
<1>1. f \in Nat /\ m \in Nat /\ d \in Nat \ {0} /\ f <= m
  BY RedeemerAssumption DEF RedeemerTypeOK, CurrentFeeBps
<1>2. FeeOn(n, a) = fee
  BY DEF FeeOn
<1> HIDE DEF f, m, d
<1>3. fee \in Nat /\ fee * d <= n * f
  BY <1>1, MulDivFits
<1>4. n * f <= n * m /\ n * f \in Nat /\ n * m \in Nat
  BY <1>1
<1> HIDE DEF fee
<1>5. fee * d <= n * m
  <2>1. fee * d \in Nat
    BY <1>1, <1>3
  <2> QED BY <1>3, <1>4, <2>1
<1>6. fee <= (n * m) \div d
  BY <1>1, <1>3, <1>4, <1>5, DivGreatest
<1>7. MulDiv(n, m, d) \in Nat /\ MulDiv(n, m, d) = (n * m) \div d
  BY <1>1, MulDivNat DEF MulDiv
<1> QED BY <1>2, <1>6, <1>7 DEF m, d

(* What a redemption moves: the caller's dUSD is destroyed, the asset goes *)
(* out of the redeemer's vault and nowhere else, and the caller gets at    *)
(* least what the fee leaves.                                              *)
LEMMA RedeemMoves ==
  ASSUME IInv, NEW caller \in Accounts, NEW n \in Nat, NEW a \in Assets, NEW min,
         Redeem(caller, n, a, min) \/ RedeemAsProtocol(caller, n, a, min)
  PROVE  /\ Redeemable(a) /\ CollateralFor(n, a) \in Nat
         /\ supply' = [supply EXCEPT ![Dusd] = @ - n]
         /\ OnlyChange(bal, bal', a, redeemerVault)
         /\ bal[a][redeemerVault] >= CollateralFor(n, a)
         /\ bal'[a][redeemerVault] = bal[a][redeemerVault] - CollateralFor(n, a)
         /\ \A c \in Accounts : c # caller => bal'[Dusd][c] = bal[Dusd][c]
         /\ bal'[a][caller] >= bal[a][caller] + CollateralFor(n, a)
                                 - FeeOn(CollateralFor(n, a), a)
<1> DEFINE total == CollateralFor(n, a)
           fee == FeeOn(total, a)
           v == redeemerVault
           b0 == Debit(bal, Dusd, caller, n)
<1>1. /\ bal \in Books /\ supply \in Supplies /\ VaultTypeOK /\ RedeemerTypeOK
      /\ v \in Vaults /\ v \in Holders /\ feeReceiver \in Accounts /\ feeReceiver \in Holders
      /\ caller \in Holders /\ caller # v /\ feeReceiver # v /\ a \in Tokens
      /\ Redeemer \in Holders /\ caller # Redeemer /\ Dusd \in Tokens /\ a # Dusd
  BY NamesPlaced DEF IInv, Sound, Balanced, SettingsTypeOK, RedeemerTypeOK
<1>2. /\ Redeemable(a) /\ price[a] > 0 /\ bal[Dusd][caller] >= n
      /\ supply' = [supply EXCEPT ![Dusd] = @ - n]
  BY DEF Redeem, RedeemAsProtocol, Redeemable, CanPayOut, CanTransferFrom
<1>3. total \in Nat
  BY <1>1, <1>2, ConversionsNat, AmountNat DEF CollateralFor
<1>4. AfterBurn(bal, caller, n) = b0
  BY <1>1, <1>2, PassThrough DEF AfterBurn
<1>5. /\ b0 \in Books /\ \A x \in Assets, h \in Holders : b0[x][h] = bal[x][h]
      /\ \A c \in Accounts : c # caller => b0[Dusd][c] = bal[Dusd][c]
  BY <1>1, <1>2, NamesPlaced, DebitBook
<1>6. fee \in Nat /\ fee <= total
  BY <1>1, <1>3, FeeBounded
<1> HIDE DEF b0, total, fee, v
<1>7. ASSUME NEW m \in Nat, CanPayOut(caller, n, a, m)
      PROVE  /\ PayOut(caller, n, a, m) \in Books
             /\ bal[a][v] >= m /\ PayOut(caller, n, a, m)[a][v] = bal[a][v] - m
             /\ OnlyChange(bal, PayOut(caller, n, a, m), a, v)
             /\ \A c \in Accounts : c # caller => PayOut(caller, n, a, m)[Dusd][c] = bal[Dusd][c]
             /\ PayOut(caller, n, a, m)[a][caller] = bal[a][caller] + m
  <2> DEFINE c == Move(b0, a, v, caller, m)
  <2>1. PayOut(caller, n, a, m) = c /\ b0[a][v] >= m
    BY <1>4, <1>7 DEF PayOut, CanPayOut, Withdraw, CanWithdraw, CanTransfer, v
  <2>2. c \in Books /\ c[a][v] = b0[a][v] - m /\ c[a][caller] = b0[a][caller] + m
    BY <1>1, <1>5, <2>1, MoveExact
  <2>3. \A u \in Tokens, k \in Holders : u # a \/ k \notin {v, caller} => c[u][k] = b0[u][k]
    BY <1>1, <1>5, <2>1, MoveBook
  <2>4. OnlyChange(bal, c, a, v)
    BY <1>1, <1>5, <2>3, NamesPlaced DEF OnlyChange
  <2>5. \A k \in Accounts : k # caller => c[Dusd][k] = bal[Dusd][k]
    BY <1>1, <1>5, <2>3, NamesPlaced
  <2> QED BY <1>1, <1>5, <2>1, <2>2, <2>4, <2>5
<1>8. bal[a][v] \in Nat /\ bal[a][caller] \in Nat
  BY <1>1 DEF Books
<1>9. ASSUME OnlyChange(bal, bal', a, v), bal[a][v] >= total, bal'[a][v] = bal[a][v] - total,
             \A c \in Accounts : c # caller => bal'[Dusd][c] = bal[Dusd][c],
             bal'[a][caller] >= bal[a][caller] + total - fee
      PROVE  /\ OnlyChange(bal, bal', a, redeemerVault)
             /\ bal[a][redeemerVault] >= CollateralFor(n, a)
             /\ bal'[a][redeemerVault] = bal[a][redeemerVault] - CollateralFor(n, a)
             /\ \A c \in Accounts : c # caller => bal'[Dusd][c] = bal[Dusd][c]
             /\ bal'[a][caller] >= bal[a][caller] + CollateralFor(n, a)
                                     - FeeOn(CollateralFor(n, a), a)
  BY <1>9 DEF total, fee, v
<1>10. CASE RedeemAsProtocol(caller, n, a, min)
  <2>1. CanPayOut(caller, n, a, total) /\ bal' = PayOut(caller, n, a, total)
    BY <1>10 DEF RedeemAsProtocol, total
  <2>2. bal'[a][caller] >= bal[a][caller] + total - fee
    BY <1>3, <1>6, <1>7, <1>8, <2>1
  <2> QED BY <1>2, <1>3, <1>7, <1>9, <2>1, <2>2 DEF total
<1>11. CASE Redeem(caller, n, a, min)
  <2> DEFINE net == total - fee
             b1 == PayOut(caller, n, a, net)
  <2>1. net \in Nat /\ CanPayOut(caller, n, a, net)
    BY <1>3, <1>6, <1>11 DEF Redeem, total, fee
  <2>2. /\ b1 \in Books /\ bal[a][v] >= net /\ b1[a][v] = bal[a][v] - net
        /\ OnlyChange(bal, b1, a, v) /\ b1[a][caller] = bal[a][caller] + net
        /\ \A c \in Accounts : c # caller => b1[Dusd][c] = bal[Dusd][c]
    BY <1>7, <2>1
  <2> HIDE DEF b1
  <2>3. CASE fee = 0 /\ bal' = b1
    <3>1. net = total
      BY <1>3, <2>3
    <3>2. b1[a][caller] >= bal[a][caller] + total - fee
      BY <1>3, <1>8, <2>2, <2>3, <3>1
    <3> QED BY <1>2, <1>3, <1>9, <2>2, <2>3, <3>1, <3>2 DEF total
  <2>4. CASE b1[a][v] >= fee /\ bal' = Move(b1, a, v, feeReceiver, fee)
    <3> DEFINE c == Move(b1, a, v, feeReceiver, fee)
    <3>1. c[a][v] = b1[a][v] - fee /\ c[a][feeReceiver] = b1[a][feeReceiver] + fee
      BY <1>1, <1>6, <2>2, <2>4, MoveExact
    <3>2. \A u \in Tokens, k \in Holders :
            u # a \/ k \notin {v, feeReceiver} => c[u][k] = b1[u][k]
      BY <1>1, <1>6, <2>2, <2>4, MoveBook
    <3>3. OnlyChange(bal, c, a, v)
      BY <1>1, <2>2, <3>2, NamesPlaced DEF OnlyChange
    <3>4. bal[a][v] >= total /\ c[a][v] = bal[a][v] - total
      BY <1>3, <1>6, <1>8, <2>1, <2>2, <2>4, <3>1
    <3>5. \A k \in Accounts : k # caller => c[Dusd][k] = bal[Dusd][k]
      BY <1>1, <2>2, <3>2, NamesPlaced
    <3>6. c[a][caller] >= b1[a][caller]
      <4>1. b1[a][caller] \in Nat
        BY <1>1, <2>2 DEF Books
      <4>2. c[a][caller] = b1[a][caller] \/ c[a][caller] = b1[a][caller] + fee
        BY <1>1, <3>1, <3>2
      <4> QED BY <1>6, <4>1, <4>2
    <3>7. c[a][caller] >= bal[a][caller] + total - fee
      <4>1. c[a][caller] >= bal[a][caller] + net
        BY <2>2, <3>6
      <4> QED BY <1>3, <1>6, <1>8, <4>1
    <3> QED BY <1>2, <1>3, <1>9, <2>4, <3>3, <3>4, <3>5, <3>7 DEF total
  <2>5. (fee = 0 /\ bal' = b1) \/ (b1[a][v] >= fee /\ bal' = Move(b1, a, v, feeReceiver, fee))
    BY <1>11 DEF Redeem, CanWithdraw, CanTransfer, Withdraw, total, fee, v, b1
  <2> QED BY <2>3, <2>4, <2>5
<1> QED BY <1>10, <1>11

(* Redeeming, with or without a fee.                                       *)
LEMMA RedeemBacking ==
  ASSUME IInv, IInv', UNCHANGED vaultVars, NEW caller \in Accounts, NEW n \in Nat,
         NEW a \in Assets, NEW min, Redeem(caller, n, a, min) \/ RedeemAsProtocol(caller, n, a, min)
  PROVE  Surplus' >= Surplus - RoundingLoss
<1>1. a \in supported[redeemerVault] /\ price[a] > 0
  BY RedeemMoves DEF Redeemable
<1> QED BY <1>1, RedeemMoves, PayBacking

-----------------------------------------------------------------------------
(* A burn of debt tokens costs the vaults what they stood for.             *)
LEMMA DebtBurnWorth ==
  ASSUME IInv, price[DebtToken] = BaseUnit, NEW b \in Books, NEW V \in Nat,
         CanBurnDebt(b, BaseToDebtUnits(V)),
         \/ DebtToken \in supported[managerVault]
         \/ AfterDebtBurn(b, BaseToDebtUnits(V))[DebtToken][managerVault]
              = b[DebtToken][managerVault]
  PROVE  /\ SystemValueIn(b) \in Nat
         /\ SystemValueIn(AfterDebtBurn(b, BaseToDebtUnits(V))) \in Nat
         /\ SystemValueIn(AfterDebtBurn(b, BaseToDebtUnits(V))) >= SystemValueIn(b) - V
<1> DEFINE d == BaseToDebtUnits(V)
           c == Debit(b, DebtToken, managerVault, d)
           v == managerVault
<1>1. /\ VaultTypeOK /\ v \in Vaults /\ v \in Holders /\ Manager \in Holders /\ v # Manager
      /\ DebtToken \in Tokens /\ DebtToken \in Assets
  BY NamesPlaced DEF IInv, SettingsTypeOK, AmoTypeOK
<1>2. d \in Nat /\ price[DebtToken] * d <= V * Unit[DebtToken]
  BY <1>1, DebtAtPar
<1>3. b[DebtToken][v] >= d
  BY DEF CanBurnDebt, CanWithdraw, CanTransfer
<1>4. AfterDebtBurn(b, d) = c
  BY <1>1, <1>2, <1>3, PassThrough DEF AfterDebtBurn, Withdraw
<1>5. /\ c \in Books /\ c[DebtToken][v] = b[DebtToken][v] - d
      /\ \A u \in Tokens, k \in Holders : u # DebtToken \/ k # v => c[u][k] = b[u][k]
  BY <1>1, <1>2, <1>3, DebitBook
<1>6. DebtToken \in supported[v] \/ c[DebtToken][v] = b[DebtToken][v]
  BY <1>4
<1>7. d <= b[DebtToken][v]
  BY <1>1, <1>2, <1>3 DEF Books
<1> HIDE DEF d, c, v
<1>8. OnlyChange(b, c, DebtToken, v)
  BY <1>5, NamesPlaced DEF OnlyChange
<1>9. /\ SystemValueIn(b) \in Nat /\ SystemValueIn(c) \in Nat
      /\ SystemValueIn(c) >= SystemValueIn(b) - V
  BY <1>1, <1>2, <1>5, <1>6, <1>7, <1>8, WorthLost
<1> QED BY <1>4, <1>9 DEF d

(* Debt tokens minted to the manager's vault, at par.                      *)
LEMMA DebtMintWorth ==
  ASSUME IInv, price[DebtToken] = BaseUnit, NEW V \in Nat,
         \/ DebtToken \in supported[managerVault]
         \/ Credit(bal, DebtToken, managerVault, BaseToDebtUnits(V))[DebtToken][managerVault]
              = bal[DebtToken][managerVault]
  PROVE  /\ Credit(bal, DebtToken, managerVault, BaseToDebtUnits(V)) \in Books
         /\ OnlyChange(bal, Credit(bal, DebtToken, managerVault, BaseToDebtUnits(V)),
                       DebtToken, managerVault)
         /\ SystemValueIn(bal) \in Nat
         /\ SystemValueIn(Credit(bal, DebtToken, managerVault, BaseToDebtUnits(V))) \in Nat
         /\ SystemValueIn(Credit(bal, DebtToken, managerVault, BaseToDebtUnits(V)))
              >= SystemValueIn(bal) + V
<1> DEFINE d == BaseToDebtUnits(V)
           v == managerVault
           c == Credit(bal, DebtToken, v, d)
<1>1. /\ VaultTypeOK /\ bal \in Books /\ v \in Vaults /\ v \in Holders
      /\ DebtToken \in Tokens /\ DebtToken \in Assets
  BY NamesPlaced DEF IInv, Sound, Balanced, SettingsTypeOK, AmoTypeOK
<1>2. d \in Nat /\ AssetValueFromAmount(d, DebtToken) = V
  BY <1>1, DebtAtPar
<1>3. /\ c \in Books /\ c[DebtToken][v] = bal[DebtToken][v] + d
      /\ \A u \in Tokens, k \in Holders : u # DebtToken \/ k # v => c[u][k] = bal[u][k]
  BY <1>1, <1>2, CreditBook
<1>4. DebtToken \in supported[v] \/ c[DebtToken][v] = bal[DebtToken][v]
  OBVIOUS
<1> HIDE DEF d, v, c
<1>5. OnlyChange(bal, c, DebtToken, v)
  BY <1>3, NamesPlaced DEF OnlyChange
<1>6. /\ SystemValueIn(bal) \in Nat /\ SystemValueIn(c) \in Nat
      /\ SystemValueIn(c) >= SystemValueIn(bal) + V
  BY <1>1, <1>2, <1>3, <1>4, <1>5, WorthGained
<1> QED BY <1>3, <1>5, <1>6 DEF c, d, v

(* Minting dUSD for a wallet: the debt tokens stand for all of it.         *)
LEMMA IncreaseBacking ==
  ASSUME IInv, IInv', OrdinaryStep, NEW n \in Nat, NEW wallet \in AmoWallets,
         IncreaseAmoSupply(n, wallet)
  PROVE  Surplus' >= Surplus - RoundingLoss
<1> DEFINE V == DusdAmountToBaseValue(n)
           d == BaseToDebtUnits(V)
           b1 == Credit(bal, DebtToken, managerVault, d)
<1>1. /\ VaultTypeOK /\ bal \in Books /\ supply \in Supplies /\ managerVault \in Vaults
      /\ wallet \in Holders /\ Dusd \in Tokens /\ DebtToken \in Tokens /\ Dusd # DebtToken
      /\ DebtToken \in Assets
      /\ price[DebtToken] = BaseUnit /\ UNCHANGED vaultVars
  BY AmoAssumption, NamesPlaced
     DEF IInv, Sound, Balanced, SettingsTypeOK, AmoTypeOK, OrdinaryStep
<1>2. V \in Nat /\ V * Unit[Dusd] = n * BaseUnit
  BY ValueForDusd
<1>3. /\ bal' = Credit(b1, Dusd, wallet, n)
      /\ supply' = [supply EXCEPT ![DebtToken] = @ + d, ![Dusd] = @ + n]
  BY DEF IncreaseAmoSupply, DebtForDusd
<1> HIDE DEF V
<1>4. d \in Nat
  BY <1>1, <1>2, DebtAtPar
<1>5. b1 \in Books
  BY <1>1, <1>4, NamesPlaced, CreditBook
<1>6. bal' \in Books /\ \A w \in Vaults, x \in Assets : bal'[x][w] = b1[x][w]
  <2>1. \A x \in Assets : x \in Tokens /\ x # Dusd
    BY NamesPlaced
  <2>2. \A w \in Vaults : w \in Holders
    BY NamesPlaced
  <2> HIDE DEF b1
  <2> QED BY <1>1, <1>3, <1>5, <2>1, <2>2, CreditBook
<1>7. DebtToken \in supported[managerVault]
      \/ b1[DebtToken][managerVault] = bal[DebtToken][managerVault]
  BY <1>1, <1>6 DEF OrdinaryStep
<1>8. /\ SystemValueIn(bal) \in Nat /\ SystemValueIn(b1) \in Nat
      /\ SystemValueIn(b1) >= SystemValueIn(bal) + V
  BY <1>1, <1>2, <1>7, DebtMintWorth
<1> HIDE DEF b1, d
<1>9. SystemValueIn(bal') >= SystemValueIn(bal) + V
  BY <1>1, <1>5, <1>6, <1>8, SystemSame
<1>10. supply'[Dusd] = supply[Dusd] + n
  BY <1>1, <1>3 DEF Supplies
<1>11. V * Unit[Dusd] + RoundingLoss >= n * BaseUnit
  <2>1. RoundingLoss \in Nat /\ n * BaseUnit \in Nat
    BY UnitsNat DEF RoundingLoss
  <2> HIDE DEF RoundingLoss
  <2> QED BY <1>2, <2>1
<1> QED BY <1>1, <1>2, <1>9, <1>10, <1>11, SurplusKept

(* Burning a wallet's dUSD: the debt tokens burned stand for no more.      *)
LEMMA DecreaseBacking ==
  ASSUME IInv, IInv', OrdinaryStep, NEW n \in Nat, NEW wallet \in AmoWallets,
         DecreaseAmoSupply(n, wallet)
  PROVE  Surplus' >= Surplus - RoundingLoss
<1> DEFINE V == DusdAmountToBaseValue(n)
           d == BaseToDebtUnits(V)
           b1 == Debit(bal, Dusd, wallet, n)
<1>1. /\ VaultTypeOK /\ bal \in Books /\ supply \in Supplies /\ managerVault \in Vaults
      /\ wallet \in Holders /\ Manager \in Holders /\ wallet # Manager
      /\ Dusd \in Tokens /\ DebtToken \in Tokens /\ Dusd # DebtToken /\ DebtToken \in Assets
      /\ price[DebtToken] = BaseUnit /\ UNCHANGED vaultVars
  BY AmoAssumption, NamesPlaced
     DEF IInv, Sound, Balanced, SettingsTypeOK, AmoTypeOK, OrdinaryStep
<1>2. V \in Nat /\ V * Unit[Dusd] = n * BaseUnit
  BY ValueForDusd
<1>3. bal[Dusd][wallet] >= n
  BY DEF DecreaseAmoSupply, CanTransferFrom
<1>4. Debit(Move(bal, Dusd, wallet, Manager, n), Dusd, Manager, n) = b1
  BY <1>1, <1>3, PassThrough
<1>5. /\ CanBurnDebt(b1, d) /\ bal' = AfterDebtBurn(b1, d)
      /\ supply' = [supply EXCEPT ![DebtToken] = @ - d, ![Dusd] = @ - n]
  BY <1>4 DEF DecreaseAmoSupply, DebtForDusd
<1>6. b1 \in Books /\ \A w \in Vaults, x \in Assets : b1[x][w] = bal[x][w]
  <2>1. \A x \in Assets : x \in Tokens /\ x # Dusd
    BY NamesPlaced
  <2>2. \A w \in Vaults : w \in Holders
    BY NamesPlaced
  <2> QED BY <1>1, <1>3, <2>1, <2>2, DebitBook
<1> HIDE DEF V, b1
<1>7. DebtToken \in supported[managerVault]
      \/ AfterDebtBurn(b1, d)[DebtToken][managerVault] = b1[DebtToken][managerVault]
  BY <1>1, <1>5, <1>6 DEF OrdinaryStep
<1>8. SystemValueIn(b1) \in Nat /\ SystemValueIn(bal') >= SystemValueIn(b1) - V
      /\ SystemValueIn(bal') \in Nat
  BY <1>1, <1>2, <1>5, <1>6, <1>7, DebtBurnWorth
<1>9. SystemValueIn(bal) = SystemValueIn(b1)
  BY <1>1, <1>6, SystemSame
<1> HIDE DEF d
<1>10. SystemValueIn(bal') >= SystemValueIn(bal) + (-V) /\ -V \in Int /\ -n \in Int
  BY <1>2, <1>8, <1>9
<1>11. supply'[Dusd] = supply[Dusd] + (-n)
  BY <1>1, <1>5 DEF Supplies
<1>12. (-V) * Unit[Dusd] + RoundingLoss >= (-n) * BaseUnit
  <2>1. RoundingLoss \in Nat
    BY UnitsNat DEF RoundingLoss
  <2>2. (-V) * Unit[Dusd] = -(V * Unit[Dusd]) /\ (-n) * BaseUnit = -(n * BaseUnit)
        /\ n * BaseUnit \in Nat
    BY <1>2, UnitsNat
  <2> HIDE DEF RoundingLoss
  <2> QED BY <1>2, <2>1, <2>2
<1> QED BY <1>1, <1>10, <1>11, <1>12, SurplusKept

(* Lending collateral: the debt tokens stand for all but one base unit.    *)
LEMMA BorrowBacking ==
  ASSUME IInv, IInv', OrdinaryStep, NEW wallet \in AmoWallets, NEW a \in Assets,
         NEW n \in Nat, NEW min, BorrowTo(wallet, a, n, min)
  PROVE  Surplus' >= Surplus - RoundingLoss
<1> DEFINE V == AssetValueFromAmount(n, a)
           v == managerVault
           b1 == Credit(bal, DebtToken, v, BaseToDebtUnits(V))
           c == Move(b1, a, v, wallet, n)
<1>1. /\ VaultTypeOK /\ bal \in Books /\ supply \in Supplies /\ v \in Vaults /\ v \in Holders
      /\ wallet \in Holders /\ wallet \notin Vaults /\ wallet # v
      /\ Dusd \in Tokens /\ DebtToken \in Tokens /\ Dusd # DebtToken /\ DebtToken \in Assets
      /\ a \in Tokens /\ price[DebtToken] = BaseUnit /\ UNCHANGED vaultVars
  BY AmoAssumption, NamesPlaced
     DEF IInv, Sound, Balanced, SettingsTypeOK, AmoTypeOK, OrdinaryStep
<1>2. /\ a \in supported[v] /\ a # DebtToken /\ b1[a][v] >= n /\ bal' = c
      /\ supply' = [supply EXCEPT ![DebtToken] = @ + BaseToDebtUnits(V)]
  BY DEF BorrowTo, CollateralOperation, CanWithdraw, CanTransfer, Withdraw, DebtForAsset
<1>3. V \in Nat /\ price[a] * n <= (V + 1) * Unit[a]
  BY <1>1, LentWorth
<1> HIDE DEF V
<1>4. BaseToDebtUnits(V) \in Nat
  BY <1>3, ConversionsNat
<1>5. b1 \in Books
      /\ \A u \in Tokens, k \in Holders : u # DebtToken \/ k # v => b1[u][k] = bal[u][k]
  BY <1>1, <1>4, CreditBook
<1>6. \A u \in Tokens, k \in Holders : u # a \/ k \notin {v, wallet} => c[u][k] = b1[u][k]
  <2> HIDE DEF b1
  <2> QED BY <1>1, <1>2, <1>3, <1>5, MoveBook
<1>7. DebtToken \in supported[v] \/ b1[DebtToken][v] = bal[DebtToken][v]
  BY <1>1, <1>2, <1>6 DEF OrdinaryStep
<1>8. /\ SystemValueIn(bal) \in Nat /\ SystemValueIn(b1) \in Nat
      /\ SystemValueIn(b1) >= SystemValueIn(bal) + V
  BY <1>1, <1>3, <1>7, DebtMintWorth
<1> HIDE DEF b1, v
<1>9. /\ SystemValueIn(c) \in Nat /\ SystemValueIn(c) >= SystemValueIn(b1) - (V + 1)
      /\ c[a][v] = b1[a][v] - n
  <2>1. V + 1 \in Nat
    BY <1>3
  <2> QED BY <1>1, <1>2, <1>3, <1>5, <2>1, GiveOut
<1>10. SystemValueIn(bal') >= SystemValueIn(bal) + (-1)
  BY <1>2, <1>3, <1>8, <1>9
<1>11. supply'[Dusd] = supply[Dusd] + 0
  <2>1. supply'[Dusd] = supply[Dusd] /\ supply[Dusd] \in Nat
    BY <1>1, <1>2 DEF Supplies
  <2> QED BY <2>1
<1>12. \A w \in Vaults, x \in Collaterals : bal'[x][w] <= bal[x][w]
  <2> SUFFICES ASSUME NEW w \in Vaults, NEW x \in Collaterals PROVE c[x][w] <= bal[x][w]
    BY <1>2
  <2>1. /\ x \in Tokens /\ x # DebtToken /\ w \in Holders /\ w # wallet
        /\ bal[x][w] \in Nat /\ b1[x][w] = bal[x][w]
    BY <1>1, <1>5, NamesAssumption, NamesPlaced DEF Assets, Books
  <2>2. CASE x = a /\ w = v
    BY <1>9, <2>1, <2>2
  <2>3. CASE x # a \/ w # v
    BY <1>6, <2>1, <2>3
  <2> QED BY <2>2, <2>3
<1>13. RoundingLoss = Unit[Dusd]
  <2>1. supply'[Dusd] = supply[Dusd]
    BY <1>1, <1>2 DEF Supplies
  <2> QED BY <1>12, <2>1 DEF RoundingLoss
<1>14. (-1) * Unit[Dusd] + RoundingLoss >= 0 * BaseUnit
  BY <1>13, UnitsNat
<1> QED BY <1>1, <1>10, <1>11, <1>14, SurplusKept

(* Repaying in collateral: what comes in is worth the debt tokens burned.  *)
LEMMA RepayKeepsReserve ==
  ASSUME IInv, IInv', OrdinaryStep, NEW wallet \in AmoWallets, NEW a \in Assets,
         NEW n \in Nat, NEW max, RepayFrom(wallet, a, n, max)
  PROVE  /\ SystemValueIn(bal') >= SystemValueIn(bal) + 0
         /\ supply'[Dusd] = supply[Dusd] + 0
<1> DEFINE V == AssetValueFromAmount(n, a)
           d == BaseToDebtUnits(V)
           v == managerVault
           b1 == Move(bal, a, wallet, v, n)
<1>1. /\ VaultTypeOK /\ bal \in Books /\ supply \in Supplies /\ v \in Vaults /\ v \in Holders
      /\ wallet \in Accounts /\ wallet \in Holders /\ wallet # v
      /\ Dusd \in Tokens /\ DebtToken \in Tokens /\ Dusd # DebtToken /\ DebtToken \in Assets
      /\ a \in Tokens /\ price[DebtToken] = BaseUnit /\ UNCHANGED vaultVars
  BY AmoAssumption, NamesPlaced
     DEF IInv, Sound, Balanced, SettingsTypeOK, AmoTypeOK, OrdinaryStep
<1>2. /\ a \in supported[v] /\ a # DebtToken /\ bal[a][wallet] >= n
      /\ CanBurnDebt(b1, d) /\ bal' = AfterDebtBurn(b1, d)
      /\ supply' = [supply EXCEPT ![DebtToken] = @ - d]
  BY DEF RepayFrom, CollateralOperation, CanTransferFrom, DebtForAsset
<1>3. /\ b1 \in Books /\ OnlyChange(bal, b1, a, v) /\ V \in Nat
      /\ SystemValueIn(bal) \in Nat /\ SystemValueIn(b1) \in Nat
      /\ SystemValueIn(b1) >= SystemValueIn(bal) + V
  BY <1>1, <1>2, TakeIn
<1>4. b1[DebtToken][v] = bal[DebtToken][v]
  BY <1>1, <1>2, <1>3 DEF OnlyChange
<1> HIDE DEF b1, V
<1>5. DebtToken \in supported[v]
      \/ AfterDebtBurn(b1, d)[DebtToken][v] = b1[DebtToken][v]
  BY <1>1, <1>2, <1>4 DEF OrdinaryStep
<1>6. SystemValueIn(bal') \in Nat /\ SystemValueIn(bal') >= SystemValueIn(b1) - V
  BY <1>1, <1>2, <1>3, <1>5, DebtBurnWorth
<1>7. SystemValueIn(bal') >= SystemValueIn(bal) + 0
  BY <1>3, <1>6
<1> HIDE DEF d
<1>8. supply'[Dusd] = supply[Dusd] + 0
  <2>1. supply'[Dusd] = supply[Dusd] /\ supply[Dusd] \in Nat
    BY <1>1, <1>2 DEF Supplies
  <2> QED BY <2>1
<1> QED BY <1>7, <1>8

LEMMA RepayBacking ==
  ASSUME IInv, IInv', OrdinaryStep, NEW wallet \in AmoWallets, NEW a \in Assets,
         NEW n \in Nat, NEW max, RepayFrom(wallet, a, n, max)
  PROVE  Surplus' >= Surplus - RoundingLoss
<1>1. 0 * Unit[Dusd] + RoundingLoss >= 0 * BaseUnit
  BY UnitsNat DEF RoundingLoss
<1>2. UNCHANGED vaultVars
  BY DEF OrdinaryStep
<1> QED BY <1>1, <1>2, RepayKeepsReserve, SurplusKept

(* The AMO's operations, and its settings.                                 *)
LEMMA AmoBacking ==
  ASSUME IInv, IInv', OrdinaryStep, AmoNext
  PROVE  Surplus' >= Surplus - RoundingLoss
<1> USE NumbersAssumption
<1>0. ASSUME UNCHANGED <<bal, supply>>
      PROVE  Surplus' >= Surplus - RoundingLoss
  <2>1. UNCHANGED vaultVars /\ supply[Dusd] \in Nat
    BY NamesPlaced DEF OrdinaryStep, IInv, Sound, Balanced, Supplies
  <2> QED BY <1>0, <2>1, VaultsUntouched
<1>1. ASSUME NEW n \in Amounts, NEW wallet \in AmoWallets, IncreaseAmoSupply(n, wallet)
      PROVE  Surplus' >= Surplus - RoundingLoss
  BY <1>1, IncreaseBacking
<1>2. ASSUME NEW n \in Amounts, NEW wallet \in AmoWallets, DecreaseAmoSupply(n, wallet)
      PROVE  Surplus' >= Surplus - RoundingLoss
  BY <1>2, DecreaseBacking
<1>3. ASSUME NEW wallet \in AmoWallets, NEW a \in Assets, NEW n \in Amounts, NEW min,
             BorrowTo(wallet, a, n, min)
      PROVE  Surplus' >= Surplus - RoundingLoss
  BY <1>3, BorrowBacking
<1>4. ASSUME NEW wallet \in AmoWallets, NEW a \in Assets, NEW n \in Amounts, NEW max,
             RepayFrom(wallet, a, n, max)
      PROVE  Surplus' >= Surplus - RoundingLoss
  BY <1>4, RepayBacking
<1> QED BY <1>0, <1>1, <1>2, <1>3, <1>4
        DEF AmoNext, SetManagerVault, SetAmoWalletAllowed, SetTolerance, SetPegDeviationBps,
            ledgerVars

-----------------------------------------------------------------------------
(* No step eats into the surplus, but for what governance mints under      *)
(* cover and the rounding of a loan.                                       *)
LEMMA BackingStep ==
  ASSUME IInv, IInv', [Next]_vars, OrdinaryStep
  PROVE  \/ Surplus' >= Surplus - RoundingLoss
         \/ /\ \A v \in Vaults, a \in Assets : bal'[a][v] = bal[a][v]
            /\ supply'[Dusd] <= CollateralInDusd(bal', issuerVault)
<1> USE NumbersAssumption
<1>1. UNCHANGED vaultVars /\ supply[Dusd] \in Nat /\ bal \in Books /\ supply \in Supplies
  BY NamesPlaced DEF OrdinaryStep, IInv, Sound, Balanced, Supplies
<1>2. ASSUME UNCHANGED <<bal, supply>>
      PROVE  Surplus' >= Surplus - RoundingLoss
  BY <1>1, <1>2, VaultsUntouched
<1>3. CASE UNCHANGED vars
  BY <1>2, <1>3 DEF vars, ledgerVars
<1>4. CASE LedgerNext /\ UNCHANGED <<vaultVars, issuerVars, redeemerVars, amoVars>>
  BY <1>1, <1>4, LedgerBacking
<1>5. CASE VaultNext /\ UNCHANGED <<issuerVars, redeemerVars, amoVars>>
  BY <1>5, VaultBacking
<1>6. CASE IssuerNext
  <2>1. ASSUME NEW caller \in Accounts, NEW n \in Amounts, NEW a \in Assets, NEW min,
               Issue(caller, n, a, min)
        PROVE  Surplus' >= Surplus - RoundingLoss
    BY <1>1, <2>1, IssueBacking
  <2>2. ASSUME NEW receiver \in Accounts, NEW n \in Amounts,
               IssueUsingExcessCollateral(receiver, n)
        PROVE  /\ \A v \in Vaults, a \in Assets : bal'[a][v] = bal[a][v]
               /\ supply'[Dusd] <= CollateralInDusd(bal', issuerVault)
    <3>1. \A a \in Assets : a \in Tokens /\ a # Dusd
      BY NamesPlaced
    <3>2. /\ receiver \in Holders /\ Dusd \in Tokens /\ n \in Nat
          /\ \A v \in Vaults : v \in Holders
      BY NamesPlaced
    <3>3. \A u \in Tokens, k \in Holders :
            u # Dusd \/ k # receiver => Credit(bal, Dusd, receiver, n)[u][k] = bal[u][k]
      BY <1>1, <3>2, CreditBook
    <3>4. /\ bal' = Credit(bal, Dusd, receiver, n)
          /\ supply'[Dusd] <= CollateralInDusd(bal', issuerVault)
      BY <2>2 DEF IssueUsingExcessCollateral
    <3> QED BY <3>1, <3>2, <3>3, <3>4
  <2> QED BY <1>2, <1>6, <2>1, <2>2
          DEF IssuerNext, SetIssuerVault, SetAssetMintingPause, SetAssetDepositCap,
              SetMintingPaused, ledgerVars
<1>7. CASE RedeemerNext
  <2>1. ASSUME NEW caller \in Accounts, NEW n \in Amounts, NEW a \in Assets, NEW min,
               Redeem(caller, n, a, min) \/ RedeemAsProtocol(caller, n, a, min)
        PROVE  Surplus' >= Surplus - RoundingLoss
    BY <1>1, <2>1, RedeemBacking
  <2>2. RedemptionManagers \subseteq Accounts
    BY RedeemerAssumption
  <2> QED BY <1>2, <1>7, <2>1, <2>2
          DEF RedeemerNext, SetRedeemerVault, SetAssetRedemptionPause, SetRedemptionPaused,
              SetFeeReceiver, SetDefaultRedemptionFee, SetCollateralRedemptionFee,
              ClearCollateralRedemptionFee, ledgerVars
<1>8. CASE AmoNext
  BY <1>8, AmoBacking
<1> QED BY <1>3, <1>4, <1>5, <1>6, <1>7, <1>8 DEF Next

(* The backing of dUSD: while prices and lists stand still, whatever users,*)
(* strategists and AMO wallets do, however often and in whatever order,    *)
(* what the vaults are worth beyond the dUSD in circulation never shrinks, *)
(* except by what governance mints under cover and by at most one base     *)
(* unit for each loan of collateral.                                       *)
THEOREM BackingHolds == Spec => BackingPreserved
<1>1. IInv /\ IInv' /\ [Next]_vars => [BackingKept]_vars
  BY BackingStep DEF BackingKept
<1> QED BY <1>1, Invariance, PTL DEF Spec, BackingPreserved

-----------------------------------------------------------------------------
(* Where dUSD comes from: the issuer, whose vault covers all of it, or the *)
(* AMO manager, with debt tokens of the same worth.                        *)
LEMMA MintStep ==
  ASSUME IInv, [Next]_vars
  PROVE  MintCovered
<1>0. Amounts \subseteq Nat
  BY NumbersAssumption
<1> USE <1>0
<1>1. /\ supply \in Supplies /\ supply[Dusd] \in Nat /\ bal \in Books
      /\ VaultTypeOK /\ issuerVault \in Vaults /\ managerVault \in Vaults
      /\ Dusd \in Tokens /\ DebtToken \in Tokens /\ Dusd # DebtToken /\ DebtToken \in Assets
  BY NamesPlaced DEF IInv, Sound, Balanced, Supplies, SettingsTypeOK, IssuerTypeOK, AmoTypeOK
<1>2. ASSUME supply'[Dusd] <= supply[Dusd], supply'[Dusd] \in Int
      PROVE  MintCovered
  BY <1>1, <1>2 DEF MintCovered
<1>3. ASSUME UNCHANGED supply
      PROVE  MintCovered
  BY <1>1, <1>2, <1>3
<1>4. ASSUME NEW n \in Nat, supply' = [supply EXCEPT ![Dusd] = @ - n]
      PROVE  MintCovered
  <2>1. supply'[Dusd] = supply[Dusd] - n /\ supply[Dusd] \in Nat
    BY <1>1, <1>4 DEF Supplies
  <2>2. supply'[Dusd] <= supply[Dusd] /\ supply'[Dusd] \in Int
    BY <2>1
  <2> QED BY <1>2, <2>2
<1>5. CASE UNCHANGED vars
  BY <1>3, <1>5 DEF vars, ledgerVars
<1>6. CASE LedgerNext
  BY <1>3, <1>4, <1>6 DEF LedgerNext, SetAllowlisted, HolderTransfer, HolderBurn
<1>7. CASE VaultNext
  BY <1>3, <1>7 DEF VaultNext, Deposit, ExchangeCollateral, ExchangeMaxCollateral,
     AllowCollateral, DisallowCollateral, SetPrice, ledgerVars
<1>8. CASE IssuerNext
  <2>1. ASSUME NEW caller \in Accounts, NEW n \in Amounts, NEW a \in Assets, NEW min,
               Issue(caller, n, a, min)
        PROVE  MintCovered
    <3> DEFINE minted == BaseValueToDusdAmount(AssetValueFromAmount(n, a))
               b1 == Move(bal, a, caller, issuerVault, n)
               c == Credit(b1, Dusd, caller, minted)
    <3>1. /\ bal' = c /\ supply' = [supply EXCEPT ![Dusd] = @ + minted]
          /\ supply[Dusd] + minted <= CollateralInDusd(b1, issuerVault)
          /\ bal[a][caller] >= n
      BY <2>1 DEF Issue, CanTransferFrom
    <3>2. minted \in Nat /\ a \in Tokens /\ caller \in Holders /\ issuerVault \in Holders
      BY <1>1, NamesPlaced, ValueNat, ConversionsNat
    <3>3. b1 \in Books
      BY <1>1, <3>1, <3>2, MoveBook
    <3> HIDE DEF minted, b1
    <3>4. /\ c \in Books
          /\ \A u \in Tokens, k \in Holders : u # Dusd \/ k # caller => c[u][k] = b1[u][k]
      <4>1. Dusd \in Tokens
        BY <1>1
      <4> QED BY <3>2, <3>3, <4>1, CreditBook
    <3>5. \A x \in Assets : c[x][issuerVault] = b1[x][issuerVault]
      BY <3>2, <3>4, NamesPlaced
    <3> HIDE DEF c
    <3>6. CollateralInDusd(bal', issuerVault) = CollateralInDusd(b1, issuerVault)
      <4>1. TotalValueIn(c, issuerVault) = TotalValueIn(b1, issuerVault)
        BY <1>1, <3>3, <3>4, <3>5, TotalSame
      <4> QED BY <3>1, <4>1 DEF CollateralInDusd
    <3>7. supply'[Dusd] = supply[Dusd] + minted
      BY <1>1, <3>1 DEF Supplies
    <3> QED BY <3>1, <3>6, <3>7 DEF MintCovered
  <2>2. ASSUME NEW receiver, NEW n, IssueUsingExcessCollateral(receiver, n)
        PROVE  MintCovered
    BY <2>2 DEF IssueUsingExcessCollateral, MintCovered
  <2> QED BY <1>3, <1>8, <2>1, <2>2
          DEF IssuerNext, SetIssuerVault, SetAssetMintingPause, SetAssetDepositCap,
              SetMintingPaused, ledgerVars
<1>9. CASE RedeemerNext
  BY <1>3, <1>4, <1>9
     DEF RedeemerNext, Redeem, RedeemAsProtocol, SetRedeemerVault, SetAssetRedemptionPause,
         SetRedemptionPaused, SetFeeReceiver, SetDefaultRedemptionFee,
         SetCollateralRedemptionFee, ClearCollateralRedemptionFee, ledgerVars
<1>10. CASE AmoNext
  <2>1. ASSUME NEW n \in Amounts, NEW wallet \in AmoWallets, IncreaseAmoSupply(n, wallet)
        PROVE  MintCovered
    <3> DEFINE d == DebtForDusd(n)
               v == managerVault
               b1 == Credit(bal, DebtToken, v, d)
    <3>1. /\ bal' = Credit(b1, Dusd, wallet, n)
          /\ supply' = [supply EXCEPT ![DebtToken] = @ + d, ![Dusd] = @ + n]
      BY <2>1 DEF IncreaseAmoSupply
    <3>2. v \in Holders /\ wallet \in Holders /\ d \in Nat /\ v \in Vaults
      BY <1>1, NamesPlaced, DebtNat, AmoAssumption
    <3> HIDE DEF d, v
    <3>3. b1 \in Books /\ b1[DebtToken][v] = bal[DebtToken][v] + d
      <4>1. bal \in Books /\ DebtToken \in Tokens
        BY <1>1
      <4> QED BY <3>2, <4>1, CreditBook
    <3>4. supply'[Dusd] = supply[Dusd] + n
      BY <1>1, <3>1 DEF Supplies
    <3> HIDE DEF b1
    <3>5. bal'[DebtToken][v] = b1[DebtToken][v]
      <4>1. n \in Nat /\ Dusd \in Tokens /\ DebtToken \in Tokens /\ Dusd # DebtToken
        BY <1>1
      <4>2. Credit(b1, Dusd, wallet, n)[DebtToken][v] = b1[DebtToken][v]
        BY <3>2, <3>3, <4>1, CreditBook
      <4> QED BY <3>1, <4>2
    <3>6. bal[DebtToken][v] \in Nat
      BY <1>1, <3>2 DEF Books
    <3>7. bal'[DebtToken][v] - bal[DebtToken][v] = d /\ supply'[Dusd] - supply[Dusd] = n
      <4>1. bal'[DebtToken][v] - bal[DebtToken][v] = d
        BY <3>2, <3>3, <3>5, <3>6
      <4>2. n \in Int /\ supply[Dusd] \in Int
        BY <1>1
      <4>3. supply'[Dusd] - supply[Dusd] = n
        BY <3>4, <4>2
      <4> QED BY <4>1, <4>3
    <3>8. bal'[DebtToken][v] - bal[DebtToken][v] = DebtForDusd(supply'[Dusd] - supply[Dusd])
      BY <3>7 DEF d
    <3> QED BY <3>2, <3>8 DEF MintCovered
  <2>2. ASSUME NEW n \in Amounts, NEW wallet \in AmoWallets, DecreaseAmoSupply(n, wallet)
        PROVE  MintCovered
    <3>1. supply' = [supply EXCEPT ![DebtToken] = @ - DebtForDusd(n), ![Dusd] = @ - n]
      BY <2>2 DEF DecreaseAmoSupply
    <3>2. supply'[Dusd] = supply[Dusd] - n /\ supply[Dusd] \in Nat /\ n \in Nat
      BY <1>1, <3>1 DEF Supplies
    <3>3. supply'[Dusd] <= supply[Dusd] /\ supply'[Dusd] \in Int
      BY <3>2
    <3> QED BY <1>2, <3>3
  <2>3. ASSUME NEW wallet, NEW a, NEW n, NEW m, BorrowTo(wallet, a, n, m) \/ RepayFrom(wallet, a, n, m)
        PROVE  MintCovered
    <3>1. \E d : supply' = [supply EXCEPT ![DebtToken] = d]
      BY <2>3 DEF BorrowTo, RepayFrom
    <3>2. supply'[Dusd] = supply[Dusd] /\ supply[Dusd] \in Nat
      BY <1>1, <3>1 DEF Supplies
    <3>3. supply'[Dusd] <= supply[Dusd] /\ supply'[Dusd] \in Int
      BY <3>2
    <3> QED BY <1>2, <3>3
  <2> QED BY <1>3, <1>10, <2>1, <2>2, <2>3
          DEF AmoNext, SetManagerVault, SetAmoWalletAllowed, SetTolerance, SetPegDeviationBps,
              ledgerVars
<1> QED BY <1>5, <1>6, <1>7, <1>8, <1>9, <1>10 DEF Next

(* dUSD is created only under cover, whatever the prices and whichever     *)
(* vaults the contracts point to at that moment.                           *)
THEOREM MintsCovered == Spec => MintOnlyUnderCover
<1>1. IInv /\ [Next]_vars => [MintCovered]_vars
  BY MintStep
<1> QED BY <1>1, Invariance, PTL DEF Spec, MintOnlyUnderCover

-----------------------------------------------------------------------------
(* The AMO's settings move nothing; its four operations need an allowed    *)
(* wallet and the peg, and touch no party but that wallet and the vault.   *)
Undisturbed(w) ==
  \A t \in Tokens, h \in Parties : h # w /\ h # managerVault => bal'[t][h] = bal[t][h]

LEMMA AmoMoves ==
  ASSUME IInv, AmoNext
  PROVE  \/ UNCHANGED <<bal, supply>>
         \/ PegGuard /\ \E wallet \in allowedWallets : wallet \in Accounts /\ Undisturbed(wallet)
<1>1. Amounts \subseteq Nat /\ AmoWallets \subseteq Accounts
  BY NumbersAssumption, AmoAssumption
<1>2. /\ supply \in Supplies /\ bal \in Books /\ VaultTypeOK
      /\ managerVault \in Vaults /\ managerVault \in Holders /\ Manager \in Holders
      /\ managerVault # Manager
      /\ Dusd \in Tokens /\ DebtToken \in Tokens /\ Dusd # DebtToken
  BY NamesPlaced DEF IInv, Sound, Balanced, SettingsTypeOK, AmoTypeOK
<1>3. \A h \in Parties : h \in Holders /\ h # Manager
  BY <1>2, NamesPlaced
<1>4. ASSUME NEW b \in Books, NEW debt \in Nat, CanBurnDebt(b, debt)
      PROVE  \A t \in Tokens, h \in Parties :
               h # managerVault => AfterDebtBurn(b, debt)[t][h] = b[t][h]
  <2>1. b[DebtToken][managerVault] >= debt
    BY <1>4 DEF CanBurnDebt, CanWithdraw, CanTransfer
  <2>2. AfterDebtBurn(b, debt) = Debit(b, DebtToken, managerVault, debt)
    BY <1>2, <2>1, PassThrough DEF AfterDebtBurn, Withdraw
  <2> QED BY <1>2, <1>3, <2>1, <2>2, DebitBook
<1>5. ASSUME NEW n \in Amounts, NEW wallet \in AmoWallets, IncreaseAmoSupply(n, wallet)
      PROVE  Undisturbed(wallet)
  <2> DEFINE d == DebtForDusd(n)
             b1 == Credit(bal, DebtToken, managerVault, d)
  <2>1. bal' = Credit(b1, Dusd, wallet, n)
    BY <1>5 DEF IncreaseAmoSupply
  <2>2. d \in Nat /\ n \in Nat /\ wallet \in Holders
    BY <1>1, <1>2, <1>3, DebtNat, NamesPlaced
  <2> HIDE DEF d
  <2>3. /\ b1 \in Books
        /\ \A t \in Tokens, h \in Holders :
             t # DebtToken \/ h # managerVault => b1[t][h] = bal[t][h]
    BY <1>2, <2>2, CreditBook
  <2> HIDE DEF b1
  <2>4. \A t \in Tokens, h \in Holders :
          t # Dusd \/ h # wallet => Credit(b1, Dusd, wallet, n)[t][h] = b1[t][h]
    BY <1>2, <2>2, <2>3, CreditBook
  <2> QED BY <1>3, <2>1, <2>3, <2>4 DEF Undisturbed
<1>6. ASSUME NEW n \in Amounts, NEW wallet \in AmoWallets, DecreaseAmoSupply(n, wallet)
      PROVE  Undisturbed(wallet)
  <2> DEFINE d == DebtForDusd(n)
             b1 == Debit(bal, Dusd, wallet, n)
  <2>1. d \in Nat /\ n \in Nat /\ wallet \in Holders /\ wallet # Manager
    BY <1>1, <1>2, <1>3, DebtNat, NamesPlaced
  <2>2. bal[Dusd][wallet] >= n
    BY <1>6 DEF DecreaseAmoSupply, CanTransferFrom
  <2>3. Debit(Move(bal, Dusd, wallet, Manager, n), Dusd, Manager, n) = b1
    BY <1>2, <2>1, <2>2, PassThrough
  <2>4. CanBurnDebt(b1, d) /\ bal' = AfterDebtBurn(b1, d)
    BY <1>6, <2>3 DEF DecreaseAmoSupply
  <2>5. /\ b1 \in Books
        /\ \A t \in Tokens, h \in Holders : t # Dusd \/ h # wallet => b1[t][h] = bal[t][h]
    BY <1>2, <2>1, <2>2, DebitBook
  <2> HIDE DEF d, b1
  <2>6. \A t \in Tokens, h \in Parties : h # managerVault => bal'[t][h] = b1[t][h]
    BY <1>4, <2>1, <2>4, <2>5
  <2> QED BY <1>3, <2>5, <2>6 DEF Undisturbed
<1>7. ASSUME NEW wallet \in AmoWallets, NEW asset \in Assets, NEW n \in Amounts, NEW min,
             BorrowTo(wallet, asset, n, min)
      PROVE  Undisturbed(wallet)
  <2> DEFINE d == DebtForAsset(n, asset)
             b1 == Credit(bal, DebtToken, managerVault, d)
  <2>1. bal' = Move(b1, asset, managerVault, wallet, n) /\ b1[asset][managerVault] >= n
    BY <1>7 DEF BorrowTo, CanWithdraw, CanTransfer, Withdraw
  <2>2. d \in Nat /\ n \in Nat /\ wallet \in Holders /\ asset \in Tokens
    BY <1>1, <1>2, <1>3, NamesPlaced, DebtNat
  <2> HIDE DEF d
  <2>3. /\ b1 \in Books
        /\ \A t \in Tokens, h \in Holders :
             t # DebtToken \/ h # managerVault => b1[t][h] = bal[t][h]
    BY <1>2, <2>2, CreditBook
  <2> HIDE DEF b1
  <2>4. \A t \in Tokens, h \in Holders : t # asset \/ h \notin {managerVault, wallet}
          => Move(b1, asset, managerVault, wallet, n)[t][h] = b1[t][h]
    BY <1>2, <2>1, <2>2, <2>3, MoveBook
  <2> QED BY <1>3, <2>1, <2>3, <2>4 DEF Undisturbed
<1>8. ASSUME NEW wallet \in AmoWallets, NEW asset \in Assets, NEW n \in Amounts, NEW max,
             RepayFrom(wallet, asset, n, max)
      PROVE  Undisturbed(wallet)
  <2> DEFINE d == DebtForAsset(n, asset)
             b1 == Move(bal, asset, wallet, managerVault, n)
  <2>1. bal[asset][wallet] >= n /\ CanBurnDebt(b1, d) /\ bal' = AfterDebtBurn(b1, d)
    BY <1>8 DEF RepayFrom, CanTransferFrom
  <2>2. d \in Nat /\ n \in Nat /\ wallet \in Holders /\ asset \in Tokens
    BY <1>1, <1>2, <1>3, NamesPlaced, DebtNat
  <2>3. /\ b1 \in Books
        /\ \A t \in Tokens, h \in Holders :
             t # asset \/ h \notin {wallet, managerVault} => b1[t][h] = bal[t][h]
    BY <1>2, <2>1, <2>2, MoveBook
  <2> HIDE DEF d, b1
  <2>4. \A t \in Tokens, h \in Parties : h # managerVault => bal'[t][h] = b1[t][h]
    BY <1>4, <2>1, <2>2, <2>3
  <2> QED BY <1>3, <2>3, <2>4 DEF Undisturbed
<1>9. ASSUME NEW wallet \in AmoWallets, wallet \in allowedWallets, PegGuard, Undisturbed(wallet)
      PROVE  PegGuard /\ \E w \in allowedWallets : w \in Accounts /\ Undisturbed(w)
  BY <1>1, <1>9
<1>10. CASE \E n \in Amounts, wallet \in AmoWallets : IncreaseAmoSupply(n, wallet)
  BY <1>5, <1>9, <1>10 DEF IncreaseAmoSupply
<1>11. CASE \E n \in Amounts, wallet \in AmoWallets : DecreaseAmoSupply(n, wallet)
  BY <1>6, <1>9, <1>11 DEF DecreaseAmoSupply
<1>12. CASE \E wallet \in AmoWallets, asset \in Assets, n \in Amounts, min \in SlippageBounds :
              BorrowTo(wallet, asset, n, min)
  BY <1>7, <1>9, <1>12 DEF BorrowTo, CollateralOperation
<1>13. CASE \E wallet \in AmoWallets, asset \in Assets, n \in Amounts, max \in SlippageBounds :
              RepayFrom(wallet, asset, n, max)
  BY <1>8, <1>9, <1>13 DEF RepayFrom, CollateralOperation
<1> QED BY <1>10, <1>11, <1>12, <1>13
        DEF AmoNext, SetManagerVault, SetAmoWalletAllowed, SetTolerance, SetPegDeviationBps,
            ledgerVars

(* Debt tokens are created and destroyed by the AMO's operations only.     *)
LEMMA DebtByAmo ==
  ASSUME IInv, [Next]_vars, ~DebtUnchanged
  PROVE  AmoNext
<1>1. supply \in Supplies /\ DebtToken \in Tokens /\ Dusd # DebtToken
  BY NamesPlaced DEF IInv, Sound, Balanced
<1>2. ASSUME UNCHANGED supply \/ \E x : supply' = [supply EXCEPT ![Dusd] = x]
      PROVE  FALSE
  BY <1>1, <1>2 DEF DebtUnchanged, Supplies
<1>3. ~UNCHANGED vars
  BY <1>2 DEF vars, ledgerVars
<1>4. ~LedgerNext
  BY <1>2 DEF LedgerNext, SetAllowlisted, HolderTransfer, HolderBurn
<1>5. ~VaultNext
  BY <1>2 DEF VaultNext, Deposit, ExchangeCollateral, ExchangeMaxCollateral,
     AllowCollateral, DisallowCollateral, SetPrice, ledgerVars
<1>6. ~IssuerNext
  BY <1>2 DEF IssuerNext, Issue, IssueUsingExcessCollateral, SetIssuerVault,
     SetAssetMintingPause, SetAssetDepositCap, SetMintingPaused, ledgerVars
<1>7. ~RedeemerNext
  BY <1>2
     DEF RedeemerNext, Redeem, RedeemAsProtocol, SetRedeemerVault, SetAssetRedemptionPause,
         SetRedemptionPaused, SetFeeReceiver, SetDefaultRedemptionFee,
         SetCollateralRedemptionFee, ClearCollateralRedemptionFee, ledgerVars
<1> QED BY <1>3, <1>4, <1>5, <1>6, <1>7 DEF Next

(* They do so on the peg, for an allowed wallet, and touching no other     *)
(* account.                                                                *)
LEMMA DebtMoves ==
  ASSUME IInv, [Next]_vars, ~DebtUnchanged
  PROVE  /\ PegGuard
         /\ \E wallet \in allowedWallets : \A t \in Tokens, a \in Accounts :
              a # wallet => bal'[t][a] = bal[t][a]
<1>1. managerVault \in Vaults /\ AmoNext
  BY DebtByAmo DEF IInv, SettingsTypeOK, AmoTypeOK
<1>2. ~UNCHANGED <<bal, supply>>
  BY DEF DebtUnchanged
<1>3. PICK wallet \in allowedWallets : wallet \in Accounts /\ Undisturbed(wallet)
  BY <1>1, <1>2, AmoMoves
<1>4. PegGuard
  BY <1>1, <1>2, AmoMoves
<1>5. \A t \in Tokens, a \in Accounts : a # wallet => bal'[t][a] = bal[t][a]
  BY <1>1, <1>3, NamesPlaced DEF Undisturbed
<1> QED BY <1>4, <1>5

(* While the guard is on and dUSD or the debt token is off its peg, the    *)
(* AMO's debt neither grows nor shrinks.                                   *)
THEOREM DebtStandsStill == Spec => DebtFrozenOffPeg
<1>1. ASSUME IInv, [Next]_vars PROVE DebtFrozen
  <2>1. /\ price[Dusd] \in Nat /\ price[DebtToken] \in Nat
        /\ BaseUnit \in Nat \ {0} /\ PegScale \in Nat /\ pegDeviationBps \in Nat
    <3>1. price[Dusd] \in Nat /\ price[DebtToken] \in Nat
      BY <1>1, NamesPlaced DEF IInv, SettingsTypeOK, VaultTypeOK
    <3>2. PegScale \in Nat /\ pegDeviationBps \in Nat
      BY <1>1, AmoAssumption DEF IInv, SettingsTypeOK, AmoTypeOK
    <3> QED BY <3>1, <3>2, UnitsNat
  <2>2. ASSUME NEW t \in {Dusd, DebtToken} PROVE PegDeviation(t) \in Nat
    <3>1. AbsDiff(price[t], BaseUnit) \in Nat
      BY <2>1 DEF AbsDiff
    <3> QED BY <2>1, <3>1, MulDivNat DEF PegDeviation
  <2>3. PegGuard => ~(pegDeviationBps # 0
                        /\ \E t \in {Dusd, DebtToken} : PegDeviation(t) > pegDeviationBps)
    BY <2>1, <2>2 DEF PegGuard
  <2> QED BY <1>1, <2>3, DebtMoves DEF DebtFrozen
<1>2. IInv /\ [Next]_vars => [DebtFrozen]_vars
  BY <1>1
<1> QED BY <1>2, Invariance, PTL DEF Spec, DebtFrozenOffPeg

(* A change of the debt touches no account but an allowed wallet's.        *)
THEOREM OnlyWalletsAreTouched == Spec => AmoTouchesOnlyWallets
<1>1. IInv /\ [Next]_vars => [OnlyWalletsMove]_vars
  BY DebtMoves DEF OnlyWalletsMove
<1> QED BY <1>1, Invariance, PTL DEF Spec, AmoTouchesOnlyWallets

-----------------------------------------------------------------------------
(* The AMO cannot change the dUSD supply without changing the debt: dUSD   *)
(* converts to debt tokens without rounding, so some dUSD is some debt.    *)
LEMMA SomeDebt ==
  ASSUME NEW n \in Nat, DebtForDusd(n) = 0
  PROVE  n = 0
<1> DEFINE V == DusdAmountToBaseValue(n)
           d == BaseToDebtUnits(V)
<1>1. V \in Nat /\ V * Unit[Dusd] = n * BaseUnit
  BY ValueForDusd
<1>2. BaseUnit \in Nat \ {0} /\ Unit[DebtToken] \in Nat \ {0} /\ Unit[DebtToken] % BaseUnit = 0
  BY DecimalsAssumption, UnitsNat
<1>3. d * BaseUnit = V * Unit[DebtToken]
  BY <1>1, <1>2, MulDivExact DEF BaseToDebtUnits
<1>4. d = 0
  BY DEF DebtForDusd
<1>5. ASSUME NEW x \in Nat, NEW y \in Nat \ {0}, x * y = 0
      PROVE  x = 0
  BY <1>5
<1> HIDE DEF V, d
<1>6. V * Unit[DebtToken] = 0
  BY <1>2, <1>3, <1>4
<1>7. V = 0
  BY <1>1, <1>2, <1>5, <1>6
<1>8. n * BaseUnit = 0
  BY <1>1, <1>7, UnitsNat
<1> QED BY <1>2, <1>5, <1>8

LEMMA AmoNeedsDebt ==
  ASSUME IInv, AmoNext, DebtUnchanged
  PROVE  supply'[Dusd] = supply[Dusd]
<1>1. /\ supply \in Supplies /\ supply[Dusd] \in Nat /\ supply[DebtToken] \in Nat
      /\ Amounts \subseteq Nat /\ Dusd \in Tokens /\ DebtToken \in Tokens /\ Dusd # DebtToken
      /\ VaultTypeOK
  BY NamesPlaced, NumbersAssumption DEF IInv, Sound, Balanced, Supplies, SettingsTypeOK
<1>2. ASSUME NEW n \in Amounts, NEW wallet \in AmoWallets, IncreaseAmoSupply(n, wallet)
      PROVE  supply'[Dusd] = supply[Dusd]
  <2> DEFINE d == DebtForDusd(n)
  <2>1. supply' = [supply EXCEPT ![DebtToken] = @ + d, ![Dusd] = @ + n]
    BY <1>2 DEF IncreaseAmoSupply
  <2>2. n \in Nat /\ d \in Nat
    BY <1>1, DebtNat
  <2>3. d = 0 => n = 0
    BY <2>2, SomeDebt
  <2> HIDE DEF d
  <2>4. supply'[DebtToken] = supply[DebtToken] + d /\ supply'[Dusd] = supply[Dusd] + n
    BY <1>1, <2>1 DEF Supplies
  <2>5. d = 0
    BY <1>1, <2>2, <2>4 DEF DebtUnchanged
  <2> QED BY <1>1, <2>3, <2>4, <2>5
<1>3. ASSUME NEW n \in Amounts, NEW wallet \in AmoWallets, DecreaseAmoSupply(n, wallet)
      PROVE  supply'[Dusd] = supply[Dusd]
  <2> DEFINE d == DebtForDusd(n)
  <2>1. supply' = [supply EXCEPT ![DebtToken] = @ - d, ![Dusd] = @ - n]
    BY <1>3 DEF DecreaseAmoSupply
  <2>2. n \in Nat /\ d \in Nat
    BY <1>1, DebtNat
  <2>3. d = 0 => n = 0
    BY <2>2, SomeDebt
  <2> HIDE DEF d
  <2>4. supply'[DebtToken] = supply[DebtToken] - d /\ supply'[Dusd] = supply[Dusd] - n
    BY <1>1, <2>1 DEF Supplies
  <2>5. d = 0
    BY <1>1, <2>2, <2>4 DEF DebtUnchanged
  <2> QED BY <1>1, <2>3, <2>4, <2>5
<1>4. ASSUME NEW wallet, NEW a, NEW n, NEW m, BorrowTo(wallet, a, n, m) \/ RepayFrom(wallet, a, n, m)
      PROVE  supply'[Dusd] = supply[Dusd]
  <2>1. \E d : supply' = [supply EXCEPT ![DebtToken] = d]
    BY <1>4 DEF BorrowTo, RepayFrom
  <2> QED BY <1>1, <2>1 DEF Supplies
<1> QED BY <1>2, <1>3, <1>4
        DEF AmoNext, SetManagerVault, SetAmoWalletAllowed, SetTolerance, SetPegDeviationBps,
            ledgerVars

(* Transfers and burns leave every vault alone.                            *)
LEMMA LedgerSparesVaults ==
  ASSUME IInv, LedgerNext
  PROVE  /\ \A v \in Vaults, a \in Assets : bal'[a][v] = bal[a][v]
         /\ supply'[Dusd] <= supply[Dusd]
<1>1. /\ bal \in Books /\ supply \in Supplies /\ supply[Dusd] \in Nat /\ Amounts \subseteq Nat
      /\ Dusd \in Tokens
  BY NamesPlaced, NumbersAssumption DEF IInv, Sound, Balanced, Supplies
<1>2. ASSUME NEW t \in Tokens, NEW from \in Accounts, NEW to \in Accounts, NEW n \in Amounts,
             HolderTransfer(t, from, to, n)
      PROVE  \A v \in Vaults, a \in Assets : bal'[a][v] = bal[a][v]
  <2>1. /\ n \in Nat /\ from \in Holders /\ to \in Holders
        /\ bal[t][from] >= n /\ bal' = Move(bal, t, from, to, n)
    BY <1>1, <1>2, NamesPlaced DEF HolderTransfer, CanTransfer
  <2>2. \A u \in Tokens, k \in Holders : u # t \/ k \notin {from, to} => bal'[u][k] = bal[u][k]
    BY <1>1, <2>1, MoveBook
  <2> QED BY <2>2, NamesPlaced
<1>3. ASSUME NEW holder \in Accounts, NEW n \in Amounts, HolderBurn(holder, n)
      PROVE  /\ \A v \in Vaults, a \in Assets : bal'[a][v] = bal[a][v]
             /\ supply'[Dusd] <= supply[Dusd]
  <2>1. /\ n \in Nat /\ holder \in Holders
        /\ bal[Dusd][holder] >= n /\ bal' = Debit(bal, Dusd, holder, n)
        /\ supply' = [supply EXCEPT ![Dusd] = @ - n]
    BY <1>1, <1>3, NamesPlaced DEF HolderBurn, CanBurn
  <2>2. \A v \in Vaults, a \in Assets : bal'[a][v] = bal[a][v]
    BY <1>1, <2>1, NamesPlaced, DebitBook
  <2>3. supply'[Dusd] <= supply[Dusd]
    BY <1>1, <2>1 DEF Supplies
  <2> QED BY <2>2, <2>3
<1>4. ASSUME NEW account, NEW allowed, SetAllowlisted(account, allowed)
      PROVE  UNCHANGED <<bal, supply>>
  BY <1>4 DEF SetAllowlisted
<1>5. ASSUME NEW t \in Tokens, NEW from \in Accounts, NEW to \in Accounts, NEW n \in Amounts,
             HolderTransfer(t, from, to, n)
      PROVE  supply' = supply
  BY <1>5 DEF HolderTransfer
<1> QED BY <1>1, <1>2, <1>3, <1>4, <1>5 DEF LedgerNext

-----------------------------------------------------------------------------
(* dUSD is issued into the caller's hands, and only the asset it is issued *)
(* against comes into the vault.                                           *)
LEMMA IssueMoves ==
  ASSUME IInv, NEW caller \in Accounts, NEW n \in Nat, NEW a \in Assets, NEW min,
         Issue(caller, n, a, min)
  PROVE  /\ ~mintingPaused /\ a \notin assetMintingPaused
         /\ \A v \in Vaults, x \in Assets :
              v # issuerVault \/ x # a => bal'[x][v] = bal[x][v]
<1> DEFINE minted == BaseValueToDusdAmount(AssetValueFromAmount(n, a))
           b1 == Move(bal, a, caller, issuerVault, n)
<1>1. /\ bal \in Books /\ VaultTypeOK /\ issuerVault \in Vaults /\ issuerVault \in Holders
      /\ caller \in Holders /\ a \in Tokens /\ Dusd \in Tokens
  BY NamesPlaced DEF IInv, Sound, Balanced, SettingsTypeOK, IssuerTypeOK
<1>2. bal[a][caller] >= n /\ bal' = Credit(b1, Dusd, caller, minted)
  BY DEF Issue, CanTransferFrom
<1>3. minted \in Nat
  BY <1>1, ValueNat, ConversionsNat
<1> HIDE DEF minted
<1>4. /\ b1 \in Books
      /\ \A u \in Tokens, k \in Holders : u # a \/ k \notin {caller, issuerVault} =>
           b1[u][k] = bal[u][k]
  BY <1>1, <1>2, MoveBook
<1> HIDE DEF b1
<1>5. \A u \in Tokens, k \in Holders : u # Dusd \/ k # caller => bal'[u][k] = b1[u][k]
  <2>1. /\ b1 \in Books /\ Dusd \in Tokens /\ caller \in Holders /\ minted \in Nat
        /\ bal' = Credit(b1, Dusd, caller, minted)
    BY <1>1, <1>2, <1>3, <1>4
  <2> QED BY <2>1, CreditBook
<1>6. ~mintingPaused /\ a \notin assetMintingPaused
  BY DEF Issue, IsAssetMintingEnabled
<1>7. \A v \in Vaults, x \in Assets : v # issuerVault \/ x # a => bal'[x][v] = bal[x][v]
  BY <1>4, <1>5, NamesPlaced
<1> QED BY <1>6, <1>7

(* Excess collateral: the vaults keep what they hold.                      *)
LEMMA IssueExcessMoves ==
  ASSUME IInv, NEW receiver \in Accounts, NEW n \in Nat, IssueUsingExcessCollateral(receiver, n)
  PROVE  ~mintingPaused /\ \A v \in Vaults, x \in Assets : bal'[x][v] = bal[x][v]
<1>1. bal \in Books /\ receiver \in Holders /\ Dusd \in Tokens
  BY NamesPlaced DEF IInv, Sound, Balanced
<1>2. bal' = Credit(bal, Dusd, receiver, n) /\ ~mintingPaused
  BY DEF IssueUsingExcessCollateral
<1>3. \A u \in Tokens, k \in Holders : u # Dusd \/ k # receiver => bal'[u][k] = bal[u][k]
  BY <1>1, <1>2, CreditBook
<1> QED BY <1>2, <1>3, NamesPlaced

(* Only a redemption destroys dUSD, with the debt unchanged, and lets      *)
(* collateral out of the redeemer's vault.                                 *)
LEMMA OnlyRedeeming ==
  ASSUME IInv, [Next]_vars, supply'[Dusd] < supply[Dusd], DebtUnchanged,
         NEW x \in Assets, Fallen(x, redeemerVault) > 0
  PROVE  \E caller \in Accounts, n \in Nat, a \in Assets, min \in SlippageBounds :
           Redeem(caller, n, a, min) \/ RedeemAsProtocol(caller, n, a, min)
<1>1. /\ supply \in Supplies /\ supply[Dusd] \in Nat /\ Amounts \subseteq Nat
      /\ RedemptionManagers \subseteq Accounts /\ Dusd \in Tokens /\ VaultTypeOK
      /\ bal[x][redeemerVault] \in Nat /\ redeemerVault \in Vaults
  BY NamesPlaced, NumbersAssumption, RedeemerAssumption
     DEF IInv, Sound, Balanced, Supplies, Books, SettingsTypeOK, RedeemerTypeOK
<1>2. supply'[Dusd] # supply[Dusd]
  BY <1>1
<1>3. ASSUME bal'[x][redeemerVault] = bal[x][redeemerVault]
      PROVE  FALSE
  BY <1>1, <1>3 DEF Fallen
<1>4. ~UNCHANGED vars
  BY <1>2 DEF vars, ledgerVars
<1>5. ~LedgerNext
  BY <1>1, <1>3, LedgerSparesVaults
<1>6. ~VaultNext
  BY <1>2 DEF VaultNext, Deposit, ExchangeCollateral, ExchangeMaxCollateral,
     AllowCollateral, DisallowCollateral, SetPrice, ledgerVars
<1>7. ~IssuerNext
  <2>1. ASSUME NEW m \in Nat, supply' = [supply EXCEPT ![Dusd] = @ + m]
        PROVE  FALSE
    <3>1. supply'[Dusd] = supply[Dusd] + m
      BY <1>1, <2>1 DEF Supplies
    <3> QED BY <1>1, <3>1
  <2>2. ASSUME NEW caller \in Accounts, NEW n \in Amounts, NEW a \in Assets, NEW min,
               Issue(caller, n, a, min)
        PROVE  FALSE
    <3>1. BaseValueToDusdAmount(AssetValueFromAmount(n, a)) \in Nat
      BY <1>1, NamesPlaced, ValueNat, ConversionsNat
    <3> QED BY <2>1, <2>2, <3>1 DEF Issue
  <2>3. ASSUME NEW receiver, NEW n \in Amounts, IssueUsingExcessCollateral(receiver, n)
        PROVE  FALSE
    BY <1>1, <2>1, <2>3 DEF IssueUsingExcessCollateral
  <2> QED BY <1>2, <2>2, <2>3 DEF IssuerNext, SetIssuerVault, SetAssetMintingPause,
                                  SetAssetDepositCap, SetMintingPaused, ledgerVars
<1>8. ~AmoNext
  BY <1>2, AmoNeedsDebt
<1>9. RedeemerNext
  BY <1>4, <1>5, <1>6, <1>7, <1>8 DEF Next
<1> QED BY <1>1, <1>2, <1>9
        DEF RedeemerNext, SetRedeemerVault, SetAssetRedemptionPause, SetRedemptionPaused,
            SetFeeReceiver, SetDefaultRedemptionFee, SetCollateralRedemptionFee,
            ClearCollateralRedemptionFee, ledgerVars

-----------------------------------------------------------------------------
(* What issuing with the debt unchanged needs.                             *)
LEMMA PauseOfMinting ==
  ASSUME IInv, [Next]_vars, supply'[Dusd] > supply[Dusd], DebtUnchanged
  PROVE  ~mintingPaused /\ \A a \in assetMintingPaused : Gained(a, issuerVault) <= 0
<1>1. /\ supply \in Supplies /\ supply[Dusd] \in Nat /\ Amounts \subseteq Nat /\ bal \in Books
      /\ Dusd \in Tokens /\ issuerVault \in Vaults /\ assetMintingPaused \subseteq Assets
  BY NamesPlaced, NumbersAssumption
     DEF IInv, Sound, Balanced, Supplies, SettingsTypeOK, IssuerTypeOK
<1>2. ~(supply'[Dusd] <= supply[Dusd])
  <2>1. supply'[Dusd] \in Nat
    BY <1>1, NextIInv DEF IInv, Sound, Balanced, Supplies
  <2> QED BY <1>1, <2>1
<1>3. ASSUME \A x \in assetMintingPaused : bal'[x][issuerVault] = bal[x][issuerVault]
      PROVE  \A a \in assetMintingPaused : Gained(a, issuerVault) <= 0
  <2>1. \A a \in assetMintingPaused : bal[a][issuerVault] \in Nat
    BY <1>1, NamesPlaced DEF Books
  <2> QED BY <1>3, <2>1 DEF Gained
<1>4. supply' # supply
  BY <1>1, <1>2
<1>5. ASSUME NEW n \in Nat, supply' = [supply EXCEPT ![Dusd] = @ - n]
      PROVE  FALSE
  <2>1. supply'[Dusd] = supply[Dusd] - n
    BY <1>1, <1>5 DEF Supplies
  <2> QED BY <1>1, <1>2, <2>1
<1>6. ~UNCHANGED vars /\ ~LedgerNext
  BY <1>2, <1>4, LedgerSparesVaults DEF vars, ledgerVars
<1>7. ~VaultNext
  BY <1>4 DEF VaultNext, Deposit, ExchangeCollateral, ExchangeMaxCollateral,
     AllowCollateral, DisallowCollateral, SetPrice, ledgerVars
<1>8. ~RedeemerNext
  BY <1>1, <1>4, <1>5
     DEF RedeemerNext, Redeem, RedeemAsProtocol, SetRedeemerVault, SetAssetRedemptionPause,
         SetRedemptionPaused, SetFeeReceiver, SetDefaultRedemptionFee,
         SetCollateralRedemptionFee, ClearCollateralRedemptionFee, ledgerVars
<1>9. ~AmoNext
  BY <1>1, <1>2, AmoNeedsDebt
<1>10. IssuerNext
  BY <1>6, <1>7, <1>8, <1>9 DEF Next
<1>11. ASSUME NEW caller \in Accounts, NEW n \in Amounts, NEW a \in Assets, NEW min,
              Issue(caller, n, a, min)
       PROVE  ~mintingPaused /\ \A x \in assetMintingPaused : Gained(x, issuerVault) <= 0
  <2>1. \A x \in assetMintingPaused : bal'[x][issuerVault] = bal[x][issuerVault]
    BY <1>1, <1>11, IssueMoves
  <2>2. ~mintingPaused
    BY <1>1, <1>11, IssueMoves
  <2> QED BY <1>3, <2>1, <2>2
<1>12. ASSUME NEW receiver \in Accounts, NEW n \in Amounts, IssueUsingExcessCollateral(receiver, n)
       PROVE  ~mintingPaused /\ \A x \in assetMintingPaused : Gained(x, issuerVault) <= 0
  <2>1. \A x \in assetMintingPaused : bal'[x][issuerVault] = bal[x][issuerVault]
    BY <1>1, <1>12, IssueExcessMoves
  <2>2. ~mintingPaused
    BY <1>1, <1>12, IssueExcessMoves
  <2> QED BY <1>3, <2>1, <2>2
<1> QED BY <1>4, <1>10, <1>11, <1>12
        DEF IssuerNext, SetIssuerVault, SetAssetMintingPause, SetAssetDepositCap,
            SetMintingPaused, ledgerVars

(* While minting, or redemption, is paused, as a whole or for one asset,   *)
(* no step mints dUSD but the AMO's, with debt, and none lets collateral   *)
(* out for dUSD, in whatever order the pausers, the users and governance   *)
(* act.                                                                    *)
THEOREM PausesAreRespected == Spec => PausesHold
<1>1. ASSUME IInv, [Next]_vars PROVE PauseRespected
  <2>1. ASSUME supply'[Dusd] < supply[Dusd], DebtUnchanged,
               NEW x \in Assets, Fallen(x, redeemerVault) > 0
        PROVE  ~redemptionPaused /\ x \notin assetRedemptionPaused
    <3>1. PICK caller \in Accounts, n \in Nat, a \in Assets, min \in SlippageBounds :
            Redeem(caller, n, a, min) \/ RedeemAsProtocol(caller, n, a, min)
      BY <1>1, <2>1, OnlyRedeeming
    <3>2. Redeemable(a) /\ OnlyChange(bal, bal', a, redeemerVault)
      BY <1>1, <3>1, RedeemMoves
    <3>3. x = a
      <4>1. redeemerVault \in Vaults /\ bal[x][redeemerVault] \in Nat
        BY <1>1, NamesPlaced DEF IInv, SettingsTypeOK, RedeemerTypeOK, Sound, Balanced, Books
      <4>2. bal'[x][redeemerVault] # bal[x][redeemerVault]
        BY <2>1, <4>1 DEF Fallen
      <4> QED BY <3>2, <4>1, <4>2 DEF OnlyChange
    <3> QED BY <3>2, <3>3 DEF Redeemable
  <2> QED BY <1>1, <2>1, PauseOfMinting DEF PauseRespected
<1>2. IInv /\ [Next]_vars => [PauseRespected]_vars
  BY <1>1
<1> QED BY <1>2, Invariance, PTL DEF Spec, PausesHold

-----------------------------------------------------------------------------
(* Whoever redeems gets at least what the highest fee leaves of collateral *)
(* worth the dUSD, and the vault pays no more than that worth.             *)
LEMMA FairStep ==
  ASSUME IInv, [Next]_vars, supply'[Dusd] < supply[Dusd], DebtUnchanged,
         NEW x \in Assets, NEW c \in Accounts, Fallen(x, redeemerVault) > 0
  PROVE  /\ Fallen(x, redeemerVault) = CollateralFor(supply[Dusd] - supply'[Dusd], x)
         /\ Fallen(Dusd, c) > 0 =>
              Gained(x, c) >= Fallen(x, redeemerVault)
                - MulDiv(Fallen(x, redeemerVault), MaxFeeBps, OneHundredPercentBps)
<1>1. PICK caller \in Accounts, n \in Nat, a \in Assets, min \in SlippageBounds :
        Redeem(caller, n, a, min) \/ RedeemAsProtocol(caller, n, a, min)
  BY OnlyRedeeming
<1> DEFINE total == CollateralFor(n, a)
           v == redeemerVault
           fee == FeeOn(total, a)
           most == MulDiv(total, MaxFeeBps, OneHundredPercentBps)
<1>2. /\ total \in Nat /\ supply' = [supply EXCEPT ![Dusd] = @ - n]
      /\ OnlyChange(bal, bal', a, v)
      /\ bal'[a][v] = bal[a][v] - total
      /\ \A k \in Accounts : k # caller => bal'[Dusd][k] = bal[Dusd][k]
      /\ bal'[a][caller] >= bal[a][caller] + total - fee
  BY <1>1, RedeemMoves
<1>3. /\ supply \in Supplies /\ supply[Dusd] \in Nat /\ v \in Vaults /\ Dusd \in Tokens
      /\ bal[x][v] \in Nat /\ bal[a][v] \in Nat /\ bal[a][caller] \in Nat /\ bal[Dusd][c] \in Nat
      /\ bal'[a][caller] \in Nat /\ RedeemerTypeOK
  <2>1. bal \in Books /\ bal' \in Books /\ supply \in Supplies
    BY NextIInv DEF IInv, Sound, Balanced
  <2> QED BY <2>1, NamesPlaced DEF IInv, SettingsTypeOK, RedeemerTypeOK, Books, Supplies
<1>4. x = a
  <2>1. bal'[x][v] # bal[x][v]
    BY <1>3 DEF Fallen
  <2> QED BY <1>2, <1>3, <2>1 DEF OnlyChange
<1>5. fee \in Nat /\ most \in Nat /\ fee <= most
  BY <1>2, <1>3, FeeAtMost, FeeBounded
<1> HIDE DEF total, v, fee, most
<1>6. Fallen(x, v) = total
  BY <1>2, <1>3, <1>4 DEF Fallen
<1>7. supply[Dusd] - supply'[Dusd] = n
  <2>1. supply'[Dusd] = supply[Dusd] - n
    BY <1>2, <1>3 DEF Supplies
  <2> QED BY <1>3, <2>1
<1>8. Fallen(x, v) = CollateralFor(supply[Dusd] - supply'[Dusd], x)
  BY <1>4, <1>6, <1>7 DEF total
<1>9. ASSUME Fallen(Dusd, c) > 0
      PROVE  Gained(x, c) >= total - most
  <2>1. c = caller
    <3>1. bal'[Dusd][c] # bal[Dusd][c]
      BY <1>3, <1>9 DEF Fallen
    <3> QED BY <1>2, <3>1
  <2>2. Gained(x, c) = bal'[a][caller] - bal[a][caller]
    BY <1>4, <2>1 DEF Gained
  <2> QED BY <1>2, <1>3, <1>5, <2>2
<1> QED BY <1>6, <1>8, <1>9 DEF v, most

(* Every redemption pays fairly, whichever fee applies at that moment and  *)
(* however governance has changed fees, vaults and receivers before.       *)
THEOREM RedemptionsPayFairly == Spec => RedemptionPaysFairly
<1>1. ASSUME IInv, [Next]_vars PROVE RedemptionFair
  BY <1>1, FairStep DEF RedemptionFair
<1>2. IInv /\ [Next]_vars => [RedemptionFair]_vars
  BY <1>1
<1> QED BY <1>2, Invariance, PTL DEF Spec, RedemptionPaysFairly

-----------------------------------------------------------------------------
(* The worth of one vault, whatever its list says, for any book.           *)
WorthIn(b, v) ==
  SumFunctionOnSet([a \in Assets |-> AssetValueFromAmount(b[a][v], a)], Assets)

LEMMA WorthChange ==
  ASSUME VaultTypeOK, NEW b \in Books, NEW c \in Books, NEW v \in Vaults, NEW a \in Assets,
         OnlyChange(b, c, a, v)
  PROVE  /\ WorthIn(b, v) \in Nat /\ WorthIn(c, v) \in Nat
         /\ WorthIn(c, v) = WorthIn(b, v) - AssetValueFromAmount(b[a][v], a)
                              + AssetValueFromAmount(c[a][v], a)
<1> DEFINE S == Assets
           f == [x \in Assets |-> AssetValueFromAmount(b[x][v], x)]
           g == [x \in Assets |-> AssetValueFromAmount(c[x][v], x)]
<1>1. IsFiniteSet(S) /\ a \in S
  BY HoldersFinite
<1>2. \A x \in Assets : b[x][v] \in Nat /\ c[x][v] \in Nat /\ x \in Tokens
  BY NamesPlaced DEF Books
<1>3. (\A x \in S : f[x] \in Nat) /\ (\A x \in S : g[x] \in Nat)
  BY <1>2, ValueNat
<1>4. \A x \in S \ {a} : f[x] = g[x]
  BY DEF OnlyChange
<1>5. f[a] = AssetValueFromAmount(b[a][v], a) /\ g[a] = AssetValueFromAmount(c[a][v], a)
  OBVIOUS
<1>6. WorthIn(b, v) = SumFunctionOnSet(f, S) /\ WorthIn(c, v) = SumFunctionOnSet(g, S)
  BY DEF WorthIn
<1> HIDE DEF S, f, g
<1>7. SumFunctionOnSet(g, S) = SumFunctionOnSet(f, S) - f[a] + g[a]
  BY <1>1, <1>3, <1>4, SumUpdate
<1>8. SumFunctionOnSet(f, S) \in Nat /\ SumFunctionOnSet(g, S) \in Nat
  BY <1>1, <1>3, SumNat
<1> QED BY <1>5, <1>6, <1>7, <1>8

(* A vault that no asset moves in or out of is worth what it was.          *)
LEMMA WorthSame ==
  ASSUME VaultTypeOK, NEW b \in Books, NEW c \in Books, NEW v \in Vaults,
         \A x \in Assets : c[x][v] = b[x][v]
  PROVE  WorthIn(b, v) \in Nat /\ WorthIn(c, v) = WorthIn(b, v)
<1>1. [x \in Assets |-> AssetValueFromAmount(c[x][v], x)]
        = [x \in Assets |-> AssetValueFromAmount(b[x][v], x)]
  OBVIOUS
<1>2. WorthIn(b, v) \in Nat
  <2> DEFINE S == Assets
             f == [x \in Assets |-> AssetValueFromAmount(b[x][v], x)]
  <2>1. IsFiniteSet(S)
    BY HoldersFinite
  <2>2. \A x \in S : f[x] \in Nat
    BY NamesPlaced, ValueNat DEF Books
  <2>3. WorthIn(b, v) = SumFunctionOnSet(f, S)
    BY DEF WorthIn
  <2> HIDE DEF S, f
  <2> QED BY <2>1, <2>2, <2>3, SumNat
<1> QED BY <1>1, <1>2 DEF WorthIn

(* An exchange brings in at least the worth it takes out; a deposit only   *)
(* brings in.  Neither needs the asset that comes in to be on the list.    *)
LEMMA WorthTaken ==
  ASSUME VaultTypeOK, NEW b \in Books, NEW a \in Assets, NEW v \in Vaults,
         NEW from \in Accounts, NEW n \in Nat, b[a][from] >= n
  PROVE  /\ Move(b, a, from, v, n) \in Books
         /\ AssetValueFromAmount(n, a) \in Nat
         /\ WorthIn(b, v) \in Nat /\ WorthIn(Move(b, a, from, v, n), v) \in Nat
         /\ WorthIn(Move(b, a, from, v, n), v) >= WorthIn(b, v) + AssetValueFromAmount(n, a)
         /\ \A w \in Vaults, x \in Assets : w # v => Move(b, a, from, v, n)[x][w] = b[x][w]
<1> DEFINE c == Move(b, a, from, v, n)
           x == b[a][v]
           old == AssetValueFromAmount(x, a)
           new == AssetValueFromAmount(x + n, a)
           gain == AssetValueFromAmount(n, a)
<1>1. from \in Holders /\ v \in Holders /\ from # v /\ from \notin Vaults /\ a \in Tokens
  BY NamesPlaced
<1>2. c \in Books /\ c[a][v] = x + n
  BY <1>1, MoveExact
<1>3. OnlyChange(b, c, a, v)
  <2>1. \A u \in Tokens, k \in Holders : u # a \/ k \notin {from, v} => c[u][k] = b[u][k]
    BY <1>1, MoveBook
  <2> QED BY <1>1, <2>1, NamesPlaced DEF OnlyChange
<1>4. x \in Nat /\ price[a] \in Nat /\ Unit[a] \in Nat \ {0}
  BY <1>1, NumbersAssumption DEF Books, VaultTypeOK
<1> HIDE DEF c
<1>5. /\ WorthIn(b, v) \in Nat /\ WorthIn(c, v) \in Nat
      /\ WorthIn(c, v) = WorthIn(b, v) - old + new
  BY <1>2, <1>3, WorthChange
<1> HIDE DEF x
<1>6. old \in Nat /\ gain \in Nat /\ new >= old + gain
  BY <1>4, ValueGain DEF AssetValueFromAmount
<1>7. new \in Nat
  BY <1>1, <1>4, ValueNat
<1> HIDE DEF old, new, gain
<1>8. WorthIn(c, v) >= WorthIn(b, v) + gain
  BY <1>5, <1>6, <1>7
<1>9. \A w \in Vaults, y \in Assets : w # v => c[y][w] = b[y][w]
  BY <1>3 DEF OnlyChange
<1> QED BY <1>2, <1>5, <1>6, <1>8, <1>9 DEF c, gain

LEMMA WorthGiven ==
  ASSUME VaultTypeOK, NEW b \in Books, NEW a \in Assets, NEW v \in Vaults,
         NEW to \in Accounts, NEW n \in Nat, b[a][v] >= n,
         NEW w \in Nat, price[a] * n <= w * Unit[a]
  PROVE  /\ Move(b, a, v, to, n) \in Books
         /\ WorthIn(b, v) \in Nat /\ WorthIn(Move(b, a, v, to, n), v) \in Nat
         /\ WorthIn(Move(b, a, v, to, n), v) >= WorthIn(b, v) - w
         /\ \A u \in Vaults, x \in Assets : u # v => Move(b, a, v, to, n)[x][u] = b[x][u]
<1> DEFINE c == Move(b, a, v, to, n)
           x == b[a][v]
           old == AssetValueFromAmount(x, a)
           new == AssetValueFromAmount(x - n, a)
<1>1. to \in Holders /\ v \in Holders /\ to # v /\ to \notin Vaults /\ a \in Tokens
  BY NamesPlaced
<1>2. c \in Books /\ c[a][v] = x - n
  BY <1>1, MoveExact
<1>3. OnlyChange(b, c, a, v)
  <2>1. \A u \in Tokens, k \in Holders : u # a \/ k \notin {v, to} => c[u][k] = b[u][k]
    BY <1>1, MoveBook
  <2> QED BY <1>1, <2>1, NamesPlaced DEF OnlyChange
<1>4. x \in Nat /\ price[a] \in Nat /\ Unit[a] \in Nat \ {0}
  BY <1>1, NumbersAssumption DEF Books, VaultTypeOK
<1>5. n <= x
  BY <1>4
<1> HIDE DEF c
<1>6. /\ WorthIn(b, v) \in Nat /\ WorthIn(c, v) \in Nat
      /\ WorthIn(c, v) = WorthIn(b, v) - old + new
  BY <1>2, <1>3, WorthChange
<1> HIDE DEF x
<1>7. old \in Nat /\ new \in Nat /\ new >= old - w
  BY <1>4, <1>5, ValueLoss DEF AssetValueFromAmount
<1> HIDE DEF old, new
<1>8. WorthIn(c, v) >= WorthIn(b, v) - w
  BY <1>6, <1>7
<1>9. \A u \in Vaults, y \in Assets : u # v => c[y][u] = b[y][u]
  BY <1>3 DEF OnlyChange
<1> QED BY <1>2, <1>6, <1>8, <1>9 DEF c

-----------------------------------------------------------------------------
(* No vault loses worth by a deposit or an exchange.                       *)
WorthKept(v) == WorthIn(bal', v) >= WorthIn(bal, v)

LEMMA ExchangeKeepsWorth ==
  ASSUME IInv, NEW v \in Vaults, NEW caller \in Accounts, NEW n \in Nat, NEW m \in Nat,
         NEW from \in Assets, NEW to \in Assets, ExchangeCollateral(v, caller, n, from, m, to),
         NEW w \in Vaults
  PROVE  WorthKept(w)
<1> DEFINE b1 == Move(bal, from, caller, v, n)
           c == Move(b1, to, v, caller, m)
           V == AssetValueFromAmount(n, from)
<1>1. bal \in Books /\ VaultTypeOK
  BY DEF IInv, Sound, Balanced, SettingsTypeOK
<1>2. /\ bal' = c /\ price[to] > 0 /\ bal[from][caller] >= n /\ b1[to][v] >= m
      /\ m <= AssetAmountFromValue(V, to)
  BY DEF ExchangeCollateral, CanTransferFrom, CanTransfer, MaxExchangeAmount
<1>3. /\ b1 \in Books /\ V \in Nat /\ WorthIn(bal, v) \in Nat /\ WorthIn(b1, v) \in Nat
      /\ WorthIn(b1, v) >= WorthIn(bal, v) + V
      /\ \A u \in Vaults, x \in Assets : u # v => b1[x][u] = bal[x][u]
  BY <1>1, <1>2, WorthTaken
<1> HIDE DEF b1, V
<1>4. price[to] * m <= V * Unit[to]
  <2> DEFINE p == price[to]
             k == AssetAmountFromValue(V, to)
  <2>1. p \in Nat /\ k \in Nat /\ p * k <= V * Unit[to] /\ m <= k
    BY <1>1, <1>2, <1>3, NamesPlaced, AmountForValue DEF VaultTypeOK
  <2>2. V * Unit[to] \in Nat
    BY <1>3, UnitsNat
  <2> HIDE DEF p, k
  <2>3. p * m <= p * k /\ p * m \in Nat /\ p * k \in Nat
    BY <2>1
  <2>4. p * m <= V * Unit[to]
    BY <2>1, <2>2, <2>3
  <2> QED BY <2>4 DEF p
<1>5. /\ c \in Books /\ WorthIn(c, v) \in Nat /\ WorthIn(c, v) >= WorthIn(b1, v) - V
      /\ \A u \in Vaults, x \in Assets : u # v => c[x][u] = b1[x][u]
  BY <1>1, <1>2, <1>3, <1>4, WorthGiven
<1> HIDE DEF c
<1>6. CASE w = v
  BY <1>2, <1>3, <1>5, <1>6 DEF WorthKept
<1>7. CASE w # v
  <2>1. WorthIn(bal, w) \in Nat /\ WorthIn(c, w) = WorthIn(bal, w)
    BY <1>1, <1>3, <1>5, <1>7, WorthSame
  <2> QED BY <1>2, <2>1 DEF WorthKept
<1> QED BY <1>6, <1>7

LEMMA VaultKeepsWorth ==
  ASSUME IInv, VaultNext, NEW w \in Vaults
  PROVE  WorthKept(w)
<1>1. bal \in Books /\ VaultTypeOK
  BY DEF IInv, Sound, Balanced, SettingsTypeOK
<1>2. ASSUME UNCHANGED bal
      PROVE  WorthKept(w)
  BY <1>1, <1>2, WorthSame DEF WorthKept
<1>3. ASSUME NEW v \in Vaults, NEW caller \in Accounts, NEW n \in Amounts, NEW a \in Assets,
             Deposit(v, caller, n, a)
      PROVE  WorthKept(w)
  <2>1. n \in Nat /\ bal[a][caller] >= n /\ bal' = Move(bal, a, caller, v, n)
    BY <1>3, NumbersAssumption DEF Deposit, CanTransferFrom
  <2>2. /\ bal' \in Books /\ AssetValueFromAmount(n, a) \in Nat
        /\ WorthIn(bal, v) \in Nat /\ WorthIn(bal', v) \in Nat
        /\ WorthIn(bal', v) >= WorthIn(bal, v) + AssetValueFromAmount(n, a)
        /\ \A u \in Vaults, x \in Assets : u # v => bal'[x][u] = bal[x][u]
    BY <1>1, <2>1, WorthTaken
  <2>3. CASE w = v
    BY <2>2, <2>3 DEF WorthKept
  <2>4. CASE w # v
    <3>1. WorthIn(bal, w) \in Nat /\ WorthIn(bal', w) = WorthIn(bal, w)
      BY <1>1, <2>2, <2>4, WorthSame
    <3> QED BY <3>1 DEF WorthKept
  <2> QED BY <2>3, <2>4
<1>4. ASSUME NEW v \in Vaults, NEW caller \in Strategists, NEW n \in Amounts, NEW m \in Amounts,
             NEW from \in Assets, NEW to \in Assets,
             ExchangeCollateral(v, caller, n, from, m, to)
      PROVE  WorthKept(w)
  <2>1. n \in Nat /\ m \in Nat /\ caller \in Accounts
    BY NumbersAssumption, VaultAssumption
  <2> QED BY <1>4, <2>1, ExchangeKeepsWorth
<1>5. ASSUME NEW v \in Vaults, NEW caller \in Strategists, NEW n \in Amounts,
             NEW min \in SlippageBounds, NEW from \in Assets, NEW to \in Assets,
             ExchangeMaxCollateral(v, caller, n, from, to, min)
      PROVE  WorthKept(w)
  <2> DEFINE m == MaxExchangeAmount(n, from, to)
  <2>1. n \in Nat /\ caller \in Accounts /\ from \in Tokens /\ to \in Tokens
    BY NumbersAssumption, VaultAssumption, NamesPlaced
  <2>2. price[to] > 0 /\ ExchangeCollateral(v, caller, n, from, m, to)
    BY <1>5 DEF ExchangeMaxCollateral
  <2>3. m \in Nat
    BY <1>1, <2>1, <2>2, ValueNat, AmountNat DEF MaxExchangeAmount
  <2> HIDE DEF m
  <2> QED BY <2>1, <2>2, <2>3, ExchangeKeepsWorth
<1> QED BY <1>2, <1>3, <1>4, <1>5
        DEF VaultNext, AllowCollateral, DisallowCollateral, SetPrice, ledgerVars

(* The issuer, the redeemer and the AMO manager each move only what is in  *)
(* the vault they point to.                                                *)
LEMMA OthersLeftAlone ==
  ASSUME IInv, [Next]_vars, ~VaultNext,
         NEW w \in Vaults \ {issuerVault, redeemerVault, managerVault}
  PROVE  \A x \in Assets : bal'[x][w] = bal[x][w]
<1>1. Amounts \subseteq Nat /\ RedemptionManagers \subseteq Accounts
      /\ \A a \in Accounts : a # w
  BY NumbersAssumption, RedeemerAssumption, NamesPlaced
<1>2. CASE UNCHANGED bal
  BY <1>2
<1>3. CASE LedgerNext
  BY <1>3, LedgerSparesVaults
<1>4. CASE IssuerNext
  <2>1. ASSUME NEW caller \in Accounts, NEW n \in Amounts, NEW a \in Assets, NEW min,
               Issue(caller, n, a, min)
        PROVE  \A x \in Assets : bal'[x][w] = bal[x][w]
    BY <1>1, <2>1, IssueMoves
  <2>2. ASSUME NEW receiver \in Accounts, NEW n \in Amounts, IssueUsingExcessCollateral(receiver, n)
        PROVE  \A x \in Assets : bal'[x][w] = bal[x][w]
    BY <1>1, <2>2, IssueExcessMoves
  <2> QED BY <1>2, <1>4, <2>1, <2>2
          DEF IssuerNext, SetIssuerVault, SetAssetMintingPause, SetAssetDepositCap,
              SetMintingPaused, ledgerVars
<1>5. CASE RedeemerNext
  <2>1. ASSUME NEW caller \in Accounts, NEW n \in Amounts, NEW a \in Assets, NEW min,
               Redeem(caller, n, a, min) \/ RedeemAsProtocol(caller, n, a, min)
        PROVE  \A x \in Assets : bal'[x][w] = bal[x][w]
    <3>1. OnlyChange(bal, bal', a, redeemerVault)
      BY <1>1, <2>1, RedeemMoves
    <3> QED BY <3>1 DEF OnlyChange
  <2> QED BY <1>1, <1>2, <1>5, <2>1
          DEF RedeemerNext, SetRedeemerVault, SetAssetRedemptionPause, SetRedemptionPaused,
              SetFeeReceiver, SetDefaultRedemptionFee, SetCollateralRedemptionFee,
              ClearCollateralRedemptionFee, ledgerVars
<1>6. CASE AmoNext
  <2>1. CASE UNCHANGED <<bal, supply>>
    BY <1>2, <2>1
  <2>2. CASE \E wallet \in allowedWallets : wallet \in Accounts /\ Undisturbed(wallet)
    BY <1>1, <2>2, NamesPlaced DEF Undisturbed
  <2> QED BY <1>6, <2>1, <2>2, AmoMoves
<1> QED BY <1>2, <1>3, <1>4, <1>5, <1>6 DEF Next, vars, ledgerVars

(* A vault that no contract points to any more never loses worth but by a  *)
(* change of price: nobody can withdraw from it, and whoever exchanges     *)
(* what is in it pays its value.                                           *)
THEOREM RetiredVaultsKeepWorth == Spec => RetiredVaultKeepsWorth
<1>1. ASSUME IInv, [Next]_vars PROVE RetiredVaultKept
  <2> SUFFICES ASSUME price' = price,
                      NEW v \in Vaults \ {issuerVault, redeemerVault, managerVault}
               PROVE  Worth(v)' >= Worth(v)
    BY DEF RetiredVaultKept
  <2>1. bal \in Books /\ bal' \in Books /\ VaultTypeOK
    BY <1>1, NextIInv DEF IInv, Sound, Balanced, SettingsTypeOK
  <2>2. WorthKept(v)
    <3>1. CASE VaultNext
      BY <1>1, <3>1, VaultKeepsWorth
    <3>2. CASE ~VaultNext
      <4>1. \A x \in Assets : bal'[x][v] = bal[x][v]
        BY <1>1, <3>2, OthersLeftAlone
      <4>2. WorthIn(bal, v) \in Nat /\ WorthIn(bal', v) = WorthIn(bal, v)
        BY <2>1, <4>1, WorthSame
      <4> QED BY <4>2 DEF WorthKept
    <3> QED BY <3>1, <3>2
  <2>3. Worth(v) = WorthIn(bal, v)
    BY DEF Worth, WorthIn
  <2>4. Worth(v)' = WorthIn(bal', v)
    BY DEF Worth, WorthIn, AssetValueFromAmount
  <2> QED BY <2>2, <2>3, <2>4 DEF WorthKept
<1>2. IInv /\ [Next]_vars => [RetiredVaultKept]_vars
  BY <1>1
<1> QED BY <1>2, Invariance, PTL DEF Spec, RetiredVaultKeepsWorth

-----------------------------------------------------------------------------
(* The refinement.  What is minted by the AMO is matched by debt tokens to *)
(* the last unit, whether or not the debt token is at par.                 *)
LEMMA DebtMatches ==
  ASSUME NEW n \in Nat
  PROVE  DebtForDusd(n) \in Nat /\ DebtForDusd(n) * Unit[Dusd] = n * Unit[DebtToken]
<1> DEFINE V == DusdAmountToBaseValue(n)
           d == BaseToDebtUnits(V)
           u == Unit[Dusd]
           w == Unit[DebtToken]
           p == BaseUnit
<1>1. V \in Nat /\ V * u = n * p
  BY ValueForDusd
<1>2. p \in Nat \ {0} /\ u \in Nat \ {0} /\ w \in Nat \ {0} /\ w % p = 0
  BY DecimalsAssumption, UnitsNat
<1>3. d \in Nat /\ d * p = V * w
  BY <1>1, <1>2, MulDivFits, MulDivExact DEF BaseToDebtUnits
<1>4. DebtForDusd(n) = d
  BY DEF DebtForDusd
<1> HIDE DEF V, d, u, w, p
<1>5. (d * u) * p = (n * w) * p
  <2>1. (d * u) * p = (d * p) * u
    BY <1>2, <1>3
  <2>2. (V * w) * u = (V * u) * w
    BY <1>1, <1>2
  <2>3. (n * p) * w = (n * w) * p
    BY <1>2
  <2> QED BY <1>1, <1>3, <2>1, <2>2, <2>3
<1>6. ASSUME NEW x \in Nat, NEW y \in Nat, x * p = y * p
      PROVE  x = y
  <2>1. p \in Nat /\ p > 0
    BY <1>2
  <2>2. ~(x < y)
    <3>1. SUFFICES ASSUME x + 1 <= y PROVE FALSE
      OBVIOUS
    <3>2. (x + 1) * p <= y * p
      BY <2>1, <3>1
    <3>3. (x + 1) * p = x * p + p
      BY <2>1
    <3> QED BY <1>6, <2>1, <3>2, <3>3
  <2>3. ~(y < x)
    <3>1. SUFFICES ASSUME y + 1 <= x PROVE FALSE
      OBVIOUS
    <3>2. (y + 1) * p <= x * p
      BY <2>1, <3>1
    <3>3. (y + 1) * p = y * p + p
      BY <2>1
    <3> QED BY <1>6, <2>1, <3>2, <3>3
  <2> QED BY <2>2, <2>3
<1>7. d * u \in Nat /\ n * w \in Nat
  BY <1>2, <1>3
<1> QED BY <1>3, <1>4, <1>5, <1>6, <1>7 DEF u, w

(* Only a lone change of price or list changes what the vaults go by.      *)
LEMMA MarketMoves ==
  ASSUME [Next]_vars, ~UNCHANGED vaultVars
  PROVE  UNCHANGED <<bal, supply>>
<1>1. VaultNext
  <2>1. ~LedgerNext \/ ~UNCHANGED <<vaultVars, issuerVars, redeemerVars, amoVars>>
    OBVIOUS
  <2>2. ~IssuerNext
    BY DEF IssuerNext, Issue, IssueUsingExcessCollateral, SetIssuerVault,
           SetAssetMintingPause, SetAssetDepositCap, SetMintingPaused
  <2>3. ~RedeemerNext
    BY DEF RedeemerNext, Redeem, RedeemAsProtocol, SetRedeemerVault, SetAssetRedemptionPause,
           SetRedemptionPaused, SetFeeReceiver, SetDefaultRedemptionFee,
           SetCollateralRedemptionFee, ClearCollateralRedemptionFee
  <2>4. ~AmoNext
    BY DEF AmoNext, IncreaseAmoSupply, DecreaseAmoSupply, BorrowTo, RepayFrom, SetManagerVault,
           SetAmoWalletAllowed, SetTolerance, SetPegDeviationBps
  <2> QED BY <2>1, <2>2, <2>3, <2>4 DEF Next, vars
<1> QED BY <1>1 DEF VaultNext, Deposit, ExchangeCollateral, ExchangeMaxCollateral,
                    AllowCollateral, DisallowCollateral, SetPrice, ledgerVars

(* With every asset listed and the debt at par every step is ordinary.     *)
LEMMA OrderIsOrdinary ==
  ASSUME InOrder, UNCHANGED vaultVars
  PROVE  OrdinaryStep
BY DEF InOrder, OrdinaryStep

LEMMA AmoMatches ==
  ASSUME IInv, AmoNext, supply'[Dusd] # supply[Dusd]
  PROVE  (supply'[DebtToken] - supply[DebtToken]) * Unit[Dusd]
           = (supply'[Dusd] - supply[Dusd]) * Unit[DebtToken]
<1>1. /\ supply \in Supplies /\ supply[Dusd] \in Nat /\ supply[DebtToken] \in Nat
      /\ Amounts \subseteq Nat /\ Dusd \in Tokens /\ DebtToken \in Tokens /\ Dusd # DebtToken
      /\ Unit[Dusd] \in Nat /\ Unit[DebtToken] \in Nat
  BY NamesPlaced, NumbersAssumption, UnitsNat DEF IInv, Sound, Balanced, Supplies
<1>2. ASSUME NEW n \in Amounts, NEW wallet, IncreaseAmoSupply(n, wallet)
      PROVE  (supply'[DebtToken] - supply[DebtToken]) * Unit[Dusd]
               = (supply'[Dusd] - supply[Dusd]) * Unit[DebtToken]
  <2> DEFINE d == DebtForDusd(n)
  <2>1. supply' = [supply EXCEPT ![DebtToken] = @ + d, ![Dusd] = @ + n]
    BY <1>2 DEF IncreaseAmoSupply
  <2>2. n \in Nat /\ d \in Nat /\ d * Unit[Dusd] = n * Unit[DebtToken]
    BY <1>1, DebtMatches
  <2> HIDE DEF d
  <2>3. supply'[DebtToken] = supply[DebtToken] + d /\ supply'[Dusd] = supply[Dusd] + n
    BY <1>1, <2>1 DEF Supplies
  <2>4. supply'[DebtToken] - supply[DebtToken] = d /\ supply'[Dusd] - supply[Dusd] = n
    BY <1>1, <2>2, <2>3
  <2> QED BY <2>2, <2>4
<1>3. ASSUME NEW n \in Amounts, NEW wallet, DecreaseAmoSupply(n, wallet)
      PROVE  (supply'[DebtToken] - supply[DebtToken]) * Unit[Dusd]
               = (supply'[Dusd] - supply[Dusd]) * Unit[DebtToken]
  <2> DEFINE d == DebtForDusd(n)
             u == Unit[Dusd]
             w == Unit[DebtToken]
  <2>1. supply' = [supply EXCEPT ![DebtToken] = @ - d, ![Dusd] = @ - n]
    BY <1>3 DEF DecreaseAmoSupply
  <2>2. n \in Nat /\ d \in Nat /\ d * u = n * w
    BY <1>1, DebtMatches
  <2> HIDE DEF d
  <2>3. supply'[DebtToken] = supply[DebtToken] - d /\ supply'[Dusd] = supply[Dusd] - n
    BY <1>1, <2>1 DEF Supplies
  <2>4. supply'[DebtToken] - supply[DebtToken] = -d /\ supply'[Dusd] - supply[Dusd] = -n
    BY <1>1, <2>2, <2>3
  <2>5. u \in Nat /\ w \in Nat
    BY <1>1
  <2> HIDE DEF u, w
  <2>6. (-d) * u = (-n) * w
    BY <2>2, <2>5
  <2> QED BY <2>4, <2>6 DEF u, w
<1>4. ASSUME NEW wallet, NEW a, NEW n, NEW m, BorrowTo(wallet, a, n, m) \/ RepayFrom(wallet, a, n, m)
      PROVE  supply'[Dusd] = supply[Dusd]
  <2>1. \E d : supply' = [supply EXCEPT ![DebtToken] = d]
    BY <1>4 DEF BorrowTo, RepayFrom
  <2> QED BY <1>1, <2>1 DEF Supplies
<1> QED BY <1>2, <1>3, <1>4
        DEF AmoNext, SetManagerVault, SetAmoWalletAllowed, SetTolerance, SetPegDeviationBps,
            ledgerVars

(* A repayment leaves the reserve whole.                                   *)
LEMMA RepaysWhole ==
  ASSUME IInv, IInv', OrdinaryStep, AmoNext, supply'[Dusd] = supply[Dusd],
         supply'[DebtToken] < supply[DebtToken]
  PROVE  SystemValueIn(bal') >= SystemValueIn(bal) + 0
<1>1. /\ supply \in Supplies /\ supply[Dusd] \in Nat /\ supply[DebtToken] \in Nat
      /\ Amounts \subseteq Nat /\ Dusd \in Tokens /\ DebtToken \in Tokens /\ Dusd # DebtToken
      /\ VaultTypeOK
  BY NamesPlaced, NumbersAssumption DEF IInv, Sound, Balanced, Supplies, SettingsTypeOK
<1>2. ASSUME NEW d \in Nat, supply'[DebtToken] = supply[DebtToken] + d PROVE FALSE
  BY <1>1, <1>2
<1>3. ASSUME NEW n \in Amounts, NEW wallet, IncreaseAmoSupply(n, wallet) PROVE FALSE
  <2> DEFINE d == DebtForDusd(n)
  <2>1. supply' = [supply EXCEPT ![DebtToken] = @ + d, ![Dusd] = @ + n]
    BY <1>3 DEF IncreaseAmoSupply
  <2>2. d \in Nat
    BY <1>1, DebtMatches
  <2> HIDE DEF d
  <2>3. supply'[DebtToken] = supply[DebtToken] + d
    BY <1>1, <2>1 DEF Supplies
  <2> QED BY <1>2, <2>2, <2>3
<1>4. ASSUME NEW n \in Amounts, NEW wallet, DecreaseAmoSupply(n, wallet) PROVE FALSE
  <2> DEFINE d == DebtForDusd(n)
  <2>1. supply' = [supply EXCEPT ![DebtToken] = @ - d, ![Dusd] = @ - n]
    BY <1>4 DEF DecreaseAmoSupply
  <2>2. n \in Nat /\ d \in Nat /\ d * Unit[Dusd] = n * Unit[DebtToken]
    BY <1>1, DebtMatches
  <2> HIDE DEF d
  <2>3. supply'[DebtToken] = supply[DebtToken] - d /\ supply'[Dusd] = supply[Dusd] - n
    BY <1>1, <2>1 DEF Supplies
  <2>4. n = 0
    BY <1>1, <2>2, <2>3
  <2>5. d * Unit[Dusd] = 0 /\ Unit[Dusd] \in Nat \ {0}
    BY <2>2, <2>4, UnitsNat
  <2>6. d = 0
    BY <2>2, <2>5
  <2>7. supply'[DebtToken] = supply[DebtToken] + 0
    BY <1>1, <2>3, <2>6
  <2> QED BY <1>2, <2>7
<1>5. ASSUME NEW wallet, NEW a \in Assets, NEW n \in Amounts, NEW min, BorrowTo(wallet, a, n, min)
      PROVE  FALSE
  <2> DEFINE d == DebtForAsset(n, a)
  <2>1. supply' = [supply EXCEPT ![DebtToken] = @ + d]
    BY <1>5 DEF BorrowTo
  <2>2. d \in Nat
    BY <1>1, DebtNat, NamesPlaced
  <2> HIDE DEF d
  <2>3. supply'[DebtToken] = supply[DebtToken] + d
    BY <1>1, <2>1 DEF Supplies
  <2> QED BY <1>2, <2>2, <2>3
<1>6. ASSUME NEW wallet \in AmoWallets, NEW a \in Assets, NEW n \in Amounts, NEW max,
             RepayFrom(wallet, a, n, max)
      PROVE  SystemValueIn(bal') >= SystemValueIn(bal) + 0
  BY <1>1, <1>6, RepayKeepsReserve
<1>7. ~UNCHANGED <<bal, supply>>
  BY <1>1
<1> QED BY <1>3, <1>4, <1>5, <1>6, <1>7
        DEF AmoNext, SetManagerVault, SetAmoWalletAllowed, SetTolerance, SetPegDeviationBps,
            ledgerVars

(* One vault's worth is part of the reserve.                               *)
LEMMA VaultWithin ==
  ASSUME VaultTypeOK, NEW b \in Books, NEW v \in Vaults
  PROVE  TotalValueIn(b, v) \in Nat /\ TotalValueIn(b, v) <= SystemValueIn(b)
<1> DEFINE V == Vaults
           f == [w \in Vaults |-> TotalValueIn(b, w)]
<1>1. IsFiniteSet(V) /\ IsFiniteSet(V \ {v}) /\ v \in V
  BY NamesAssumption, FS_Subset
<1>2. \A w \in V : f[w] \in Nat
  BY TotalNat
<1>3. SystemValueIn(b) = SumFunctionOnSet(f, V) /\ f[v] = TotalValueIn(b, v)
  BY DEF SystemValueIn
<1> HIDE DEF V, f
<1>4. SumFunctionOnSet(f, V) = f[v] + SumFunctionOnSet(f, V \ {v})
  BY <1>1, <1>2, SumSplit
<1>5. SumFunctionOnSet(f, V \ {v}) \in Nat
  BY <1>1, <1>2, SumNat
<1> QED BY <1>1, <1>2, <1>3, <1>4, <1>5

(* A surplus that shrinks by at most a loss, in terms of reserve and dUSD. *)
LEMMA SurplusMeans ==
  ASSUME NEW R \in Nat, NEW S \in Nat, NEW s \in Nat, NEW m \in Nat, NEW u \in Nat \ {0},
         NEW p \in Nat, NEW loss \in {0, u}, S * u - m * p >= R * u - s * p - loss
  PROVE  /\ loss = 0 => (m - s) * p <= (S - R) * u
         /\ m = s => S >= R - 1
<1>1. /\ (m - s) * p = m * p - s * p /\ (S - R) * u = S * u - R * u
      /\ m * p \in Int /\ s * p \in Int /\ S * u \in Int /\ R * u \in Int
  OBVIOUS
<1>2. ASSUME loss = 0 PROVE (m - s) * p <= (S - R) * u
  BY <1>1, <1>2
<1>3. ASSUME m = s PROVE S >= R - 1
  <2>1. S * u >= R * u - u
    BY <1>1, <1>3
  <2>2. SUFFICES ASSUME S + 2 <= R PROVE FALSE
    OBVIOUS
  <2>3. (S + 2) * u <= R * u /\ (S + 2) * u = S * u + u + u
    BY <2>2
  <2> QED BY <1>1, <2>1, <2>3
<1> QED BY <1>2, <1>3

(* What the vaults are worth before and after a step of a quiet market.    *)
LEMMA ReserveBefore ==
  ASSUME IInv
  PROVE  SystemValue \in Nat /\ SystemValue = SystemValueIn(bal)
<1>1. bal \in Books /\ VaultTypeOK
  BY DEF IInv, Sound, Balanced, SettingsTypeOK
<1>2. SystemValue = SystemValueIn(bal)
  BY DEF SystemValue, SystemValueIn, TotalValue
<1> QED BY <1>1, <1>2, SystemSame

LEMMA ReserveAfter ==
  ASSUME IInv, IInv', UNCHANGED vaultVars
  PROVE  SystemValue' \in Nat /\ SystemValue' = SystemValueIn(bal')
<1>1. bal' \in Books /\ VaultTypeOK
  BY DEF IInv, Sound, Balanced, SettingsTypeOK
<1>2. SystemValue' = SystemValueIn(bal')
  BY DEF SystemValue, SystemValueIn, TotalValue, TotalValueIn, AssetValueFromAmount, vaultVars
<1> QED BY <1>1, <1>2, SystemSame

(* What BackingStep says of reserve and dUSD.                              *)
LEMMA CoinBacking ==
  ASSUME IInv, IInv', [Next]_vars, InOrder, UNCHANGED vaultVars
  PROVE  \/ /\ supply'[Dusd] # supply[Dusd] => Coin!NothingLost
            /\ supply'[Dusd] = supply[Dusd] => SystemValue' >= SystemValue - 1
         \/ SystemValue' = SystemValue /\ Coin!Covered(supply'[Dusd])
<1> DEFINE R == SystemValue
           S == SystemValue'
           s == supply[Dusd]
           m == supply'[Dusd]
           u == Unit[Dusd]
           p == BaseUnit
           loss == RoundingLoss
<1>1. /\ R \in Nat /\ S \in Nat /\ s \in Nat /\ m \in Nat /\ u \in Nat \ {0} /\ p \in Nat \ {0}
      /\ VaultTypeOK /\ bal \in Books /\ bal' \in Books /\ issuerVault' \in Vaults
      /\ issuerVault \in Vaults
  BY NamesPlaced, UnitsNat, ReserveBefore, ReserveAfter
     DEF IInv, Sound, Balanced, Supplies, SettingsTypeOK, IssuerTypeOK
<1>2. CASE Surplus' >= Surplus - RoundingLoss
  <2>1. loss \in {0, u} /\ (m # s => loss = 0)
    BY DEF RoundingLoss
  <2>2. S * u - m * p >= R * u - s * p - loss
    BY <1>2 DEF Surplus
  <2>3. Coin!NothingLost = (InOrder => (m - s) * p <= (S - R) * u)
    BY DEF Coin!NothingLost
  <2> HIDE DEF R, S, s, m, u, p, loss
  <2>4. (loss = 0 => (m - s) * p <= (S - R) * u) /\ (m = s => S >= R - 1)
    BY <1>1, <2>1, <2>2, SurplusMeans
  <2> QED BY <2>1, <2>3, <2>4 DEF R, S, s, m
<1>3. CASE /\ \A v \in Vaults, a \in Assets : bal'[a][v] = bal[a][v]
           /\ supply'[Dusd] <= CollateralInDusd(bal', issuerVault)
  <2> DEFINE T == TotalValueIn(bal', issuerVault)
             c == BaseValueToDusdAmount(T)
  <2>1. S = R
    BY <1>1, <1>3, SystemSame, ReserveBefore, ReserveAfter
  <2>2. T \in Nat /\ T <= S
    BY <1>1, VaultWithin, ReserveAfter
  <2>3. c \in Nat /\ c * p <= T * u
    BY <2>2, DusdForValue
  <2>4. m <= c
    BY <1>3 DEF CollateralInDusd
  <2>5. Coin!Covered(m) = (m * p <= R * u)
    BY DEF Coin!Covered
  <2> HIDE DEF R, S, s, m, u, p, T, c
  <2>6. m * p <= c * p
    BY <1>1, <2>3, <2>4
  <2>7. T * u <= R * u
    BY <1>1, <2>1, <2>2
  <2>8. m * p \in Int /\ c * p \in Int /\ T * u \in Int /\ R * u \in Int
    BY <1>1, <2>2, <2>3
  <2>9. m * p <= R * u
    BY <2>3, <2>6, <2>7, <2>8
  <2> QED BY <2>1, <2>5, <2>9 DEF R, S, m
<1>4. OrdinaryStep
  BY OrderIsOrdinary
<1> QED BY <1>2, <1>3, <1>4, BackingStep

LEMMA CoinStep ==
  ASSUME IInv, IInv', [Next]_vars
  PROVE  [Coin!Next]_(Coin!vars)
<1> DEFINE R == SystemValue
           S == SystemValue'
           s == supply[Dusd]
           m == supply'[Dusd]
           d == supply[DebtToken]
           e == supply'[DebtToken]
<1>1. CASE ~UNCHANGED vaultVars
  BY <1>1, MarketMoves DEF Coin!Next, Coin!Market, vaultVars
<1>2. CASE UNCHANGED vaultVars
  <2>1. Coin!Steady
    BY <1>2 DEF Coin!Steady, InOrder, vaultVars
  <2>2. s \in Nat /\ m \in Nat /\ d \in Nat /\ e \in Nat /\ R \in Nat /\ S \in Nat
    BY <1>2, NamesPlaced, ReserveBefore, ReserveAfter DEF IInv, Sound, Balanced, Supplies
  <2>3. InOrder => \/ /\ m # s => Coin!NothingLost
                      /\ m = s => S >= R - 1
                   \/ S = R /\ Coin!Covered(m)
    BY <1>2, CoinBacking
  <2>4. ~InOrder => Coin!NothingLost
    BY DEF Coin!NothingLost
  <2>5. CASE e = d
    <3>1. CASE m > s
      <4>1. Coin!NothingLost \/ (S = R /\ Coin!Covered(m))
        BY <2>2, <2>3, <2>4, <3>1
      <4> QED BY <2>1, <2>5, <3>1, <4>1 DEF Coin!Next, Coin!Issue, Coin!IssueExcess
    <3>2. CASE m < s
      <4>1. S = R => Coin!NothingLost
        <5>1. (m - s) * BaseUnit <= 0 /\ (R - R) * Unit[Dusd] = 0
          BY <2>2, <3>2, UnitsNat
        <5> QED BY <2>2, <5>1 DEF Coin!NothingLost
      <4>2. Coin!NothingLost
        BY <2>2, <2>3, <2>4, <3>2, <4>1
      <4> QED BY <2>1, <2>5, <3>2, <4>2 DEF Coin!Next, Coin!Redeem
    <3>3. CASE m = s
      <4>1. InOrder => S >= R - 1
        BY <2>2, <2>3, <3>3
      <4>2. e >= d
        BY <2>2, <2>5
      <4> QED BY <2>1, <3>3, <4>1, <4>2 DEF Coin!Next, Coin!Lend
    <3> QED BY <2>2, <3>1, <3>2, <3>3
  <2>6. CASE e # d
    <3>1. AmoNext
      BY <2>6, DebtByAmo DEF DebtUnchanged
    <3>2. InOrder => Surplus' >= Surplus - RoundingLoss
      BY <1>2, <3>1, AmoBacking, OrderIsOrdinary
    <3>3. InOrder => /\ m # s => (m - s) * BaseUnit <= (S - R) * Unit[Dusd]
                     /\ m = s => S >= R - 1
      <4> SUFFICES ASSUME InOrder
                   PROVE  /\ m # s => (m - s) * BaseUnit <= (S - R) * Unit[Dusd]
                          /\ m = s => S >= R - 1
        OBVIOUS
      <4> DEFINE u == Unit[Dusd]
                 p == BaseUnit
                 loss == RoundingLoss
      <4>1. loss \in {0, u} /\ (m # s => loss = 0)
        BY DEF RoundingLoss
      <4>2. S * u - m * p >= R * u - s * p - loss
        BY <3>2 DEF Surplus
      <4>3. u \in Nat \ {0} /\ p \in Nat
        BY UnitsNat
      <4> HIDE DEF R, S, s, m, u, p, loss
      <4>4. (loss = 0 => (m - s) * p <= (S - R) * u) /\ (m = s => S >= R - 1)
        BY <2>2, <4>1, <4>2, <4>3, SurplusMeans
      <4> QED BY <4>1, <4>4 DEF u, p
    <3>4. CASE m # s
      <4>1. (e - d) * Unit[Dusd] = (m - s) * Unit[DebtToken]
        BY <3>1, <3>4, AmoMatches
      <4>2. Coin!NothingLost
        BY <3>3, <3>4 DEF Coin!NothingLost
      <4> QED BY <2>1, <3>4, <4>1, <4>2 DEF Coin!Next, Coin!ChangeAmoSupply
    <3>5. CASE m = s /\ e > d
      <4>1. e >= d
        BY <2>2, <3>5
      <4> QED BY <2>1, <3>3, <3>5, <4>1 DEF Coin!Next, Coin!Lend
    <3>6. CASE m = s /\ e < d
      <4>1. InOrder => S >= R
        <5>1. InOrder => SystemValueIn(bal') >= SystemValueIn(bal) + 0
          BY <1>2, <3>1, <3>6, OrderIsOrdinary, RepaysWhole
        <5>2. R = SystemValueIn(bal) /\ S = SystemValueIn(bal')
          BY <1>2, ReserveBefore, ReserveAfter
        <5> HIDE DEF R, S
        <5> QED BY <2>2, <5>1, <5>2
      <4> QED BY <2>1, <3>6, <4>1 DEF Coin!Next, Coin!Repay
    <3> QED BY <2>2, <2>6, <3>4, <3>5, <3>6
  <2> QED BY <2>5, <2>6
<1> QED BY <1>1, <1>2

(* In the beginning there is nothing.                                      *)
LEMMA CoinInit ==
  ASSUME Init
  PROVE  Coin!Init
<1>1. IInv
  BY InitIInv
<1>2. bal \in Books /\ VaultTypeOK
  BY <1>1 DEF IInv, Sound, Balanced, SettingsTypeOK
<1>3. supply[Dusd] = 0 /\ supply[DebtToken] = 0
  BY NamesPlaced, NamesAssumption DEF Init, LedgerInit, Assets, Tokens
<1>4. \A a \in Assets, v \in Vaults : bal[a][v] = 0
  BY NamesPlaced, NamesAssumption DEF Init, LedgerInit
<1>5. \A a \in Assets : AssetValueFromAmount(0, a) = 0
  <2> SUFFICES ASSUME NEW a \in Assets PROVE AssetValueFromAmount(0, a) = 0
    OBVIOUS
  <2>1. price[a] \in Nat /\ Unit[a] \in Nat \ {0}
    BY <1>2, UnitsNat, NamesPlaced DEF VaultTypeOK
  <2> QED BY <2>1 DEF AssetValueFromAmount, ValueOf, MulDiv
<1>6. ASSUME NEW v \in Vaults PROVE TotalValueIn(bal, v) = 0
  <2> DEFINE W == supported[v]
             f == [x \in Assets |-> AssetValueFromAmount(bal[x][v], x)]
  <2>1. W \subseteq Assets /\ IsFiniteSet(W)
    BY <1>2, HoldersFinite, FS_Subset DEF VaultTypeOK
  <2>2. \A x \in W : f[x] = 0
    BY <1>4, <1>5, <2>1
  <2>3. TotalValueIn(bal, v) = SumFunctionOnSet(f, W)
    BY DEF TotalValueIn
  <2> HIDE DEF W, f
  <2> QED BY <2>1, <2>2, <2>3, SumZero
<1>7. SystemValue = 0
  <2> DEFINE V == Vaults
             f == [w \in Vaults |-> TotalValueIn(bal, w)]
  <2>1. IsFiniteSet(V) /\ \A w \in V : f[w] = 0
    BY <1>6, NamesAssumption
  <2>2. SystemValueIn(bal) = SumFunctionOnSet(f, V)
    BY DEF SystemValueIn
  <2> HIDE DEF V, f
  <2> QED BY <1>1, <2>1, <2>2, SumZero, ReserveBefore
<1> QED BY <1>3, <1>7 DEF Coin!Init

(* The dUSD contracts implement a backed stablecoin, for all vaults,       *)
(* collaterals, prices and settings: whatever a transaction does, it       *)
(* issues under cover, redeems at par or less, changes the AMO supply      *)
(* exactly with the debt, lends or repays.                                 *)
THEOREM ImplementsCoin == Spec => CoinSpec
<1>1. Init => Coin!Init
  BY CoinInit
<1>2. IInv /\ IInv' /\ [Next]_vars => [Coin!Next]_(Coin!vars)
  BY CoinStep
<1> QED BY <1>1, <1>2, Invariance, PTL DEF Spec, CoinSpec, Coin!Spec
=============================================================================
