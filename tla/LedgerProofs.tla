---------------------------- MODULE LedgerProofs ----------------------------
(***************************************************************************)
(* What the three movements of Ledger do to a book of balances and to the  *)
(* total supplies: the facts every handler's proof is put together from.   *)
(***************************************************************************)
EXTENDS Ledger, Sums

Books == [Tokens -> [Holders -> Nat]]
Supplies == [Tokens -> Nat]

(* The book is well typed and its balances add up to the supplies.         *)
Balanced(b, s) ==
  /\ b \in Books
  /\ s \in Supplies
  /\ \A t \in Tokens : SumFunctionOnSet(b[t], Holders) = s[t]

(* The sums over the holders are finite.                                   *)
LEMMA HoldersFinite == IsFiniteSet(Holders) /\ IsFiniteSet(Assets)
<1>1. IsFiniteSet(Collaterals) /\ IsFiniteSet(Accounts) /\ IsFiniteSet(Vaults)
  BY NamesAssumption
<1>2. IsFiniteSet({DebtToken}) /\ IsFiniteSet({Issuer}) /\ IsFiniteSet({Redeemer})
      /\ IsFiniteSet({Manager})
  BY FS_Singleton
<1>3. Contracts = {Issuer} \cup ({Redeemer} \cup {Manager})
  BY DEF Contracts
<1>4. IsFiniteSet(Contracts)
  BY <1>2, <1>3, FS_Union
<1>5. IsFiniteSet(Accounts \cup Vaults)
  BY <1>1, FS_Union
<1> QED BY <1>1, <1>2, <1>4, <1>5, FS_Union DEF Holders, Assets

(* The value of a conversion is a natural number.                          *)
LEMMA MulDivNat ==
  ASSUME NEW x \in Nat, NEW y \in Nat, NEW d \in Nat \ {0}
  PROVE  MulDiv(x, y, d) \in Nat
<1>1. x * y \in Nat
  OBVIOUS
<1>2. ASSUME NEW z \in Nat PROVE z \div d \in Nat
  OBVIOUS
<1> QED BY <1>1, <1>2 DEF MulDiv

(* The conversions of the three contracts return natural numbers.          *)
LEMMA ConversionsNat ==
  ASSUME NEW n \in Nat
  PROVE  /\ BaseValueToDusdAmount(n) \in Nat
         /\ DusdAmountToBaseValue(n) \in Nat
         /\ BaseToDebtUnits(n) \in Nat
<1>1. Unit[Dusd] \in Nat \ {0} /\ Unit[DebtToken] \in Nat \ {0} /\ BaseUnit \in Nat \ {0}
  BY NumbersAssumption DEF Tokens, Assets
<1> QED BY <1>1, MulDivNat DEF BaseValueToDusdAmount, DusdAmountToBaseValue, BaseToDebtUnits

-----------------------------------------------------------------------------
(* A credit changes one balance.                                           *)
LEMMA CreditBook ==
  ASSUME NEW b \in Books, NEW t \in Tokens, NEW h \in Holders, NEW n \in Nat
  PROVE  /\ Credit(b, t, h, n) \in Books
         /\ Credit(b, t, h, n)[t][h] = b[t][h] + n
         /\ \A u \in Tokens, k \in Holders :
              u # t \/ k # h => Credit(b, t, h, n)[u][k] = b[u][k]
<1>1. b[t] \in [Holders -> Nat] /\ b[t][h] + n \in Nat
  BY DEF Books
<1> QED BY <1>1 DEF Credit, Books

(* A debit the balance covers changes one balance.                         *)
LEMMA DebitBook ==
  ASSUME NEW b \in Books, NEW t \in Tokens, NEW h \in Holders, NEW n \in Nat, b[t][h] >= n
  PROVE  /\ Debit(b, t, h, n) \in Books
         /\ Debit(b, t, h, n)[t][h] = b[t][h] - n
         /\ \A u \in Tokens, k \in Holders :
              u # t \/ k # h => Debit(b, t, h, n)[u][k] = b[u][k]
<1>1. b[t] \in [Holders -> Nat] /\ b[t][h] - n \in Nat
  BY DEF Books
<1> QED BY <1>1 DEF Debit, Books

(* After a movement the receiver holds at least what was moved, and no     *)
(* other token and nobody but the two ends is touched.                     *)
LEMMA MoveBook ==
  ASSUME NEW b \in Books, NEW t \in Tokens, NEW from \in Holders, NEW to \in Holders,
         NEW n \in Nat, b[t][from] >= n
  PROVE  /\ Move(b, t, from, to, n) \in Books
         /\ Move(b, t, from, to, n)[t][to] >= n
         /\ \A u \in Tokens, k \in Holders :
              u # t \/ k \notin {from, to} => Move(b, t, from, to, n)[u][k] = b[u][k]
<1> DEFINE d == Debit(b, t, from, n)
<1>1. /\ d \in Books
      /\ \A u \in Tokens, k \in Holders : u # t \/ k # from => d[u][k] = b[u][k]
  BY DebitBook
<1>2. /\ Credit(d, t, to, n) \in Books
      /\ Credit(d, t, to, n)[t][to] = d[t][to] + n
      /\ \A u \in Tokens, k \in Holders : u # t \/ k # to => Credit(d, t, to, n)[u][k] = d[u][k]
  BY <1>1, CreditBook
<1>3. d[t][to] \in Nat
  BY <1>1 DEF Books
<1> HIDE DEF d
<1>4. Credit(d, t, to, n)[t][to] >= n
  BY <1>2, <1>3
<1>5. \A u \in Tokens, k \in Holders :
        u # t \/ k \notin {from, to} => Credit(d, t, to, n)[u][k] = b[u][k]
  BY <1>1, <1>2
<1> QED BY <1>2, <1>4, <1>5 DEF Move, d

-----------------------------------------------------------------------------
(* The balance of a holder is part of the supply.                          *)
LEMMA SupplyCovers ==
  ASSUME NEW b, NEW s, Balanced(b, s), NEW t \in Tokens, NEW h \in Holders
  PROVE  b[t][h] \in Nat /\ s[t] \in Nat /\ b[t][h] <= s[t]
<1>1. b[t] \in [Holders -> Nat] /\ s[t] \in Nat
  BY DEF Balanced, Books, Supplies
<1>2. IsFiniteSet(Holders \ {h})
  BY HoldersFinite, FS_Subset
<1>3. SumFunctionOnSet(b[t], Holders \ {h}) \in Nat
  BY <1>1, <1>2, SumNat
<1>4. SumFunctionOnSet(b[t], Holders) = b[t][h] + SumFunctionOnSet(b[t], Holders \ {h})
  BY <1>1, HoldersFinite, SumSplit
<1>5. s[t] = b[t][h] + SumFunctionOnSet(b[t], Holders \ {h})
  BY <1>4 DEF Balanced
<1> QED BY <1>1, <1>3, <1>5

(* A change of one balance with the same change of the supply keeps the    *)
(* books balanced.                                                         *)
LEMMA ChangeBalanced ==
  ASSUME NEW b, NEW s, Balanced(b, s), NEW c \in Books, NEW r \in Supplies,
         NEW t \in Tokens, NEW h \in Holders,
         \A u \in Tokens, k \in Holders : u # t \/ k # h => c[u][k] = b[u][k],
         \A u \in Tokens : u # t => r[u] = s[u],
         r[t] = s[t] - b[t][h] + c[t][h]
  PROVE  Balanced(c, r)
<1>1. ASSUME NEW u \in Tokens
      PROVE  SumFunctionOnSet(c[u], Holders) = r[u]
  <2>1. SumFunctionOnSet(b[u], Holders) = s[u]
    BY DEF Balanced
  <2>2. (\A k \in Holders : b[u][k] \in Nat) /\ (\A k \in Holders : c[u][k] \in Nat)
    BY DEF Balanced, Books
  <2>3. CASE u = t
    <3> DEFINE H == Holders
               f == b[u]
               g == c[u]
    <3>1. IsFiniteSet(H) /\ h \in H
      BY HoldersFinite
    <3>2. (\A k \in H : f[k] \in Nat) /\ (\A k \in H : g[k] \in Nat)
      BY <2>2
    <3>3. \A k \in H \ {h} : f[k] = g[k]
      BY <2>3
    <3> HIDE DEF H, f, g
    <3>4. SumFunctionOnSet(g, H) = SumFunctionOnSet(f, H) - f[h] + g[h]
      BY <3>1, <3>2, <3>3, SumUpdate
    <3> QED BY <3>4, <2>1, <2>3 DEF H, f, g
  <2>4. CASE u # t
    <3>1. SumFunctionOnSet(c[u], Holders) = SumFunctionOnSet(b[u], Holders)
      BY <2>4, HoldersFinite, SumEqual
    <3> QED BY <3>1, <2>1, <2>4
  <2> QED BY <2>3, <2>4
<1> QED BY <1>1 DEF Balanced

(* Minting keeps the books balanced.                                       *)
LEMMA MintBalanced ==
  ASSUME NEW b, NEW s, Balanced(b, s), NEW t \in Tokens, NEW h \in Holders, NEW n \in Nat
  PROVE  Balanced(Credit(b, t, h, n), [s EXCEPT ![t] = @ + n])
<1> DEFINE c == Credit(b, t, h, n)
           r == [s EXCEPT ![t] = @ + n]
<1>1. b \in Books /\ s \in Supplies /\ b[t][h] \in Nat /\ s[t] \in Nat
  BY DEF Balanced, Books, Supplies
<1>2. /\ c \in Books /\ c[t][h] = b[t][h] + n
      /\ \A u \in Tokens, k \in Holders : u # t \/ k # h => c[u][k] = b[u][k]
  BY <1>1, CreditBook
<1>3. r \in Supplies /\ (\A u \in Tokens : u # t => r[u] = s[u]) /\ r[t] = s[t] + n
  BY <1>1 DEF Supplies
<1> HIDE DEF c, r
<1>4. r[t] = s[t] - b[t][h] + c[t][h]
  BY <1>1, <1>2, <1>3
<1>5. Balanced(c, r)
  BY <1>2, <1>3, <1>4, ChangeBalanced
<1> QED BY <1>5 DEF c, r

(* Burning what the holder has keeps the books balanced.                   *)
LEMMA BurnBalanced ==
  ASSUME NEW b, NEW s, Balanced(b, s), NEW t \in Tokens, NEW h \in Holders, NEW n \in Nat,
         b[t][h] >= n
  PROVE  Balanced(Debit(b, t, h, n), [s EXCEPT ![t] = @ - n])
<1> DEFINE c == Debit(b, t, h, n)
           r == [s EXCEPT ![t] = @ - n]
<1>1. b \in Books /\ s \in Supplies /\ b[t][h] \in Nat /\ s[t] \in Nat /\ b[t][h] <= s[t]
  BY SupplyCovers DEF Balanced
<1>2. /\ c \in Books /\ c[t][h] = b[t][h] - n
      /\ \A u \in Tokens, k \in Holders : u # t \/ k # h => c[u][k] = b[u][k]
  BY <1>1, DebitBook
<1>3. s[t] - n \in Nat
  BY <1>1
<1>4. r \in Supplies /\ (\A u \in Tokens : u # t => r[u] = s[u]) /\ r[t] = s[t] - n
  BY <1>1, <1>3 DEF Supplies
<1> HIDE DEF c, r
<1>5. r[t] = s[t] - b[t][h] + c[t][h]
  BY <1>1, <1>2, <1>4
<1>6. Balanced(c, r)
  BY <1>2, <1>4, <1>5, ChangeBalanced
<1> QED BY <1>6 DEF c, r

(* A movement is a burn here and a mint there.                             *)
LEMMA MoveBalanced ==
  ASSUME NEW b, NEW s, Balanced(b, s), NEW t \in Tokens,
         NEW from \in Holders, NEW to \in Holders, NEW n \in Nat, b[t][from] >= n
  PROVE  Balanced(Move(b, t, from, to, n), s)
<1> DEFINE d == Debit(b, t, from, n)
           r == [s EXCEPT ![t] = @ - n]
<1>1. Balanced(d, r)
  BY BurnBalanced
<1>2. Balanced(Credit(d, t, to, n), [r EXCEPT ![t] = @ + n])
  BY <1>1, MintBalanced
<1>3. s \in Supplies /\ s[t] \in Nat
  BY DEF Balanced, Supplies
<1>4. [r EXCEPT ![t] = @ + n] = s
  <2>1. s = [u \in Tokens |-> s[u]] /\ s[t] - n + n = s[t]
    BY <1>3 DEF Supplies
  <2>2. [r EXCEPT ![t] = @ + n] = [u \in Tokens |-> IF u = t THEN s[t] - n + n ELSE s[u]]
    BY <1>3 DEF Supplies
  <2> QED BY <2>1, <2>2
<1> QED BY <1>2, <1>4 DEF Move

-----------------------------------------------------------------------------
(* Between transactions only accounts and vaults hold tokens, and only     *)
(* vaults hold debt tokens.                                                *)
Parties == Accounts \cup Vaults

Settled(b) ==
  /\ \A a \in Accounts : b[DebtToken][a] = 0
  /\ \A t \in Tokens, c \in Contracts : b[t][c] = 0

Sound(b, s) == Balanced(b, s) /\ Settled(b)

(* The names are where they belong.                                        *)
LEMMA NamesPlaced ==
  /\ Dusd \in Tokens /\ DebtToken \in Tokens /\ DebtToken \in Assets /\ Dusd # DebtToken
  /\ \A a \in Assets : a \in Tokens /\ a # Dusd
  /\ \A h \in Parties : h \in Holders /\ h \notin Contracts
  /\ \A a \in Accounts : a \in Parties /\ a \notin Vaults
  /\ \A v \in Vaults : v \in Parties
  /\ \A c \in Contracts : c \in Holders /\ c \notin Parties
  /\ {Issuer, Redeemer, Manager} \subseteq Contracts
BY NamesAssumption DEF Tokens, Assets, Parties, Holders, Contracts

(* Debt tokens that the allowlist lets a party have go to a vault.         *)
LEMMA AllowedEnds ==
  ASSUME allowlisted \subseteq Vaults \cup {Manager},
         NEW t, NEW ends, UpdateAllowed(t, ends), NEW h \in ends, h \in Parties
  PROVE  t = DebtToken => h \in Vaults
BY NamesPlaced DEF UpdateAllowed

(* What a contract takes in and burns at once it never had: the effect is  *)
(* a burn from the sender.                                                 *)
LEMMA PassThrough ==
  ASSUME NEW b \in Books, NEW t \in Tokens, NEW from \in Holders, NEW c \in Holders,
         from # c, NEW n \in Nat, b[t][from] >= n
  PROVE  /\ Move(b, t, from, c, n)[t][c] >= n
         /\ Debit(Move(b, t, from, c, n), t, c, n) = Debit(b, t, from, n)
<1> DEFINE d == Debit(b, t, from, n)
           m == Credit(d, t, c, n)
           e == Debit(m, t, c, n)
<1>1. d \in Books
  BY DebitBook
<1>2. /\ m \in Books /\ m[t][c] = d[t][c] + n
      /\ \A u \in Tokens, k \in Holders : u # t \/ k # c => m[u][k] = d[u][k]
  BY <1>1, CreditBook
<1>3. d[t][c] \in Nat
  BY <1>1 DEF Books
<1>4. m[t][c] >= n
  BY <1>2, <1>3
<1>5. /\ e \in Books /\ e[t][c] = m[t][c] - n
      /\ \A u \in Tokens, k \in Holders : u # t \/ k # c => e[u][k] = m[u][k]
  BY <1>2, <1>4, DebitBook
<1> HIDE DEF d, m, e
<1>6. e[t][c] = d[t][c]
  BY <1>2, <1>3, <1>5
<1>7. \A u \in Tokens, k \in Holders : e[u][k] = d[u][k]
  BY <1>2, <1>5, <1>6
<1>8. \A u \in Tokens : e[u] = d[u]
  BY <1>1, <1>5, <1>7 DEF Books
<1>9. e = d
  BY <1>1, <1>5, <1>8 DEF Books
<1> QED BY <1>4, <1>9 DEF Move, d, m, e

(* Minting, burning and moving among the parties keeps the books sound, as *)
(* long as debt tokens only go to vaults.                                  *)
LEMMA MintSound ==
  ASSUME NEW b, NEW s, Sound(b, s), NEW t \in Tokens, NEW h \in Parties, NEW n \in Nat,
         t = DebtToken => h \in Vaults
  PROVE  Sound(Credit(b, t, h, n), [s EXCEPT ![t] = @ + n])
<1>1. h \in Holders /\ b \in Books
  BY NamesPlaced DEF Sound, Balanced
<1>2. \A u \in Tokens, k \in Holders : u # t \/ k # h => Credit(b, t, h, n)[u][k] = b[u][k]
  BY <1>1, CreditBook
<1>3. Settled(Credit(b, t, h, n))
  BY <1>2, NamesPlaced DEF Sound, Settled
<1>4. Balanced(Credit(b, t, h, n), [s EXCEPT ![t] = @ + n])
  BY <1>1, MintBalanced DEF Sound
<1> QED BY <1>3, <1>4 DEF Sound

LEMMA BurnSound ==
  ASSUME NEW b, NEW s, Sound(b, s), NEW t \in Tokens, NEW h \in Parties, NEW n \in Nat,
         b[t][h] >= n
  PROVE  Sound(Debit(b, t, h, n), [s EXCEPT ![t] = @ - n])
<1>1. h \in Holders /\ b \in Books
  BY NamesPlaced DEF Sound, Balanced
<1>2. /\ Debit(b, t, h, n) \in Books
      /\ Debit(b, t, h, n)[t][h] = b[t][h] - n
      /\ \A u \in Tokens, k \in Holders : u # t \/ k # h => Debit(b, t, h, n)[u][k] = b[u][k]
  BY <1>1, DebitBook
<1>3. b[t][h] = 0 => Debit(b, t, h, n)[t][h] = 0
  BY <1>2
<1>4. Settled(Debit(b, t, h, n))
  BY <1>2, <1>3, NamesPlaced DEF Sound, Settled
<1>5. Balanced(Debit(b, t, h, n), [s EXCEPT ![t] = @ - n])
  BY <1>1, BurnBalanced DEF Sound
<1> QED BY <1>4, <1>5 DEF Sound

LEMMA MoveSound ==
  ASSUME NEW b, NEW s, Sound(b, s), NEW t \in Tokens, NEW from \in Parties,
         NEW to \in Parties, NEW n \in Nat, b[t][from] >= n, t = DebtToken => to \in Vaults
  PROVE  Sound(Move(b, t, from, to, n), s)
<1> DEFINE d == Debit(b, t, from, n)
           r == [s EXCEPT ![t] = @ - n]
<1>1. Sound(d, r)
  BY BurnSound
<1>2. Sound(Credit(d, t, to, n), [r EXCEPT ![t] = @ + n])
  BY <1>1, MintSound
<1>3. from \in Holders /\ to \in Holders
  BY NamesPlaced
<1>4. Balanced(Move(b, t, from, to, n), s)
  BY <1>3, MoveBalanced DEF Sound
<1> QED BY <1>2, <1>4 DEF Sound, Move
=============================================================================
