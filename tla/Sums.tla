-------------------------------- MODULE Sums --------------------------------
(***************************************************************************)
(* Laws of SumFunctionOnSet (community module Functions): the sum of the   *)
(* values of a function over a finite set of its arguments.  Balances and  *)
(* collateral values are summed this way throughout the project.  The      *)
(* induction principles are stated over SETS of numbers and SETS of        *)
(* subsets, so that they can be cited like any first-order fact.           *)
(***************************************************************************)
EXTENDS Integers, FiniteSets, Functions, FiniteSetTheorems, WellFoundedInduction, TLAPS

(***************************************************************************)
(* Induction over the subsets of a finite set: a family that holds every   *)
(* subset all of whose one-element removals it holds, holds them all.      *)
(***************************************************************************)
LEMMA SubsetInduction ==
  ASSUME NEW S, IsFiniteSet(S), NEW P \in SUBSET (SUBSET S),
         \A T \in SUBSET S : (\A x \in T : T \ {x} \in P) => T \in P
  PROVE  P = SUBSET S
<1> DEFINE R == StrictSubsetOrdering(S)
           Bad == (SUBSET S) \ P
<1>1. IsWellFoundedOn(R, SUBSET S)
  BY FS_StrictSubsetOrderingWellFounded, FS_FiniteSubsetsOfFinite
<1>2. SUFFICES ASSUME Bad # {} PROVE FALSE
  OBVIOUS
<1>3. PICK T \in Bad : \A U \in Bad : <<U, T>> \notin R
  <2> HIDE DEF R
  <2> QED BY <1>1, <1>2, WFMin
<1>4. ASSUME NEW x \in T PROVE T \ {x} \in P
  <2>1. T \ {x} \in SUBSET S /\ <<T \ {x}, T>> \in R
    BY <1>3 DEF StrictSubsetOrdering
  <2> QED BY <1>3, <2>1
<1> QED BY <1>3, <1>4

(***************************************************************************)
(* Induction over the natural numbers, for a set of numbers.               *)
(***************************************************************************)
LEMMA NatSetInduction ==
  ASSUME NEW P \in SUBSET Nat, 0 \in P, \A n \in P : n + 1 \in P
  PROVE  P = Nat
<1> DEFINE Bad == Nat \ P
<1>1. SUFFICES ASSUME NEW k \in Bad PROVE FALSE
  OBVIOUS
<1> DEFINE S == 0 .. k
           R == StrictSubsetOrdering(S)
           Prefixes == {0 .. m : m \in {i \in Bad : i <= k}}
<1>2. IsWellFoundedOn(R, SUBSET S)
  <2>1. IsFiniteSet(S)
    BY FS_Interval
  <2> HIDE DEF S
  <2> QED BY <2>1, FS_StrictSubsetOrderingWellFounded, FS_FiniteSubsetsOfFinite
<1>3. Prefixes \subseteq SUBSET S /\ 0 .. k \in Prefixes
  OBVIOUS
<1>4. PICK I \in Prefixes : \A J \in Prefixes : <<J, I>> \notin R
  <2> HIDE DEF R, Prefixes, S
  <2> QED BY <1>2, <1>3, WFMin
<1>5. PICK m \in Bad : m <= k /\ I = 0 .. m
  BY <1>4
<1>6. m - 1 \in Bad /\ m - 1 <= k
  BY <1>5
<1>7. 0 .. (m - 1) \in Prefixes
  BY <1>6
<1>8. /\ 0 .. (m - 1) \in SUBSET S /\ 0 .. m \in SUBSET S
      /\ 0 .. (m - 1) \subseteq 0 .. m /\ m \in 0 .. m /\ m \notin 0 .. (m - 1)
  BY <1>5
<1>9. <<0 .. (m - 1), 0 .. m>> \in R
  BY <1>8 DEF StrictSubsetOrdering
<1> QED BY <1>4, <1>5, <1>7, <1>9

-----------------------------------------------------------------------------
(***************************************************************************)
(* The fold that defines SumFunctionOnSet takes the elements in the order  *)
(* this choice gives.  IsSum says that a function on the subsets of S obeys *)
(* the fold's recursive equation on those with at most n elements.         *)
(***************************************************************************)
Pick(T) == CHOOSE x \in T : TRUE

Unfold(f, g, T) == IF T = {} THEN 0 ELSE f[Pick(T)] + g[T \ {Pick(T)}]

IsSum(f, S, g, n) == \A T \in SUBSET S : Cardinality(T) <= n => g[T] = Unfold(f, g, T)

IsSumFcn(f, S, g) == g = [T \in SUBSET S |-> Unfold(f, g, T)]

LEMMA SumExists ==
  ASSUME NEW S, IsFiniteSet(S), NEW f
  PROVE  \E g : IsSumFcn(f, S, g)
<1> DEFINE P == {n \in Nat : \E g : g = [T \in SUBSET S |-> g[T]] /\ IsSum(f, S, g, n)}
<1>1. 0 \in P
  <2> DEFINE g == [T \in SUBSET S |-> 0]
  <2>1. \A T \in SUBSET S : Cardinality(T) <= 0 => T = {}
    BY FS_Subset, FS_EmptySet, FS_CardinalityType
  <2>2. IsSum(f, S, g, 0)
    BY <2>1 DEF IsSum, Unfold
  <2> QED BY <2>2
<1>2. ASSUME NEW n \in P PROVE n + 1 \in P
  <2>1. PICK g : g = [T \in SUBSET S |-> g[T]] /\ IsSum(f, S, g, n)
    OBVIOUS
  <2> DEFINE h == [T \in SUBSET S |-> Unfold(f, g, T)]
  <2>2. ASSUME NEW T \in SUBSET S, Cardinality(T) <= n + 1, T # {}
        PROVE  h[T \ {Pick(T)}] = g[T \ {Pick(T)}]
    <3> DEFINE U == T \ {Pick(T)}
    <3>1. Pick(T) \in T
      BY <2>2 DEF Pick
    <3>2. IsFiniteSet(T) /\ Cardinality(T) \in Nat
      BY FS_Subset, FS_CardinalityType
    <3>3. Cardinality(U) <= n
      <4>1. Cardinality(U) = Cardinality(T) - 1
        BY <3>1, <3>2, FS_RemoveElement
      <4>2. n \in Nat
        OBVIOUS
      <4> HIDE DEF U, P
      <4> QED BY <2>2, <3>2, <4>1, <4>2
    <3>4. U \in SUBSET S
      OBVIOUS
    <3> HIDE DEF U
    <3>5. h[U] = Unfold(f, g, U)
      BY <3>4
    <3>6. g[U] = Unfold(f, g, U)
      BY <2>1, <3>3, <3>4 DEF IsSum
    <3> QED BY <3>5, <3>6 DEF U
  <2>3. IsSum(f, S, h, n + 1)
    <3> SUFFICES ASSUME NEW T \in SUBSET S, Cardinality(T) <= n + 1
                 PROVE  h[T] = Unfold(f, h, T)
      BY DEF IsSum
    <3>1. h[T] = Unfold(f, g, T)
      OBVIOUS
    <3> HIDE DEF h
    <3> QED BY <2>2, <3>1 DEF Unfold
  <2> HIDE DEF h
  <2>4. h = [T \in SUBSET S |-> h[T]]
    BY DEF h
  <2> QED BY <2>3, <2>4
<1>3. P = Nat
  <2> HIDE DEF P
  <2>1. P \in SUBSET Nat
    BY DEF P
  <2> QED BY <1>1, <1>2, <2>1, NatSetInduction
<1>4. Cardinality(S) \in P
  <2> HIDE DEF P
  <2> QED BY <1>3, FS_CardinalityType
<1>5. PICK g : g = [T \in SUBSET S |-> g[T]] /\ IsSum(f, S, g, Cardinality(S))
  BY <1>4
<1>6. \A T \in SUBSET S : g[T] = Unfold(f, g, T)
  BY <1>5, FS_Subset DEF IsSum
<1>7. IsSumFcn(f, S, g)
  BY <1>5, <1>6 DEF IsSumFcn
<1> QED BY <1>7

(***************************************************************************)
(* The recursive equation of the sum.                                      *)
(***************************************************************************)
LEMMA SumUnfold ==
  ASSUME NEW S, IsFiniteSet(S), NEW f
  PROVE  \E g : /\ IsSumFcn(f, S, g)
                /\ SumFunctionOnSet(f, S) = g[S]
<1> DEFINE g == CHOOSE h : IsSumFcn(f, S, h)
<1>1. IsSumFcn(f, S, g)
  BY SumExists
<1>2. SumFunctionOnSet(f, S) = g[S]
  BY DEF SumFunctionOnSet, FoldFunctionOnSet, MapThenFoldSet, Unfold, Pick, IsSumFcn
<1> QED BY <1>1, <1>2

(***************************************************************************)
(* Two functions that obey the equation on different sets agree on the     *)
(* subsets they share.                                                     *)
(***************************************************************************)
LEMMA SumFcnUnique ==
  ASSUME NEW S, IsFiniteSet(S), NEW S2, S \subseteq S2, NEW f, NEW g, NEW h,
         IsSumFcn(f, S, g), IsSumFcn(f, S2, h)
  PROVE  g[S] = h[S]
<1> DEFINE P == {T \in SUBSET S : g[T] = h[T]}
<1>1. ASSUME NEW T \in SUBSET S, \A x \in T : T \ {x} \in P
      PROVE  T \in P
  <2>1. g[T] = Unfold(f, g, T) /\ h[T] = Unfold(f, h, T)
    BY DEF IsSumFcn
  <2>2. CASE T = {}
    BY <2>1, <2>2 DEF Unfold
  <2>3. CASE T # {}
    <3>1. Pick(T) \in T
      BY <2>3 DEF Pick
    <3>2. g[T \ {Pick(T)}] = h[T \ {Pick(T)}]
      BY <1>1, <3>1
    <3> QED BY <2>1, <3>2 DEF Unfold
  <2> QED BY <2>2, <2>3
<1>2. P = SUBSET S
  <2> HIDE DEF P
  <2>1. P \in SUBSET (SUBSET S)
    BY DEF P
  <2> QED BY <1>1, <2>1, SubsetInduction
<1> QED BY <1>2

LEMMA SumEmpty ==
  ASSUME NEW f
  PROVE  SumFunctionOnSet(f, {}) = 0
<1>1. PICK g : IsSumFcn(f, {}, g) /\ SumFunctionOnSet(f, {}) = g[{}]
  BY SumUnfold, FS_EmptySet
<1> QED BY <1>1 DEF IsSumFcn, Unfold

LEMMA SumPick ==
  ASSUME NEW S, IsFiniteSet(S), S # {}, NEW f
  PROVE  /\ Pick(S) \in S
         /\ SumFunctionOnSet(f, S) = f[Pick(S)] + SumFunctionOnSet(f, S \ {Pick(S)})
<1> DEFINE U == S \ {Pick(S)}
<1>1. Pick(S) \in S
  BY DEF Pick
<1>2. IsFiniteSet(U) /\ U \subseteq S
  BY FS_Subset
<1>3. PICK g : IsSumFcn(f, S, g) /\ SumFunctionOnSet(f, S) = g[S]
  BY SumUnfold
<1>4. PICK h : IsSumFcn(f, U, h) /\ SumFunctionOnSet(f, U) = h[U]
  <2> HIDE DEF U
  <2> QED BY <1>2, SumUnfold
<1>5. h[U] = g[U]
  <2> HIDE DEF U
  <2> QED BY <1>2, <1>3, <1>4, SumFcnUnique
<1>6. g[S] = f[Pick(S)] + g[U]
  BY <1>3 DEF IsSumFcn, Unfold
<1> QED BY <1>1, <1>3, <1>4, <1>5, <1>6

-----------------------------------------------------------------------------
(***************************************************************************)
(* What the other modules use.  A sum of naturals is a natural.            *)
(***************************************************************************)
LEMMA SumNat ==
  ASSUME NEW S, IsFiniteSet(S), NEW f, \A x \in S : f[x] \in Nat
  PROVE  SumFunctionOnSet(f, S) \in Nat
<1> DEFINE P == {T \in SUBSET S : SumFunctionOnSet(f, T) \in Nat}
<1>1. ASSUME NEW T \in SUBSET S, \A x \in T : T \ {x} \in P
      PROVE  T \in P
  <2>1. CASE T = {}
    BY <2>1, SumEmpty
  <2>2. CASE T # {}
    <3>1. IsFiniteSet(T)
      BY FS_Subset
    <3>2. /\ Pick(T) \in T
          /\ SumFunctionOnSet(f, T) = f[Pick(T)] + SumFunctionOnSet(f, T \ {Pick(T)})
      BY <2>2, <3>1, SumPick
    <3>3. SumFunctionOnSet(f, T \ {Pick(T)}) \in Nat
      BY <1>1, <3>2
    <3>4. f[Pick(T)] \in Nat
      BY <3>2
    <3>5. SumFunctionOnSet(f, T) \in Nat
      BY <3>2, <3>3, <3>4
    <3> QED BY <3>5
  <2> QED BY <2>1, <2>2
<1>2. P = SUBSET S
  <2> HIDE DEF P
  <2>1. P \in SUBSET (SUBSET S)
    BY DEF P
  <2> QED BY <1>1, <2>1, SubsetInduction
<1> QED BY <1>2

(***************************************************************************)
(* The sum depends only on the values over the set.                        *)
(***************************************************************************)
LEMMA SumEqual ==
  ASSUME NEW S, IsFiniteSet(S), NEW f, NEW g, \A x \in S : f[x] = g[x]
  PROVE  SumFunctionOnSet(f, S) = SumFunctionOnSet(g, S)
<1> DEFINE P == {T \in SUBSET S : SumFunctionOnSet(f, T) = SumFunctionOnSet(g, T)}
<1>1. ASSUME NEW T \in SUBSET S, \A x \in T : T \ {x} \in P
      PROVE  T \in P
  <2>1. CASE T = {}
    BY <2>1, SumEmpty
  <2>2. CASE T # {}
    <3>1. IsFiniteSet(T)
      BY FS_Subset
    <3>2. /\ Pick(T) \in T
          /\ SumFunctionOnSet(f, T) = f[Pick(T)] + SumFunctionOnSet(f, T \ {Pick(T)})
          /\ SumFunctionOnSet(g, T) = g[Pick(T)] + SumFunctionOnSet(g, T \ {Pick(T)})
      BY <2>2, <3>1, SumPick
    <3>3. SumFunctionOnSet(f, T \ {Pick(T)}) = SumFunctionOnSet(g, T \ {Pick(T)})
      BY <1>1, <3>2
    <3>4. f[Pick(T)] = g[Pick(T)]
      BY <3>2
    <3>5. SumFunctionOnSet(f, T) = SumFunctionOnSet(g, T)
      BY <3>2, <3>3, <3>4
    <3> QED BY <3>5
  <2> QED BY <2>1, <2>2
<1>2. P = SUBSET S
  <2> HIDE DEF P
  <2>1. P \in SUBSET (SUBSET S)
    BY DEF P
  <2> QED BY <1>1, <2>1, SubsetInduction
<1> QED BY <1>2

(***************************************************************************)
(* Any element can be split off, not only the one the fold picks.          *)
(***************************************************************************)
LEMMA SumSplit ==
  ASSUME NEW S, IsFiniteSet(S), NEW f, \A x \in S : f[x] \in Nat, NEW e \in S
  PROVE  SumFunctionOnSet(f, S) = f[e] + SumFunctionOnSet(f, S \ {e})
<1> DEFINE Splits(T) ==
             \A x \in T : SumFunctionOnSet(f, T) = f[x] + SumFunctionOnSet(f, T \ {x})
           P == {T \in SUBSET S : Splits(T)}
<1>1. ASSUME NEW T \in SUBSET S, \A x \in T : T \ {x} \in P
      PROVE  T \in P
  <2> SUFFICES ASSUME NEW x \in T
               PROVE  SumFunctionOnSet(f, T) = f[x] + SumFunctionOnSet(f, T \ {x})
    OBVIOUS
  <2> DEFINE p == Pick(T)
             rest == T \ {x, p}
  <2>1. IsFiniteSet(T) /\ IsFiniteSet(T \ {x}) /\ IsFiniteSet(T \ {p}) /\ IsFiniteSet(rest)
    BY FS_Subset
  <2>2. /\ p \in T
        /\ SumFunctionOnSet(f, T) = f[p] + SumFunctionOnSet(f, T \ {p})
    BY <2>1, SumPick
  <2>3. CASE x = p
    BY <2>2, <2>3
  <2>4. CASE x # p
    <3>1. T \ {x} \in P /\ T \ {p} \in P
      BY <1>1, <2>2
    <3>2. /\ (T \ {p}) \ {x} = rest /\ (T \ {x}) \ {p} = rest
          /\ p \in T \ {x} /\ x \in T \ {p}
      BY <2>2, <2>4
    <3>3. SumFunctionOnSet(f, T \ {p}) = f[x] + SumFunctionOnSet(f, rest)
      BY <3>1, <3>2
    <3>4. SumFunctionOnSet(f, T \ {x}) = f[p] + SumFunctionOnSet(f, rest)
      BY <3>1, <3>2
    <3>5. f[x] \in Nat /\ f[p] \in Nat /\ SumFunctionOnSet(f, rest) \in Nat
      <4>1. \A y \in rest : f[y] \in Nat
        OBVIOUS
      <4> HIDE DEF rest
      <4> QED BY <2>1, <2>2, <4>1, SumNat
    <3> HIDE DEF rest, p
    <3> QED BY <2>2, <3>3, <3>4, <3>5
  <2> QED BY <2>3, <2>4
<1>2. P = SUBSET S
  <2> HIDE DEF P
  <2>1. P \in SUBSET (SUBSET S)
    BY DEF P
  <2> QED BY <1>1, <2>1, SubsetInduction
<1>3. S \in P
  BY <1>2
<1> QED BY <1>3

(***************************************************************************)
(* Changing one value changes the sum by the difference.                   *)
(***************************************************************************)
LEMMA SumUpdate ==
  ASSUME NEW S, IsFiniteSet(S), NEW f, NEW g, NEW e \in S,
         \A x \in S : f[x] \in Nat, \A x \in S : g[x] \in Nat,
         \A x \in S \ {e} : f[x] = g[x]
  PROVE  SumFunctionOnSet(g, S) = SumFunctionOnSet(f, S) - f[e] + g[e]
<1>1. /\ SumFunctionOnSet(f, S) = f[e] + SumFunctionOnSet(f, S \ {e})
      /\ SumFunctionOnSet(g, S) = g[e] + SumFunctionOnSet(g, S \ {e})
  BY SumSplit
<1>2. IsFiniteSet(S \ {e})
  BY FS_Subset
<1>3. SumFunctionOnSet(f, S \ {e}) = SumFunctionOnSet(g, S \ {e})
  BY <1>2, SumEqual
<1>4. SumFunctionOnSet(f, S \ {e}) \in Nat
  BY <1>2, SumNat
<1>5. f[e] \in Nat /\ g[e] \in Nat
  OBVIOUS
<1> QED BY <1>1, <1>3, <1>4, <1>5

(* A sum of nothing but zeros.                                             *)
LEMMA SumZero ==
  ASSUME NEW S, IsFiniteSet(S), NEW f, \A x \in S : f[x] = 0
  PROVE  SumFunctionOnSet(f, S) = 0
<1> DEFINE P == {T \in SUBSET S : SumFunctionOnSet(f, T) = 0}
<1>1. ASSUME NEW T \in SUBSET S, \A x \in T : T \ {x} \in P
      PROVE  T \in P
  <2>1. CASE T = {}
    BY <2>1, SumEmpty
  <2>2. CASE T # {}
    <3>1. IsFiniteSet(T)
      BY FS_Subset
    <3>2. PICK x \in T : TRUE
      BY <2>2
    <3>3. SumFunctionOnSet(f, T) = f[x] + SumFunctionOnSet(f, T \ {x})
      BY <3>1, SumSplit
    <3>4. SumFunctionOnSet(f, T \ {x}) = 0
      BY <1>1
    <3> QED BY <3>3, <3>4
  <2> QED BY <2>1, <2>2
<1>2. P = SUBSET S
  <2> HIDE DEF P
  <2>1. P \in SUBSET (SUBSET S)
    BY DEF P
  <2> QED BY <1>1, <2>1, SubsetInduction
<1> QED BY <1>2

(* The elements that count for nothing may be left out.                    *)
LEMMA SumSupport ==
  ASSUME NEW S, IsFiniteSet(S), NEW A \in SUBSET S, NEW f,
         \A x \in S : f[x] \in Nat, \A x \in S \ A : f[x] = 0
  PROVE  SumFunctionOnSet(f, S) = SumFunctionOnSet(f, A)
<1> DEFINE P == {T \in SUBSET S :
                   SumFunctionOnSet(f, T) = SumFunctionOnSet(f, T \cap A)}
<1>1. ASSUME NEW T \in SUBSET S, \A x \in T : T \ {x} \in P
      PROVE  T \in P
  <2>1. CASE T \subseteq A
    <3>1. T \cap A = T
      BY <2>1
    <3> QED BY <3>1
  <2>2. CASE ~(T \subseteq A)
    <3>1. IsFiniteSet(T)
      BY FS_Subset
    <3>2. PICK x \in T : x \notin A
      BY <2>2
    <3>3. SumFunctionOnSet(f, T) = f[x] + SumFunctionOnSet(f, T \ {x})
      BY <3>1, SumSplit
    <3>4. SumFunctionOnSet(f, T \ {x}) = SumFunctionOnSet(f, (T \ {x}) \cap A)
      BY <1>1
    <3>5. (T \ {x}) \cap A = T \cap A
      BY <3>2
    <3>6. f[x] = 0 /\ SumFunctionOnSet(f, T \ {x}) \in Nat
      <4>1. IsFiniteSet(T \ {x})
        BY <3>1, FS_Subset
      <4> QED BY <3>2, <4>1, SumNat
    <3>7. SumFunctionOnSet(f, T) = SumFunctionOnSet(f, T \ {x})
      BY <3>3, <3>6
    <3>8. SumFunctionOnSet(f, T) = SumFunctionOnSet(f, T \cap A)
      BY <3>7, <3>4, <3>5, Zenon
    <3> QED BY <3>8
  <2> QED BY <2>1, <2>2
<1>2. P = SUBSET S
  <2> HIDE DEF P
  <2>1. P \in SUBSET (SUBSET S)
    BY DEF P
  <2> QED BY <1>1, <2>1, SubsetInduction
<1>3. S \cap A = A
  OBVIOUS
<1> QED BY <1>2, <1>3
=============================================================================
