-------------------------- MODULE LiquidatorProofs --------------------------
(***************************************************************************)
(* The safety properties of the liquidator bots, for any number of users,  *)
(* any settings and any bounds: type correctness, one liquidation at a     *)
(* time and the UniswapV3 bot's own factors, and the quiet after a user    *)
(* was ignored, for any processes that share a file.                       *)
(***************************************************************************)
EXTENDS LiquidatorProperties, SequenceTheorems, Sums

-----------------------------------------------------------------------------
(* Sequences.  A sequence over a set is one over every larger set.         *)
LEMMA SeqWiden ==
  ASSUME NEW S, NEW T, S \subseteq T, NEW s \in Seq(S)
  PROVE  s \in Seq(T)
<1>1. Len(s) \in Nat /\ DOMAIN s = 1..Len(s) /\ \A i \in 1..Len(s) : s[i] \in T
  OBVIOUS
<1>2. s = [i \in 1..Len(s) |-> s[i]]
  OBVIOUS
<1> QED BY <1>1, <1>2

(* Its elements are in the set.                                            *)
LEMMA SeqElements ==
  ASSUME NEW S, NEW s \in Seq(S)
  PROVE  ToSet(s) \subseteq S /\ s \in Seq(ToSet(s)) /\ IsFiniteSet(ToSet(s))
<1>1. Len(s) \in Nat /\ DOMAIN s = 1..Len(s) /\ \A i \in 1..Len(s) : s[i] \in S
  OBVIOUS
<1>2. s = [i \in 1..Len(s) |-> s[i]] /\ \A i \in 1..Len(s) : s[i] \in ToSet(s)
  BY <1>1 DEF ToSet
<1>3. ToSet(s) \subseteq S
  BY <1>1 DEF ToSet
<1>4. s \in Seq(ToSet(s))
  BY <1>1, <1>2
<1>5. IsFiniteSet(ToSet(s))
  <2>1. IsFiniteSet(1..Len(s))
    BY <1>1, FS_Interval
  <2>2. s \in [1..Len(s) -> ToSet(s)] /\ \A x \in ToSet(s) : \E i \in 1..Len(s) : s[i] = x
    BY <1>1, <1>2 DEF ToSet
  <2>3. s \in Surjection(1..Len(s), ToSet(s))
    BY <2>2 DEF Surjection
  <2> QED BY <2>1, <2>3, FS_Surjection
<1> QED BY <1>3, <1>4, <1>5

(***************************************************************************)
(* The recursive equation of Filtered, for all n or up to a bound.         *)
(***************************************************************************)
KeepUpTo(s, keep, f, n) ==
  IF n = 0 THEN <<>>
  ELSE IF s[n] \in keep THEN Append(f[n - 1], s[n]) ELSE f[n - 1]

IsFilter(s, keep, f) == f = [n \in 0..Len(s) |-> KeepUpTo(s, keep, f, n)]

LEMMA FilterExists ==
  ASSUME NEW s, Len(s) \in Nat, NEW keep
  PROVE  \E f : IsFilter(s, keep, f)
<1> DEFINE Obeys(f, k) == /\ f = [n \in 0..Len(s) |-> f[n]]
                          /\ \A n \in 0..Len(s) : n <= k => f[n] = KeepUpTo(s, keep, f, n)
           P == {k \in Nat : \E f : Obeys(f, k)}
<1>1. 0 \in P
  <2> DEFINE f == [n \in 0..Len(s) |-> <<>>]
  <2>1. \A n \in 0..Len(s) : n <= 0 => f[n] = KeepUpTo(s, keep, f, n)
    BY DEF KeepUpTo
  <2>2. f = [n \in 0..Len(s) |-> f[n]]
    OBVIOUS
  <2> QED BY <2>1, <2>2
<1>2. ASSUME NEW k \in P PROVE k + 1 \in P
  <2>1. k \in Nat
    OBVIOUS
  <2>2. PICK f : Obeys(f, k)
    OBVIOUS
  <2> DEFINE g == [n \in 0..Len(s) |-> KeepUpTo(s, keep, f, n)]
  <2>3. \A n \in 0..Len(s) : n <= k => g[n] = f[n]
    BY <2>2
  <2>4. ASSUME NEW n \in 0..Len(s), n <= k + 1
        PROVE  g[n] = KeepUpTo(s, keep, g, n)
    <3>1. g[n] = KeepUpTo(s, keep, f, n)
      OBVIOUS
    <3> HIDE DEF g
    <3>2. n # 0 => n - 1 \in 0..Len(s) /\ n - 1 <= k
      BY <2>1, <2>4
    <3>3. n # 0 => g[n - 1] = f[n - 1]
      BY <2>3, <3>2
    <3> QED BY <3>1, <3>3 DEF KeepUpTo
  <2>5. g = [n \in 0..Len(s) |-> g[n]]
    OBVIOUS
  <2> HIDE DEF g
  <2>6. Obeys(g, k + 1)
    BY <2>4, <2>5
  <2> QED BY <2>1, <2>6
<1>3. P = Nat
  <2>1. P \in SUBSET Nat
    OBVIOUS
  <2> HIDE DEF P
  <2> QED BY <1>1, <1>2, <2>1, NatSetInduction
<1>4. PICK f : Obeys(f, Len(s))
  <2>1. Len(s) \in P
    BY <1>3
  <2> QED BY <2>1
<1>5. \A n \in 0..Len(s) : f[n] = KeepUpTo(s, keep, f, n)
  BY <1>4
<1>6. IsFilter(s, keep, f)
  BY <1>4, <1>5 DEF IsFilter
<1> QED BY <1>6

(* What is filtered out of a sequence over S is a sequence over what is    *)
(* kept of S, and no longer.                                               *)
LEMMA FilteredIs ==
  ASSUME NEW S, NEW s \in Seq(S), NEW keep
  PROVE  /\ Filtered(s, keep) \in Seq(S \cap keep)
         /\ Len(Filtered(s, keep)) <= Len(s)
<1>1. Len(s) \in Nat /\ \A n \in 1..Len(s) : s[n] \in S
  OBVIOUS
<1> DEFINE f == CHOOSE g : IsFilter(s, keep, g)
<1>2. IsFilter(s, keep, f)
  BY <1>1, FilterExists
<1>3. Filtered(s, keep) = f[Len(s)]
  BY DEF Filtered, IsFilter, KeepUpTo
<1> HIDE DEF f
<1>4. \A n \in 0..Len(s) : f[n] = KeepUpTo(s, keep, f, n)
  BY <1>2 DEF IsFilter
<1> DEFINE Q(n) == n <= Len(s) => f[n] \in Seq(S \cap keep) /\ Len(f[n]) <= n
           P == {n \in Nat : Q(n)}
<1>5. 0 \in P
  <2>1. f[0] = <<>>
    BY <1>1, <1>4 DEF KeepUpTo
  <2>2. <<>> \in Seq(S \cap keep) /\ Len(<<>>) <= 0
    OBVIOUS
  <2> QED BY <2>1, <2>2
<1>6. ASSUME NEW n \in P PROVE n + 1 \in P
  <2>1. n \in Nat /\ Q(n)
    OBVIOUS
  <2>2. ASSUME n + 1 <= Len(s)
        PROVE  f[n + 1] \in Seq(S \cap keep) /\ Len(f[n + 1]) <= n + 1
    <3>1. f[n] \in Seq(S \cap keep) /\ Len(f[n]) <= n
      BY <1>1, <2>1, <2>2
    <3>2. f[n + 1] = IF s[n + 1] \in keep THEN Append(f[n], s[n + 1]) ELSE f[n]
      <4>1. n + 1 \in 0..Len(s) /\ n + 1 # 0 /\ (n + 1) - 1 = n
        BY <1>1, <2>1, <2>2
      <4> QED BY <1>4, <4>1 DEF KeepUpTo
    <3>3. s[n + 1] \in S
      BY <1>1, <2>1, <2>2
    <3>4. CASE s[n + 1] \in keep
      <4>1. s[n + 1] \in S \cap keep
        BY <3>3, <3>4
      <4>2. /\ Append(f[n], s[n + 1]) \in Seq(S \cap keep)
            /\ Len(Append(f[n], s[n + 1])) = Len(f[n]) + 1
        BY <3>1, <4>1
      <4> QED BY <2>1, <3>1, <3>2, <3>4, <4>2
    <3>5. CASE s[n + 1] \notin keep
      BY <2>1, <3>1, <3>2, <3>5
    <3> QED BY <3>4, <3>5
  <2> QED BY <2>1, <2>2
<1>7. P = Nat
  <2>1. P \in SUBSET Nat
    OBVIOUS
  <2> HIDE DEF P
  <2> QED BY <1>5, <1>6, <2>1, NatSetInduction
<1>8. Len(s) \in P
  BY <1>1, <1>7
<1>9. Q(Len(s))
  BY <1>8
<1> QED BY <1>1, <1>3, <1>9
-----------------------------------------------------------------------------
(* The batches of an order are sequences over what the order is over.      *)
LEMMA BatchesOver ==
  ASSUME NEW U, NEW order \in Seq(U), setting.batchSize \in Nat \ {0}
  PROVE  splitToBatches(order) \in Seq(Seq(U))
<1> DEFINE n == Len(order)
           size == setting.batchSize
           count == (n + size - 1) \div size
           first(k) == (k - 1) * size + 1
           last(k) == Min({k * size, n})
<1>1. n \in Nat /\ size \in Nat \ {0} /\ \A i \in 1..n : order[i] \in U
  OBVIOUS
<1>2. count \in Nat
  <2>1. n + size - 1 \in Nat
    BY <1>1
  <2> HIDE DEF n, size
  <2> QED BY <1>1, <2>1
<1>3. ASSUME NEW k \in 1..count
      PROVE  SubSeq(order, first(k), last(k)) \in Seq(U)
  <2>1. k \in Nat \ {0} /\ k - 1 \in Nat
    BY <1>2
  <2>2. k * size \in Nat /\ (k - 1) * size \in Nat
    <3> HIDE DEF count, size
    <3> QED BY <1>1, <2>1
  <2>3. last(k) \in {k * size, n} /\ last(k) <= n
    <3>1. \E x \in {k * size, n} : \A y \in {k * size, n} : x <= y
      <4> HIDE DEF n, size
      <4> QED BY <1>1, <2>2
    <3>2. \A y \in {k * size, n} : last(k) <= y
      BY <3>1 DEF Min
    <3>3. last(k) \in {k * size, n}
      BY <3>1 DEF Min
    <3> QED BY <3>2, <3>3
  <2>4. first(k) \in Int /\ first(k) >= 1 /\ last(k) \in Int
    <3> HIDE DEF n, size, last
    <3> QED BY <1>1, <2>2, <2>3
  <2>5. \A i \in first(k)..last(k) : order[i] \in U
    <3> HIDE DEF n, size, first, last
    <3> QED BY <1>1, <2>3, <2>4
  <2> HIDE DEF first, last
  <2> QED BY <2>4, <2>5, SubSeqProperties
<1>4. splitToBatches(order) = [k \in 1..count |-> SubSeq(order, first(k), last(k))]
  BY DEF splitToBatches
<1> HIDE DEF count, first, last
<1> QED BY <1>2, <1>3, <1>4

(* A shuffle of users is a sequence over them.                             *)
LEMMA ShuffleOver ==
  ASSUME NEW U \in SUBSET Users, NEW order \in Shuffles(U)
  PROVE  order \in Seq(U)
<1>1. Cardinality(U) \in Nat
  BY BotAssumption, FS_Subset, FS_CardinalityType
<1>2. order \in [1..Cardinality(U) -> U]
  BY DEF Shuffles, SetToSeqs
<1> QED BY <1>1, <1>2
-----------------------------------------------------------------------------
(* What a batch finds is about users of the batch.                         *)
Entries(B) == [user : B, factorOf : B]
Owned(found) == \A k \in DOMAIN found : found[k].factorOf = found[k].user

LEMMA FoundOver ==
  ASSUME NEW B, NEW batch \in Seq(B), NEW read \in Seq(B), Len(read) <= Len(batch)
  PROVE  /\ Found(batch, read) \in Seq(Entries(B))
         /\ read = batch => Owned(Found(batch, read))
<1> DEFINE paired == [i \in 1..Len(read) |-> [user |-> batch[i], factorOf |-> read[i]]]
           same == {e \in Entries(B) : e.factorOf = e.user}
<1>1. /\ Len(read) \in Nat /\ Len(batch) \in Nat
      /\ \A i \in 1..Len(read) : batch[i] \in B /\ read[i] \in B
  OBVIOUS
<1>2. paired \in Seq(Entries(B))
  <2>1. \A i \in 1..Len(read) : [user |-> batch[i], factorOf |-> read[i]] \in Entries(B)
    BY <1>1 DEF Entries
  <2> QED BY <1>1, <2>1
<1>3. Found(batch, read) = Filtered(paired, Unhealthy)
  BY DEF Found
<1>4. Found(batch, read) \in Seq(Entries(B))
  <2> HIDE DEF paired
  <2>1. Filtered(paired, Unhealthy) \in Seq(Entries(B) \cap Unhealthy)
    BY <1>2, FilteredIs
  <2>2. Entries(B) \cap Unhealthy \subseteq Entries(B)
    OBVIOUS
  <2> QED BY <1>3, <2>1, <2>2, SeqWiden
<1>5. ASSUME read = batch PROVE Owned(Found(batch, read))
  <2>1. paired \in Seq(same)
    <3>1. \A i \in 1..Len(read) : [user |-> batch[i], factorOf |-> read[i]] \in same
      BY <1>1, <1>5 DEF Entries
    <3> HIDE DEF same
    <3> QED BY <1>1, <3>1
  <2> HIDE DEF paired
  <2>2. Filtered(paired, Unhealthy) \in Seq(same \cap Unhealthy)
    <3> HIDE DEF same
    <3> QED BY <2>1, FilteredIs
  <2>3. \A k \in DOMAIN Found(batch, read) : Found(batch, read)[k] \in same \cap Unhealthy
    <3> HIDE DEF same
    <3> QED BY <1>3, <2>2
  <2> QED BY <2>3 DEF Owned
<1> QED BY <1>4, <1>5

-----------------------------------------------------------------------------
(***************************************************************************)
(* The steps of a process, by what they do: the inductive proofs go over   *)
(* these and not over every action of every bot.                           *)
(***************************************************************************)
Acting == {"user", "liquidate", "assemble", "send", "reverted"}

SpendsSome == faults' \in Faults /\ faults'.crashes = faults.crashes

Stops(p) ==
  /\ process[p].pc \in {"idle", "batch"}
  /\ \E bot \in BotsOf(p), trial \in Nat :
        /\ trial < TrialLimit(bot)
        /\ process' = [process EXCEPT ![p] = Idle(bot, trial, process[p].life)]
  /\ SpendsSome
  /\ UNCHANGED <<memoryVars, health, pending, report>>

Reads(p) ==
  /\ process[p].pc = "batch"
  /\ process[p].batches # <<>>
  /\ \E found \in Seq(Entries(setting.borrowers)) :
        /\ NextBatch(p, found)
        /\ setting.script = "uniswap" => Owned(found)
  /\ SpendsSome
  /\ UNCHANGED <<memoryVars, health, pending, report>>

Skips(p) == process[p].pc \in Acting /\ Skip(p) /\ SpendsSome

Proceeds(p) ==
  /\ process[p].pc \in Acting
  /\ \E pc \in {"liquidate", "assemble", "send"} : Goto(p, pc)
  /\ UNCHANGED <<memoryVars, health, pending, report, faults>>

Sends(p) ==
  /\ process[p].pc \in Acting
  /\ pending' = pending \cup {[process |-> p, life |-> process[p].life, user |-> User(p)]}
  /\ Goto(p, "wait")
  /\ UNCHANGED <<memoryVars, health, report, faults>>

Reports(p) ==
  /\ process[p].pc = "mined"
  /\ Report(p, TRUE)
  /\ NextUser(p)
  /\ UNCHANGED <<memoryVars, health, pending, faults>>

RunsAs(p) ==
  \/ StartRun(p) \/ Stops(p) \/ Reads(p) \/ Skips(p) \/ Proceeds(p) \/ Sends(p) \/ Reports(p)

(* The settings have their types.                                          *)
LEMMA SettingTyped ==
  ASSUME BotTypeOK
  PROVE  /\ setting.script \in Scripts /\ setting.batchSize \in Nat \ {0}
         /\ setting.borrowers \in SUBSET Users /\ setting.unreadable \in SUBSET Users
         /\ setting.tears \in BOOLEAN /\ setting.faults \in Faults
BY BotAssumption DEF BotTypeOK

(* A failure within the bounds spends nothing but failures.                *)
LEMMA FaultSpends ==
  ASSUME BotTypeOK, Fault \/ UNCHANGED faults
  PROVE  SpendsSome
BY DEF BotTypeOK, Faults, Fault, SpendsSome

(* Users who could not be read, by chance, are no more than may be.         *)
LEMMA ReadFaultsSpend ==
  ASSUME BotTypeOK, NEW batch \in Seq(setting.borrowers),
         NEW missing \in UnreadOf(batch), ReadFaults(missing)
  PROVE  SpendsSome
<1>1. PICK failed \in SUBSET (ToSet(batch) \ setting.unreadable) :
         /\ Cardinality(failed) <= faults.reads
         /\ missing = failed \cup (ToSet(batch) \cap setting.unreadable)
  BY DEF UnreadOf
<1>2. missing \ setting.unreadable = failed
  BY <1>1
<1>3. Cardinality(failed) \in Nat
  <2>1. IsFiniteSet(ToSet(batch))
    BY SeqElements
  <2>2. failed \subseteq ToSet(batch)
    BY <1>1
  <2> QED BY <2>1, <2>2, FS_Subset, FS_CardinalityType
<1>4. faults' = [faults EXCEPT !.reads = @ - Cardinality(failed)]
  BY <1>2 DEF ReadFaults
<1> QED BY <1>1, <1>3, <1>4 DEF BotTypeOK, Faults, SpendsSome
(* Every action of every bot is one of these steps.                        *)
LEMMA ReadsBatch ==
  ASSUME BotTypeOK, NEW p \in Processes,
         \/ process[p].bot # "uniswap" /\ ReadHealthFactors(p)
         \/ ReadHealthFactorsOrReject(p)
  PROVE  Reads(p)
<1> DEFINE B == setting.borrowers
           batch == Head(process[p].batches)
<1>1. process[p].batches \in Seq(Seq(B)) /\ process[p].bot \in BotsOf(p)
  BY DEF BotTypeOK, ProcessTypeOK, ProcessStates
<1>2. /\ process[p].pc = "batch" /\ process[p].batches # <<>>
      /\ UNCHANGED <<memoryVars, health, pending, report>>
  BY DEF ReadHealthFactors, ReadHealthFactorsOrReject
<1>3. batch \in Seq(B)
  BY <1>1, <1>2
<1>4. \E found \in Seq(Entries(B)) :
        /\ NextBatch(p, found)
        /\ setting.script = "uniswap" => Owned(found)
  <2>1. CASE process[p].bot # "uniswap" /\ ReadHealthFactors(p)
    <3>1. PICK missing \in UnreadOf(batch) :
            NextBatch(p, Found(batch, Filtered(batch, ToSet(batch) \ missing)))
      BY <2>1 DEF ReadHealthFactors
    <3> DEFINE read == Filtered(batch, ToSet(batch) \ missing)
    <3>2. read \in Seq(B) /\ Len(read) <= Len(batch)
      <4>1. read \in Seq(B \cap (ToSet(batch) \ missing)) /\ Len(read) <= Len(batch)
        <5> HIDE DEF batch, B
        <5> QED BY <1>3, FilteredIs
      <4>2. B \cap (ToSet(batch) \ missing) \subseteq B
        OBVIOUS
      <4> HIDE DEF read
      <4> QED BY <4>1, <4>2, SeqWiden
    <3> HIDE DEF read, batch
    <3>3. Found(batch, read) \in Seq(Entries(B))
      BY <1>3, <3>2, FoundOver
    <3>4. setting.script # "uniswap"
      BY <1>1, <2>1 DEF BotsOf
    <3> QED BY <3>1, <3>3, <3>4 DEF read
  <2>2. CASE ReadHealthFactorsOrReject(p)
    <3>1. PICK missing \in UnreadOf(batch) :
            NextBatch(p, IF missing = {} THEN Found(batch, batch) ELSE <<>>)
      BY <2>2 DEF ReadHealthFactorsOrReject
    <3>2. Found(batch, batch) \in Seq(Entries(B)) /\ Owned(Found(batch, batch))
      <4> HIDE DEF batch, B
      <4>1. Len(batch) <= Len(batch)
        BY <1>3
      <4> QED BY <1>3, <4>1, FoundOver
    <3>3. <<>> \in Seq(Entries(B)) /\ Owned(<<>>)
      BY DEF Owned
    <3> QED BY <3>1, <3>2, <3>3
  <2> QED BY <2>1, <2>2
<1>5. SpendsSome
  <2>1. \E missing \in UnreadOf(batch) : ReadFaults(missing)
    BY DEF ReadHealthFactors, ReadHealthFactorsOrReject
  <2> HIDE DEF batch
  <2> QED BY <1>3, <2>1, ReadFaultsSpend
<1> QED BY <1>2, <1>4, <1>5 DEF Reads

LEMMA SkipOrFaultSkips ==
  ASSUME BotTypeOK, NEW p, NEW reason, process[p].pc \in Acting, SkipOrFault(p, reason)
  PROVE  Skips(p)
BY FaultSpends DEF SkipOrFault, Skips

LEMMA SendSteps ==
  ASSUME BotTypeOK, NEW p, process[p].pc \in Acting, Send(p)
  PROVE  RunsAs(p)
BY SkipOrFaultSkips DEF Send, Sends, RunsAs

LEMMA StopSteps ==
  ASSUME BotTypeOK, NEW p \in Processes, Throw(p) \/ FinishRun(p)
  PROVE  Stops(p)
<1>1. /\ process[p].bot \in BotsOf(p) /\ process[p].trial \in Nat
      /\ setting.script \in Scripts
  BY SettingTyped DEF BotTypeOK, ProcessTypeOK, ProcessStates
<1>2. MaxOdosFailureCount \in Nat \ {0} /\ MaxCurveFailureCount \in Nat \ {0}
  BY BotAssumption
<1>3. \E bot \in BotsOf(p), trial \in Nat :
         /\ trial < TrialLimit(bot)
         /\ process' = [process EXCEPT ![p] = Idle(bot, trial, process[p].life)]
  <2>1. CASE Throw(p)
    <3>1. process' = [process EXCEPT ![p] = AfterThrow(p)]
      BY <2>1 DEF Throw
    <3>2. CASE setting.script # "combo"
      <4>1. AfterThrow(p) = Idle(setting.script, 0, process[p].life)
        BY <3>2 DEF AfterThrow
      <4>2. setting.script \in BotsOf(p)
        BY <3>2 DEF BotsOf
      <4>3. 0 < TrialLimit(setting.script)
        BY <1>2 DEF TrialLimit
      <4> QED BY <3>1, <4>1, <4>2, <4>3
    <3>3. CASE setting.script = "combo"
      <4> DEFINE next == process[p].trial + 1
      <4>1. next \in Nat /\ {"odos", "curve"} \subseteq BotsOf(p)
        BY <1>1, <3>3 DEF BotsOf
      <4>2. 0 < TrialLimit("odos") /\ 0 < TrialLimit("curve")
        BY <1>2 DEF TrialLimit
      <4>3. \/ /\ next < TrialLimit("odos")
               /\ AfterThrow(p) = Idle("odos", next, process[p].life)
            \/ AfterThrow(p) = Idle("curve", 0, process[p].life)
            \/ /\ next < TrialLimit("curve")
               /\ AfterThrow(p) = Idle("curve", next, process[p].life)
            \/ AfterThrow(p) = Idle("odos", 0, process[p].life)
        BY <3>3 DEF AfterThrow, runOdosTrials, runCurveTrial, TrialLimit
      <4> HIDE DEF next
      <4> QED BY <3>1, <4>1, <4>2, <4>3
    <3> QED BY <3>2, <3>3
  <2>2. CASE FinishRun(p)
    <3>1. process' = [process EXCEPT ![p] = Idle(FirstBot(p), 0, process[p].life)]
      BY <2>2 DEF FinishRun, AfterReturn
    <3>2. FirstBot(p) \in BotsOf(p)
      BY DEF FirstBot, BotsOf
    <3>3. 0 < TrialLimit(FirstBot(p))
      BY <1>2 DEF TrialLimit
    <3> QED BY <3>1, <3>2, <3>3
  <2> QED BY <2>1, <2>2
<1>4. SpendsSome
  BY FaultSpends DEF Throw, FinishRun
<1> QED BY <1>3, <1>4 DEF Throw, FinishRun, Stops

LEMMA RunSteps ==
  ASSUME BotTypeOK, NEW p \in Processes, Run(p)
  PROVE  RunsAs(p)
<1>1. CASE StartRun(p)
  BY <1>1 DEF RunsAs
<1>2. CASE Throw(p) \/ FinishRun(p)
  BY <1>2, StopSteps DEF RunsAs
<1>3. CASE \/ process[p].bot # "uniswap" /\ ReadHealthFactors(p)
           \/ ReadHealthFactorsOrReject(p)
  BY <1>3, ReadsBatch DEF RunsAs
<1>4. CASE CheckUser(p)
  <2>1. process[p].pc \in Acting
    BY <1>4 DEF CheckUser, Acting
  <2> QED BY <1>4, <2>1, SkipOrFaultSkips DEF CheckUser, RunsAs, Proceeds
<1>5. CASE performOdosLiquidation(p)
  <2>1. process[p].pc \in Acting
    BY <1>5 DEF performOdosLiquidation, getOdosSwapQuote, getAssembledQuote,
                executeFlashMintLiquidation, executeFlashLoanLiquidation, Acting
  <2>2. CASE getOdosSwapQuote(p)
    BY <2>1, <2>2, SkipOrFaultSkips DEF getOdosSwapQuote, RunsAs, Proceeds
  <2>3. CASE getAssembledQuote(p)
    BY <2>1, <2>3, FaultSpends DEF getAssembledQuote, RunsAs, Skips, Proceeds
  <2>4. CASE executeFlashMintLiquidation(p) \/ executeFlashLoanLiquidation(p)
    BY <2>1, <2>4, SendSteps DEF executeFlashMintLiquidation, executeFlashLoanLiquidation
  <2> QED BY <1>5, <2>2, <2>3, <2>4 DEF performOdosLiquidation
<1>6. CASE performCurveLiquidation(p) \/ performUniswapV3Liquidation(p)
  <2>1. process[p].pc \in Acting
    BY <1>6 DEF performCurveLiquidation, performUniswapV3Liquidation, Acting
  <2>2. CASE Skip(p) /\ UNCHANGED faults
    BY <2>1, <2>2, FaultSpends DEF Skips, RunsAs
  <2>3. CASE Send(p)
    BY <2>1, <2>3, SendSteps
  <2> QED BY <1>6, <2>2, <2>3 DEF performCurveLiquidation, performUniswapV3Liquidation
<1>7. CASE Receipt(p)
  <2>1. CASE process[p].pc = "mined"
    BY <1>7, <2>1 DEF Receipt, Reports, RunsAs
  <2>2. CASE process[p].pc # "mined"
    <3>1. process[p].pc \in Acting
      BY <1>7, <2>2 DEF Receipt, Acting
    <3> QED BY <1>7, <2>2, <3>1, FaultSpends DEF Receipt, Skips, RunsAs
  <2> QED BY <2>1, <2>2
<1> QED
  BY <1>1, <1>2, <1>3, <1>4, <1>5, <1>6, <1>7
     DEF Run, runOdosBot, runCurveBot, runUniswapV3Bot, OdosBatch, CurveBatch, UniswapV3Batch
-----------------------------------------------------------------------------
(* Types.  What each operation of a memory leaves is a memory.             *)
LEMMA AfterDumpTyped ==
  ASSUME MemoryTypeOK, NEW m
  PROVE  AfterDump(m) \in [Memories -> [Users -> Standings]]
BY DEF MemoryTypeOK, AfterDump, Standings

LEMMA PutTyped ==
  ASSUME MemoryTypeOK, NEW m \in Memories, NEW u \in Users, put(m, u)
  PROVE  MemoryTypeOK'
<1> DEFINE entries == [memory[m] EXCEPT ![u] = IgnoreDuration[m]]
<1>1. IgnoreDuration[m] \in Nat /\ IgnoreDuration[m] > 0
  BY IgnoreAssumption
<1>2. /\ entries \in [Users -> Int]
      /\ \A w \in Users : entries[w] \in Absent..IgnoreDuration[m]
  BY <1>1 DEF MemoryTypeOK, Absent
<1>3. /\ memory' = [memory EXCEPT ![m] = entries]
      /\ file' = Dumped(m, entries)
      /\ promised' = [promised EXCEPT ![m][u] = IgnoreDuration[m]]
      /\ standing' = [AfterDump(m) EXCEPT ![m][u] = "saved"]
      /\ isInitialized' = isInitialized
  BY DEF put
<1> HIDE DEF entries
<1>4. /\ memory' \in [Memories -> [Users -> Int]]
      /\ \A n \in Memories, w \in Users : memory'[n][w] \in Absent..IgnoreDuration[n]
  BY <1>2, <1>3 DEF MemoryTypeOK
<1>5. /\ promised' \in [Memories -> [Users -> Nat]]
      /\ \A n \in Memories, w \in Users : promised'[n][w] <= IgnoreDuration[n]
  BY <1>1, <1>3 DEF MemoryTypeOK
<1>6. /\ file' \in [state : {"missing", "torn", "saved"}, ignoreDuration : Nat,
                    memory : [Users -> Int]]
      /\ \A w \in Users : file'.memory[w] \in Absent..file'.ignoreDuration
  BY <1>1, <1>2, <1>3 DEF Dumped
<1>7. standing' \in [Memories -> [Users -> Standings]]
  BY <1>3, AfterDumpTyped DEF Standings
<1> QED BY <1>3, <1>4, <1>5, <1>6, <1>7 DEF MemoryTypeOK

(* What an instance holds once it is initialized.                          *)
LEMMA InitializedTyped ==
  ASSUME MemoryTypeOK, NEW m \in Memories, ~initializeThrows(m)
  PROVE  /\ initialized(m) \in [Users -> Int]
         /\ \A u \in Users : initialized(m)[u] \in Absent..IgnoreDuration[m]
BY DEF MemoryTypeOK, initializeThrows, initialized

LEMMA IsIgnoredTyped ==
  ASSUME MemoryTypeOK, NEW m \in Memories, ~initializeThrows(m), isIgnoredOfAll(m)
  PROVE  MemoryTypeOK'
<1> DEFINE before == initialized(m)
           after == [u \in Users |-> IF before[u] = 0 THEN Absent ELSE before[u]]
<1>1. IgnoreDuration[m] \in Nat
  BY IgnoreAssumption
<1>2. /\ after \in [Users -> Int]
      /\ \A u \in Users : after[u] \in Absent..IgnoreDuration[m]
  <2>1. /\ before \in [Users -> Int]
        /\ \A u \in Users : before[u] \in Absent..IgnoreDuration[m]
    BY InitializedTyped
  <2> HIDE DEF before
  <2> QED BY <1>1, <2>1 DEF Absent
<1>3. /\ memory' = [memory EXCEPT ![m] = after]
      /\ isInitialized' = [isInitialized EXCEPT ![m] = TRUE]
      /\ file' = IF after = before THEN file ELSE Dumped(m, after)
      /\ standing' = IF after = before THEN standing ELSE AfterDump(m)
      /\ promised' = promised
  BY DEF isIgnoredOfAll
<1> HIDE DEF before, after
<1>4. /\ memory' \in [Memories -> [Users -> Int]]
      /\ \A n \in Memories, u \in Users : memory'[n][u] \in Absent..IgnoreDuration[n]
  BY <1>2, <1>3 DEF MemoryTypeOK
<1>5. /\ file' \in [state : {"missing", "torn", "saved"}, ignoreDuration : Nat,
                    memory : [Users -> Int]]
      /\ \A u \in Users : file'.memory[u] \in Absent..file'.ignoreDuration
  BY <1>1, <1>2, <1>3 DEF MemoryTypeOK, Dumped
<1>6. isInitialized' \in [Memories -> BOOLEAN]
  BY <1>3 DEF MemoryTypeOK
<1>7. standing' \in [Memories -> [Users -> Standings]]
  BY <1>3, AfterDumpTyped DEF MemoryTypeOK
<1> QED BY <1>3, <1>4, <1>5, <1>6, <1>7 DEF MemoryTypeOK

LEMMA MemoryTickTyped ==
  ASSUME MemoryTypeOK, MemoryTick
  PROVE  MemoryTypeOK'
<1>1. \A t \in Int, d \in Nat : t \in Absent..d => Passed(t) \in Absent..d
  BY DEF Passed, Absent
<1>2. \A t \in Nat : Passed(t) \in Nat /\ Passed(t) <= t
  BY DEF Passed
<1>3. \A m \in Memories : IgnoreDuration[m] \in Nat
  BY IgnoreAssumption
<1>4. \A t \in Int : Passed(t) \in Int
  BY DEF Passed
<1>5. /\ memory' \in [Memories -> [Users -> Int]]
      /\ \A m \in Memories, u \in Users : memory'[m][u] \in Absent..IgnoreDuration[m]
  BY <1>1, <1>3, <1>4 DEF MemoryTypeOK, MemoryTick
<1>6. /\ promised' \in [Memories -> [Users -> Nat]]
      /\ \A m \in Memories, u \in Users : promised'[m][u] <= IgnoreDuration[m]
  <2>1. \A m \in Memories, u \in Users :
          promised[m][u] \in Nat /\ promised[m][u] <= IgnoreDuration[m]
    BY DEF MemoryTypeOK
  <2>2. promised' = [m \in Memories |-> [u \in Users |-> Passed(promised[m][u])]]
    BY DEF MemoryTick
  <2> QED BY <1>2, <1>3, <2>1, <2>2
<1>7. /\ file' \in [state : {"missing", "torn", "saved"}, ignoreDuration : Nat,
                    memory : [Users -> Int]]
      /\ \A u \in Users : file'.memory[u] \in Absent..file'.ignoreDuration
  BY <1>1, <1>4 DEF MemoryTypeOK, MemoryTick
<1>8. standing' \in [Memories -> [Users -> Standings]]
  BY DEF MemoryTypeOK, MemoryTick, Standings
<1> QED BY <1>5, <1>6, <1>7, <1>8 DEF MemoryTypeOK, MemoryTick

LEMMA ForgetTyped ==
  ASSUME MemoryTypeOK, NEW lost, NEW torn, ForgetAll(lost, torn)
  PROVE  MemoryTypeOK'
<1>1. /\ NoEntries \in [Users -> Int]
      /\ \A m \in Memories, u \in Users : NoEntries[u] \in Absent..IgnoreDuration[m]
      /\ \A u \in Users : NoEntries[u] \in Absent..0
  BY IgnoreAssumption DEF NoEntries, Absent
<1>2. /\ memory' \in [Memories -> [Users -> Int]]
      /\ \A m \in Memories, u \in Users : memory'[m][u] \in Absent..IgnoreDuration[m]
  BY <1>1 DEF MemoryTypeOK, ForgetAll
<1>3. /\ file' \in [state : {"missing", "torn", "saved"}, ignoreDuration : Nat,
                    memory : [Users -> Int]]
      /\ \A u \in Users : file'.memory[u] \in Absent..file'.ignoreDuration
  BY <1>1 DEF MemoryTypeOK, ForgetAll, TornFile
<1>4. standing' \in [Memories -> [Users -> Standings]]
  BY DEF MemoryTypeOK, ForgetAll, Standings
<1> QED BY <1>2, <1>3, <1>4 DEF MemoryTypeOK, ForgetAll
(* A process that changes to a proper state, the others standing still.    *)
LEMMA ProcessTyped ==
  ASSUME BotTypeOK, UNCHANGED setting, NEW p \in Processes, NEW s \in ProcessStates,
         process' = [process EXCEPT ![p] = s],
         s.bot \in BotsOf(p), s.trial < TrialLimit(s.bot),
         faults' \in Faults, faults'.crashes <= faults.crashes,
         s.life + faults'.crashes <= setting.faults.crashes,
         s.pc \notin {"idle", "batch"} => s.found # <<>>
  PROVE  ProcessTypeOK'
<1>1. process' \in [Processes -> ProcessStates']
  BY DEF BotTypeOK, ProcessTypeOK, ProcessStates
<1>2. \A q \in Processes : process'[q] = IF q = p THEN s ELSE process[q]
  BY DEF BotTypeOK, ProcessTypeOK
<1>3. \A q \in Processes : BotsOf(q)' = BotsOf(q)
  BY DEF BotsOf
<1>4. ASSUME NEW q \in Processes
      PROVE  /\ process'[q].bot \in BotsOf(q)
             /\ process'[q].trial < TrialLimit(process'[q].bot)
             /\ process'[q].life + faults'.crashes <= setting.faults.crashes
             /\ process'[q].pc \notin {"idle", "batch"} => process'[q].found # <<>>
  <2>1. CASE q = p
    BY <1>2, <2>1
  <2>2. CASE q # p
    <3>1. process'[q] = process[q]
      BY <1>2, <2>2
    <3>2. /\ process[q].life \in Nat /\ faults.crashes \in Nat /\ faults'.crashes \in Nat
          /\ setting.faults.crashes \in Nat
      BY SettingTyped DEF BotTypeOK, ProcessTypeOK, ProcessStates, Faults
    <3>3. process[q].life + faults.crashes <= setting.faults.crashes
      BY DEF BotTypeOK, ProcessTypeOK
    <3>4. process[q].life + faults'.crashes <= setting.faults.crashes
      BY <3>2, <3>3
    <3> QED BY <3>1, <3>4 DEF BotTypeOK, ProcessTypeOK
  <2> QED BY <2>1, <2>2
<1> QED BY <1>1, <1>3, <1>4 DEF ProcessTypeOK

(* A process that goes on, in the same life, with the same bot.            *)
LEMMA GoesOnTyped ==
  ASSUME BotTypeOK, UNCHANGED setting, NEW p \in Processes, NEW s \in ProcessStates,
         process' = [process EXCEPT ![p] = s],
         s.bot = process[p].bot, s.trial = process[p].trial, s.life = process[p].life,
         SpendsSome,
         s.pc \notin {"idle", "batch"} => s.found # <<>>
  PROVE  ProcessTypeOK'
<1>1. /\ process[p].bot \in BotsOf(p) /\ process[p].trial < TrialLimit(process[p].bot)
      /\ process[p].life + faults.crashes <= setting.faults.crashes
  BY DEF BotTypeOK, ProcessTypeOK
<1>2. faults' \in Faults /\ faults'.crashes = faults.crashes /\ faults.crashes \in Nat
  BY DEF BotTypeOK, SpendsSome, Faults
<1>3. faults'.crashes <= faults.crashes
  BY <1>2
<1> QED BY <1>1, <1>2, <1>3, ProcessTyped

(* The state of a process, and the user it is busy with.                   *)
LEMMA StateTyped ==
  ASSUME BotTypeOK, NEW p \in Processes
  PROVE  /\ process[p] \in ProcessStates
         /\ MemoryOf(p) \in Memories
         /\ process[p].pc \notin {"idle", "batch"} =>
               /\ process[p].found # <<>>
               /\ Head(process[p].found) \in Entries(setting.borrowers)
               /\ User(p) \in setting.borrowers /\ User(p) \in Users
<1>1. process[p] \in ProcessStates
  BY DEF BotTypeOK, ProcessTypeOK
<1>2. MemoryOf(p) \in Memories
  BY <1>1, BotAssumption DEF MemoryOf, ProcessStates
<1>3. ASSUME process[p].pc \notin {"idle", "batch"}
      PROVE  /\ process[p].found # <<>>
             /\ Head(process[p].found) \in Entries(setting.borrowers)
  <2>1. process[p].found # <<>>
    BY <1>3 DEF BotTypeOK, ProcessTypeOK
  <2>2. process[p].found \in Seq(Entries(setting.borrowers))
    BY <1>1 DEF ProcessStates, Entries
  <2> QED BY <2>1, <2>2
<1> QED BY <1>1, <1>2, <1>3, SettingTyped DEF User, Entries

(* The loop over the users found ends with them.                           *)
LEMMA NextUserTyped ==
  ASSUME BotTypeOK, UNCHANGED setting, NEW p \in Processes, SpendsSome,
         process[p].pc \notin {"idle", "batch"}, NextUser(p)
  PROVE  ProcessTypeOK'
<1> DEFINE found == process[p].found
           s == [process[p] EXCEPT !.found = Tail(found),
                                   !.pc = IF Len(found) = 1 THEN "batch" ELSE "user"]
<1>1. process[p] \in ProcessStates /\ found # <<>>
  BY StateTyped
<1>2. process' = [process EXCEPT ![p] = s]
  BY DEF NextUser
<1>3. /\ found \in Seq(Entries(setting.borrowers)) /\ Len(found) \in Nat
      /\ Tail(found) \in Seq(Entries(setting.borrowers))
      /\ Len(Tail(found)) = Len(found) - 1
  BY <1>1 DEF ProcessStates, Entries
<1>4. s \in ProcessStates
  BY <1>1, <1>3 DEF ProcessStates, Entries
<1>5. s.bot = process[p].bot /\ s.trial = process[p].trial /\ s.life = process[p].life
  BY <1>1 DEF ProcessStates
<1>6. s.pc \notin {"idle", "batch"} => s.found # <<>>
  <2>1. Tail(found) = <<>> => Len(found) = 1
    <3>1. Len(<<>>) = 0
      OBVIOUS
    <3> HIDE DEF found
    <3>2. Tail(found) = <<>> => Len(Tail(found)) = 0
      BY <3>1, Zenon
    <3> QED BY <1>3, <3>2
  <2>2. s.pc = (IF Len(found) = 1 THEN "batch" ELSE "user") /\ s.found = Tail(found)
    BY <1>1 DEF ProcessStates
  <2> QED BY <2>1, <2>2
<1> HIDE DEF s
<1> QED BY <1>2, <1>4, <1>5, <1>6, GoesOnTyped

(* A process that stays with its user, in another step.                    *)
LEMMA GotoTyped ==
  ASSUME BotTypeOK, UNCHANGED setting, NEW p \in Processes, SpendsSome,
         process[p].pc \notin {"idle", "batch"},
         NEW pc \in {"liquidate", "assemble", "send", "wait", "mined", "reverted"}, Goto(p, pc)
  PROVE  ProcessTypeOK'
<1> DEFINE s == [process[p] EXCEPT !.pc = pc]
<1>1. process[p] \in ProcessStates /\ process[p].found # <<>>
  BY StateTyped
<1>2. process' = [process EXCEPT ![p] = s]
  BY DEF Goto
<1>3. /\ s \in ProcessStates /\ s.bot = process[p].bot /\ s.trial = process[p].trial
      /\ s.life = process[p].life /\ s.found # <<>>
  BY <1>1 DEF ProcessStates
<1> HIDE DEF s
<1> QED BY <1>2, <1>3, GoesOnTyped

(* A process between two runs.                                             *)
LEMMA IdleTyped ==
  ASSUME NEW bot \in Bots, NEW trial \in Nat, NEW life \in Nat
  PROVE  /\ Idle(bot, trial, life) \in ProcessStates
         /\ Idle(bot, trial, life).bot = bot /\ Idle(bot, trial, life).trial = trial
         /\ Idle(bot, trial, life).life = life /\ Idle(bot, trial, life).pc = "idle"
         /\ Idle(bot, trial, life).found = <<>>
BY DEF Idle, ProcessStates

LEMMA BotsTyped ==
  ASSUME BotTypeOK, NEW p
  PROVE  BotsOf(p) \subseteq Bots /\ FirstBot(p) \in BotsOf(p)
BY SettingTyped DEF BotsOf, FirstBot, Bots, Scripts

(* Reporting a user.                                                       *)
LEMMA ReportTyped ==
  ASSUME BotTypeOK, NEW p \in Processes, process[p].pc \notin {"idle", "batch"},
         NEW success \in BOOLEAN, Report(p, success)
  PROVE  /\ report' \in [Users -> [factorOf : Users \cup {"nobody"}, success : BOOLEAN]]
         /\ report' = [report EXCEPT ![User(p)] =
                          [factorOf |-> Head(process[p].found).factorOf, success |-> success]]
<1>1. User(p) \in Users /\ Head(process[p].found).factorOf \in Users
  BY StateTyped, SettingTyped DEF Entries
<1> QED BY <1>1 DEF Report, BotTypeOK
(***************************************************************************)
(* Type correctness is inductive: each step keeps it.                      *)
(***************************************************************************)
LEMMA RunTyped ==
  ASSUME BotTypeOK, UNCHANGED setting, NEW p \in Processes, RunsAs(p)
  PROVE  BotTypeOK'
<1> DEFINE ReportsOK == [Users -> [factorOf : Users \cup {"nobody"}, success : BOOLEAN]]
           HealthOK == [Users -> {"healthy", "liquidatable"}]
<1>1. process[p] \in ProcessStates /\ MemoryOf(p) \in Memories
  BY StateTyped
<1>2. /\ MemoryTypeOK /\ setting' \in Settings /\ Liquidations' = Liquidations
      /\ faults \in Faults /\ health \in HealthOK /\ pending \subseteq Liquidations
      /\ report \in ReportsOK
  BY DEF BotTypeOK, Liquidations
<1>3. UNCHANGED memoryVars => MemoryTypeOK'
  BY <1>2 DEF MemoryTypeOK, memoryVars
<1>4. UNCHANGED faults => SpendsSome
  BY <1>2 DEF SpendsSome
<1> SUFFICES /\ MemoryTypeOK' /\ ProcessTypeOK' /\ faults' \in Faults /\ health' \in HealthOK
             /\ pending' \subseteq Liquidations /\ report' \in ReportsOK
  BY <1>2 DEF BotTypeOK
<1>5. CASE StartRun(p)
  <2>1. PICK order \in Shuffles(ToCheck(p)) : StartRunInOrder(p, order)
    BY <1>5 DEF StartRun
  <2> DEFINE s == [process[p] EXCEPT !.pc = "batch", !.batches = splitToBatches(order)]
  <2>2. MemoryTypeOK'
    BY <1>1, <1>2, <1>5, <2>1, IsIgnoredTyped DEF StartRun, CanStart, CannotStart, StartRunInOrder
  <2>3. splitToBatches(order) \in Seq(Seq(setting.borrowers))
    <3>1. ToCheck(p) \subseteq setting.borrowers /\ ToCheck(p) \in SUBSET Users
      BY SettingTyped DEF ToCheck
    <3>2. order \in Seq(setting.borrowers)
      BY <3>1, ShuffleOver, SeqWiden
    <3> QED BY <3>2, SettingTyped, BatchesOver
  <2>4. /\ s \in ProcessStates /\ s.bot = process[p].bot /\ s.trial = process[p].trial
        /\ s.life = process[p].life /\ s.pc = "batch"
    <3> HIDE DEF StartRun
    <3> QED BY <1>1, <2>3 DEF ProcessStates
  <2>5. process' = [process EXCEPT ![p] = s] /\ UNCHANGED <<health, pending, report, faults>>
    BY <2>1 DEF StartRunInOrder
  <2> HIDE DEF s
  <2>6. ProcessTypeOK'
    BY <1>4, <2>4, <2>5, GoesOnTyped
  <2> QED BY <1>2, <2>2, <2>5, <2>6
<1>6. CASE Stops(p)
  <2>1. PICK bot \in BotsOf(p), trial \in Nat :
          /\ trial < TrialLimit(bot)
          /\ process' = [process EXCEPT ![p] = Idle(bot, trial, process[p].life)]
    BY <1>6 DEF Stops
  <2>2. bot \in Bots /\ process[p].life \in Nat
    BY <1>1, BotsTyped DEF ProcessStates
  <2>3. SpendsSome /\ UNCHANGED <<memoryVars, health, pending, report>>
    BY <1>6 DEF Stops
  <2>4. /\ faults' \in Faults /\ faults'.crashes <= faults.crashes
        /\ process[p].life + faults'.crashes <= setting.faults.crashes
    BY <1>2, <2>3 DEF SpendsSome, Faults, BotTypeOK, ProcessTypeOK
  <2>5. ProcessTypeOK'
    <3> DEFINE s == Idle(bot, trial, process[p].life)
    <3>1. /\ s \in ProcessStates /\ s.bot = bot /\ s.trial = trial
          /\ s.life = process[p].life /\ s.pc = "idle"
      BY <2>2, IdleTyped
    <3>2. process' = [process EXCEPT ![p] = s] /\ s.bot \in BotsOf(p) /\ s.trial < TrialLimit(s.bot)
      BY <2>1, <3>1
    <3> HIDE DEF s
    <3> QED BY <2>4, <3>1, <3>2, ProcessTyped
  <2> QED BY <1>2, <1>3, <2>3, <2>4, <2>5
<1>7. CASE Reads(p)
  <2>1. PICK found \in Seq(Entries(setting.borrowers)) : NextBatch(p, found)
    BY <1>7 DEF Reads
  <2> DEFINE s == [process[p] EXCEPT !.batches = Tail(process[p].batches), !.found = found,
                                     !.pc = IF found = <<>> THEN "batch" ELSE "user"]
  <2>2. process' = [process EXCEPT ![p] = s]
    BY <2>1 DEF NextBatch
  <2>3. Tail(process[p].batches) \in Seq(Seq(setting.borrowers))
    <3>1. process[p].batches \in Seq(Seq(setting.borrowers)) /\ process[p].batches # <<>>
      BY <1>1, <1>7 DEF Reads, ProcessStates
    <3> QED BY <3>1, HeadTailProperties
  <2>4. /\ s \in ProcessStates /\ s.bot = process[p].bot /\ s.trial = process[p].trial
        /\ s.life = process[p].life
        /\ s.pc \notin {"idle", "batch"} => s.found # <<>>
    BY <1>1, <2>3 DEF ProcessStates, Entries
  <2>5. SpendsSome /\ UNCHANGED <<memoryVars, health, pending, report>>
    BY <1>7 DEF Reads
  <2> HIDE DEF s
  <2>6. ProcessTypeOK'
    BY <2>2, <2>4, <2>5, GoesOnTyped
  <2> QED BY <1>2, <1>3, <2>5, <2>6 DEF SpendsSome
<1>8. CASE Skips(p)
  <2>1. /\ put(MemoryOf(p), User(p)) /\ Report(p, FALSE) /\ NextUser(p)
        /\ UNCHANGED <<health, pending>> /\ SpendsSome
        /\ process[p].pc \notin {"idle", "batch"}
    BY <1>8 DEF Skips, Skip, Acting
  <2>2. MemoryTypeOK'
    BY <1>1, <1>2, <2>1, StateTyped, PutTyped
  <2>3. ProcessTypeOK'
    BY <2>1, NextUserTyped
  <2>4. report' \in ReportsOK
    BY <2>1, ReportTyped
  <2> QED BY <1>2, <2>1, <2>2, <2>3, <2>4 DEF SpendsSome
<1>9. CASE Proceeds(p)
  <2>1. ProcessTypeOK'
    BY <1>4, <1>9, GotoTyped DEF Proceeds, Acting
  <2> QED BY <1>2, <1>3, <1>9, <2>1 DEF Proceeds
<1>10. CASE Sends(p)
  <2>1. /\ process[p].pc \notin {"idle", "batch"}
        /\ pending' = pending \cup {[process |-> p, life |-> process[p].life, user |-> User(p)]}
        /\ Goto(p, "wait") /\ UNCHANGED <<memoryVars, health, report, faults>>
    BY <1>10 DEF Sends, Acting
  <2>2. ProcessTypeOK'
    BY <1>4, <2>1, GotoTyped
  <2>3. User(p) \in setting.borrowers /\ process[p].life \in Nat
    BY <1>1, <2>1, StateTyped DEF ProcessStates
  <2>4. pending' \subseteq Liquidations
    BY <1>2, <2>1, <2>3 DEF Liquidations
  <2> QED BY <1>2, <1>3, <2>1, <2>2, <2>4
<1>11. CASE Reports(p)
  <2>1. /\ Report(p, TRUE) /\ NextUser(p) /\ process[p].pc \notin {"idle", "batch"}
        /\ UNCHANGED <<memoryVars, health, pending, faults>>
    BY <1>11 DEF Reports
  <2>2. ProcessTypeOK'
    BY <1>4, <2>1, NextUserTyped
  <2>3. report' \in ReportsOK
    BY <2>1, ReportTyped
  <2> QED BY <1>2, <1>3, <2>1, <2>2, <2>3
<1> QED BY <1>5, <1>6, <1>7, <1>8, <1>9, <1>10, <1>11 DEF RunsAs
LEMMA CrashTyped ==
  ASSUME BotTypeOK, UNCHANGED setting, NEW p \in Processes, NEW torn \in BOOLEAN, Crash(p, torn)
  PROVE  BotTypeOK'
<1> DEFINE s == Idle(FirstBot(p), 0, process[p].life + 1)
<1>1. /\ faults.crashes > 0 /\ faults' = [faults EXCEPT !.crashes = @ - 1]
      /\ process' = [process EXCEPT ![p] = s]
      /\ ForgetAll({p} \X BotsOf(p), torn) /\ UNCHANGED <<health, pending, report>>
  BY DEF Crash
<1>2. faults' \in Faults /\ faults'.crashes = faults.crashes - 1 /\ faults.crashes \in Nat
  BY <1>1 DEF BotTypeOK, Faults
<1>3. /\ process[p].life \in Nat /\ process[p].life + faults.crashes <= setting.faults.crashes
      /\ setting.faults.crashes \in Nat
  BY SettingTyped, StateTyped DEF BotTypeOK, ProcessTypeOK, ProcessStates, Faults
<1>4. /\ s \in ProcessStates /\ s.bot = FirstBot(p) /\ s.trial = 0 /\ s.pc = "idle"
      /\ s.life = process[p].life + 1
  <2>1. FirstBot(p) \in Bots /\ process[p].life + 1 \in Nat /\ 0 \in Nat
    BY <1>3, BotsTyped
  <2> QED BY <2>1, IdleTyped
<1>5. s.bot \in BotsOf(p) /\ s.trial < TrialLimit(s.bot)
  BY <1>4, BotsTyped, BotAssumption DEF TrialLimit
<1> HIDE DEF s
<1>6. /\ faults'.crashes <= faults.crashes
      /\ s.life + faults'.crashes <= setting.faults.crashes
  BY <1>2, <1>3, <1>4
<1>7. ProcessTypeOK'
  BY <1>1, <1>2, <1>4, <1>5, <1>6, ProcessTyped
<1>8. MemoryTypeOK'
  BY <1>1, ForgetTyped DEF BotTypeOK
<1> QED BY <1>1, <1>2, <1>7, <1>8 DEF BotTypeOK, Liquidations

LEMMA MineTyped ==
  ASSUME BotTypeOK, UNCHANGED setting, NEW tx \in pending, Mine(tx)
  PROVE  BotTypeOK'
<1>1. tx.process \in Processes /\ tx.user \in Users
  BY SettingTyped DEF BotTypeOK, Liquidations
<1>2. PICK pc \in {"mined", "reverted"} : Hear(tx, pc)
  BY DEF Mine
<1>3. SpendsSome
  BY FaultSpends DEF Mine
<1>4. ProcessTypeOK'
  <2>1. CASE process[tx.process].pc = "wait" /\ process[tx.process].life = tx.life
    BY <1>1, <1>2, <1>3, <2>1, GotoTyped DEF Hear
  <2>2. CASE ~(process[tx.process].pc = "wait" /\ process[tx.process].life = tx.life)
    <3>1. process' = process /\ faults'.crashes = faults.crashes
      BY <1>2, <1>3, <2>2 DEF Hear, SpendsSome
    <3> QED BY <3>1 DEF BotTypeOK, ProcessTypeOK, ProcessStates, BotsOf
  <2> QED BY <2>1, <2>2
<1>5. /\ pending' \subseteq pending /\ health' \in [Users -> {"healthy", "liquidatable"}]
      /\ UNCHANGED <<memoryVars, report>>
  BY <1>1 DEF Mine, BotTypeOK
<1>6. MemoryTypeOK'
  BY <1>5 DEF BotTypeOK, MemoryTypeOK, memoryVars
<1> QED BY <1>3, <1>4, <1>5, <1>6 DEF BotTypeOK, Liquidations, SpendsSome

LEMMA MoveTyped ==
  ASSUME BotTypeOK, UNCHANGED setting, NEW u, Move(u)
  PROVE  BotTypeOK'
<1>1. SpendsSome
  BY DEF Move, BotTypeOK, Faults, SpendsSome
<1>2. health' \in [Users -> {"healthy", "liquidatable"}]
  BY DEF Move, BotTypeOK
<1>3. UNCHANGED <<memoryVars, pending, process, report>>
  BY DEF Move
<1>4. ProcessTypeOK'
  BY <1>1, <1>3 DEF BotTypeOK, ProcessTypeOK, ProcessStates, BotsOf, SpendsSome
<1>5. MemoryTypeOK'
  BY <1>3 DEF BotTypeOK, MemoryTypeOK, memoryVars
<1> QED BY <1>1, <1>2, <1>3, <1>4, <1>5 DEF BotTypeOK, Liquidations, SpendsSome

LEMMA TickTyped ==
  ASSUME BotTypeOK, UNCHANGED setting, Tick
  PROVE  BotTypeOK'
<1>1. MemoryTypeOK'
  BY MemoryTickTyped DEF Tick, BotTypeOK
<1>2. UNCHANGED botVars
  BY DEF Tick
<1> QED
  BY <1>1, <1>2 DEF BotTypeOK, ProcessTypeOK, ProcessStates, BotsOf, Liquidations, botVars

LEMMA InitTyped == Init => BotTypeOK
<1> SUFFICES ASSUME Init PROVE BotTypeOK
  OBVIOUS
<1>1. MemoryTypeOK
  BY IgnoreAssumption DEF Init, MemoryInit, MemoryTypeOK, NoFile, NoEntries, Absent, Standings
<1>2. setting \in Settings /\ setting.script \in Scripts /\ faults = setting.faults /\ faults \in Faults
  BY BotAssumption DEF Init
<1>3. ASSUME NEW p \in Processes
      PROVE  /\ process[p] = Idle(FirstBot(p), 0, 0)
             /\ FirstBot(p) \in BotsOf(p) /\ FirstBot(p) \in Bots /\ 0 < TrialLimit(FirstBot(p))
  BY <1>2, BotAssumption DEF Init, FirstBot, BotsOf, Bots, Scripts, TrialLimit
<1>4. ASSUME NEW p \in Processes
      PROVE  /\ process[p] \in ProcessStates /\ process[p].bot \in BotsOf(p)
             /\ process[p].trial < TrialLimit(process[p].bot)
             /\ process[p].life = 0 /\ process[p].pc = "idle"
  BY <1>3, IdleTyped
<1>5. process \in [Processes -> ProcessStates]
  BY <1>4 DEF Init
<1>6. ProcessTypeOK
  <2>1. faults.crashes \in Nat
    BY <1>2 DEF Faults
  <2> QED BY <1>2, <1>4, <1>5, <2>1 DEF ProcessTypeOK
<1> QED BY <1>1, <1>2, <1>6 DEF BotTypeOK, Init, NoReport

(* No step breaks a type.                                                  *)
LEMMA BotTypeInductive == BotTypeOK /\ [Next]_vars => BotTypeOK'
<1> SUFFICES ASSUME BotTypeOK, [Next]_vars PROVE BotTypeOK'
  OBVIOUS
<1>1. CASE Next
  <2>1. UNCHANGED setting
    BY <1>1 DEF Next
  <2>2. CASE \E p \in Processes : Run(p)
    BY <2>1, <2>2, RunSteps, RunTyped
  <2>3. CASE \E p \in Processes, torn \in BOOLEAN : Crash(p, torn)
    BY <2>1, <2>3, CrashTyped
  <2>4. CASE \E tx \in pending : Mine(tx)
    BY <2>1, <2>4, MineTyped
  <2>5. CASE \E u \in setting.borrowers : Move(u)
    BY <2>1, <2>5, MoveTyped
  <2>6. CASE Tick
    BY <2>1, <2>6, TickTyped
  <2> QED BY <1>1, <2>2, <2>3, <2>4, <2>5, <2>6 DEF Next
<1>2. CASE UNCHANGED vars
  BY <1>2 DEF vars, memoryVars, botVars, BotTypeOK, MemoryTypeOK, ProcessTypeOK, ProcessStates,
              BotsOf, Liquidations
<1> QED BY <1>1, <1>2

(* Everything the bots keep is always of its type: an entry outlives       *)
(* neither its instance's duration nor the file's, trials stay below the   *)
(* limits of the combo script, and a process in the middle of a user has   *)
(* one, for any users, processes, settings, durations and bounds.          *)
THEOREM BotsTypeCorrect == Spec => []BotTypeOK
BY InitTyped, BotTypeInductive, PTL DEF Spec
-----------------------------------------------------------------------------
(***************************************************************************)
(* One liquidation at a time.  OneAtATime is not inductive alone: a        *)
(* process that is killed starts a new life, whose number no liquidation   *)
(* may bear that was sent before.                                          *)
(***************************************************************************)
SentBefore == \A tx \in pending : tx.life <= process[tx.process].life

(* What a step of a process does to it, and to what it sent.               *)
LEMMA RunEffect ==
  ASSUME BotTypeOK, NEW p \in Processes, RunsAs(p)
  PROVE  /\ \A q \in Processes \ {p} : process'[q] = process[q]
         /\ process'[p].life = process[p].life
         /\ process[p].pc # "wait"
         /\ \/ pending' = pending
            \/ /\ pending' = pending \cup {[process |-> p, life |-> process[p].life,
                                            user |-> User(p)]}
               /\ process'[p].pc = "wait" /\ process'[p].found = process[p].found
<1>1. process \in [Processes -> ProcessStates] /\ process[p] \in ProcessStates
  BY StateTyped DEF BotTypeOK, ProcessTypeOK
<1>2. CASE StartRun(p)
  BY <1>1, <1>2 DEF StartRun, CanStart, StartRunInOrder, ProcessStates
<1>3. CASE Stops(p)
  BY <1>1, <1>3 DEF Stops, Idle, ProcessStates
<1>4. CASE Reads(p)
  BY <1>1, <1>4 DEF Reads, NextBatch, ProcessStates
<1>5. CASE Skips(p)
  BY <1>1, <1>5 DEF Skips, Skip, NextUser, Acting, ProcessStates
<1>6. CASE Proceeds(p)
  BY <1>1, <1>6 DEF Proceeds, Goto, Acting, ProcessStates
<1>7. CASE Sends(p)
  BY <1>1, <1>7 DEF Sends, Goto, Acting, ProcessStates
<1>8. CASE Reports(p)
  BY <1>1, <1>8 DEF Reports, NextUser, ProcessStates
<1> QED BY <1>2, <1>3, <1>4, <1>5, <1>6, <1>7, <1>8 DEF RunsAs

LEMMA RunKeepsOne ==
  ASSUME BotTypeOK, SentBefore, OneAtATime, NEW p \in Processes, RunsAs(p)
  PROVE  SentBefore' /\ OneAtATime'
<1> DEFINE tx0 == [process |-> p, life |-> process[p].life, user |-> User(p)]
<1>1. /\ \A q \in Processes \ {p} : process'[q] = process[q]
      /\ process'[p].life = process[p].life
      /\ process[p].pc # "wait"
      /\ \/ pending' = pending
         \/ /\ pending' = pending \cup {tx0}
            /\ process'[p].pc = "wait" /\ process'[p].found = process[p].found
  BY RunEffect
<1>2. pending \subseteq Liquidations /\ process[p].life \in Nat
  BY StateTyped DEF BotTypeOK, ProcessStates
<1>3. \A q \in Processes : process'[q].life = process[q].life
  BY <1>1
<1>4. SentBefore'
  BY <1>1, <1>2, <1>3 DEF SentBefore, Liquidations
<1>5. ASSUME NEW q \in Processes, q # p
      PROVE  InFlight(q)' = InFlight(q) /\ process'[q] = process[q] /\ User(q)' = User(q)
  BY <1>1, <1>5 DEF InFlight, User
<1>6. InFlight(p) = {}
  BY <1>1 DEF OneAtATime
<1>7. \/ InFlight(p)' = {}
      \/ /\ process'[p].pc = "wait"
         /\ InFlight(p)' = {[process |-> p, life |-> process'[p].life, user |-> User(p)']}
  <2>1. CASE pending' = pending
    BY <1>1, <1>6, <2>1 DEF InFlight
  <2>2. CASE /\ pending' = pending \cup {tx0}
             /\ process'[p].pc = "wait" /\ process'[p].found = process[p].found
    <3>1. InFlight(p)' = {tx0}
      BY <1>1, <1>6, <2>2 DEF InFlight
    <3>2. User(p)' = User(p)
      BY <2>2 DEF User
    <3> QED BY <1>1, <2>2, <3>1, <3>2
  <2> QED BY <1>1, <2>1, <2>2
<1>8. OneAtATime'
  BY <1>5, <1>7 DEF OneAtATime
<1> QED BY <1>4, <1>8

LEMMA CrashKeepsOne ==
  ASSUME BotTypeOK, SentBefore, OneAtATime, NEW p \in Processes, NEW torn, Crash(p, torn)
  PROVE  SentBefore' /\ OneAtATime'
<1>1. /\ process' = [process EXCEPT ![p] = Idle(FirstBot(p), 0, process[p].life + 1)]
      /\ pending' = pending
  BY DEF Crash
<1>2. /\ \A q \in Processes \ {p} : process'[q] = process[q]
      /\ process'[p].life = process[p].life + 1
  BY <1>1 DEF BotTypeOK, ProcessTypeOK, Idle
<1>3. \A q \in Processes : process[q].life \in Nat
  BY StateTyped DEF ProcessStates
<1>4. pending \subseteq Liquidations
  BY DEF BotTypeOK
<1>5. SentBefore'
  BY <1>1, <1>2, <1>3, <1>4 DEF SentBefore, Liquidations
<1>6. InFlight(p)' = {}
  BY <1>1, <1>2, <1>3, <1>4 DEF SentBefore, InFlight, Liquidations
<1>7. ASSUME NEW q \in Processes, q # p
      PROVE  InFlight(q)' = InFlight(q) /\ process'[q] = process[q] /\ User(q)' = User(q)
  BY <1>1, <1>2, <1>7 DEF InFlight, User
<1> QED BY <1>5, <1>6, <1>7 DEF OneAtATime

(* What a mined liquidation does to the process that waits for it.         *)
LEMMA MineEffect ==
  ASSUME BotTypeOK, NEW tx \in pending, Mine(tx)
  PROVE  /\ tx.process \in Processes /\ pending' = pending \ {tx}
         /\ \A q \in Processes \ {tx.process} : process'[q] = process[q]
         /\ \/ process' = process
            \/ /\ process[tx.process].pc = "wait" /\ process[tx.process].life = tx.life
               /\ process'[tx.process].pc \in {"mined", "reverted"}
               /\ process'[tx.process].life = process[tx.process].life
               /\ process'[tx.process].bot = process[tx.process].bot
               /\ process'[tx.process].found = process[tx.process].found
<1>1. tx.process \in Processes /\ pending' = pending \ {tx}
  BY DEF BotTypeOK, Liquidations, Mine
<1>2. PICK pc \in {"mined", "reverted"} : Hear(tx, pc)
  BY DEF Mine
<1>3. process \in [Processes -> ProcessStates] /\ process[tx.process] \in ProcessStates
  BY <1>1, StateTyped DEF BotTypeOK, ProcessTypeOK
<1>4. CASE process[tx.process].pc = "wait" /\ process[tx.process].life = tx.life
  <2>1. process' = [process EXCEPT ![tx.process].pc = pc]
    BY <1>2, <1>4 DEF Hear, Goto
  <2>2. process'[tx.process] = [process[tx.process] EXCEPT !.pc = pc]
    BY <1>1, <1>3, <2>1
  <2>3. \A q \in Processes \ {tx.process} : process'[q] = process[q]
    BY <1>3, <2>1
  <2> QED BY <1>1, <1>3, <1>4, <2>2, <2>3 DEF ProcessStates
<1>5. CASE ~(process[tx.process].pc = "wait" /\ process[tx.process].life = tx.life)
  BY <1>1, <1>2, <1>5 DEF Hear
<1> QED BY <1>4, <1>5

LEMMA MineKeepsOne ==
  ASSUME BotTypeOK, SentBefore, OneAtATime, NEW tx \in pending, Mine(tx)
  PROVE  SentBefore' /\ OneAtATime'
<1>1. tx.process \in Processes /\ pending' = pending \ {tx}
  BY MineEffect
<1>2. /\ \A q \in Processes \ {tx.process} : process'[q] = process[q]
      /\ process'[tx.process].life = process[tx.process].life
      /\ process'[tx.process].found = process[tx.process].found
      /\ tx.life # process[tx.process].life => process' = process
  BY MineEffect
<1>3. \A q \in Processes : process'[q].life = process[q].life /\ User(q)' = User(q)
  BY <1>1, <1>2 DEF User
<1>4. SentBefore'
  BY <1>1, <1>3 DEF SentBefore, BotTypeOK, Liquidations
<1>5. ASSUME NEW q \in Processes
      PROVE  \/ InFlight(q)' = {}
             \/ /\ process'[q].pc = "wait"
                /\ InFlight(q)' = {[process |-> q, life |-> process'[q].life, user |-> User(q)']}
  <2>1. CASE tx \in InFlight(q)
    <3>1. InFlight(q) = {tx}
      BY <2>1 DEF OneAtATime
    <3> QED BY <1>1, <1>3, <3>1 DEF InFlight
  <2>2. CASE tx \notin InFlight(q)
    <3>1. InFlight(q)' = InFlight(q)
      BY <1>1, <1>3, <2>2 DEF InFlight
    <3>2. process'[q] = process[q]
      BY <1>1, <1>2, <2>2 DEF InFlight
    <3> QED BY <1>3, <3>1, <3>2 DEF OneAtATime
  <2> QED BY <2>1, <2>2
<1> QED BY <1>4, <1>5 DEF OneAtATime

(* A process has at most one liquidation in flight in its life, and waits  *)
(* for it, however often processes are killed and started again and        *)
(* whatever becomes of the transactions of their earlier lives.            *)
THEOREM OneLiquidationAtATime == Spec => []OneAtATime
<1> DEFINE Inv == BotTypeOK /\ SentBefore /\ OneAtATime
<1>1. Init => Inv
  BY InitTyped DEF Init, SentBefore, OneAtATime, InFlight
<1>2. Inv /\ [Next]_vars => Inv'
  <2> SUFFICES ASSUME Inv, [Next]_vars PROVE Inv'
    OBVIOUS
  <2>1. BotTypeOK'
    BY BotTypeInductive
  <2>2. CASE \E p \in Processes : Run(p)
    BY <2>1, <2>2, RunSteps, RunKeepsOne
  <2>3. CASE \E p \in Processes, torn \in BOOLEAN : Crash(p, torn)
    BY <2>1, <2>3, CrashKeepsOne
  <2>4. CASE \E tx \in pending : Mine(tx)
    BY <2>1, <2>4, MineKeepsOne
  <2>5. CASE UNCHANGED <<pending, process>>
    BY <2>1, <2>5 DEF SentBefore, OneAtATime, InFlight, User
  <2> QED BY <2>2, <2>3, <2>4, <2>5 DEF Next, Move, Tick, botVars, vars
<1> QED BY <1>1, <1>2, PTL DEF Spec
-----------------------------------------------------------------------------
(***************************************************************************)
(* The UniswapV3 bot's own factors: what it saves for a user comes from    *)
(* the entries it has found, in which users go with their own factors.     *)
(***************************************************************************)
JudgedByOwn ==
  setting.script = "uniswap" => \A p \in Processes : Owned(process[p].found)

OwnReports == \A u \in Users : report[u].factorOf \in {"nobody", u}

LEMMA OwnedTail ==
  ASSUME NEW S, NEW found \in Seq(S), found # <<>>, Owned(found)
  PROVE  Owned(Tail(found)) /\ Head(found).factorOf = Head(found).user
<1>1. /\ Len(found) \in Nat /\ Len(found) >= 1 /\ Head(found) = found[1]
      /\ DOMAIN found = 1..Len(found)
  OBVIOUS
<1>2. /\ Tail(found) \in Seq(S) /\ Len(Tail(found)) = Len(found) - 1
      /\ \A i \in 1..Len(Tail(found)) : Tail(found)[i] = found[i + 1]
  BY HeadTailProperties
<1>3. DOMAIN Tail(found) = 1..Len(Tail(found))
  BY <1>2
<1>4. \A k \in 1..(Len(found) - 1) : k + 1 \in 1..Len(found)
  BY <1>1
<1> QED BY <1>1, <1>2, <1>3, <1>4 DEF Owned

LEMMA NextUserOwn ==
  ASSUME BotTypeOK, NEW p \in Processes, process[p].pc \notin {"idle", "batch"},
         NEW success \in BOOLEAN, Report(p, success), NextUser(p),
         \A q \in Processes : Owned(process[q].found), OwnReports
  PROVE  (\A q \in Processes : Owned(process'[q].found)) /\ OwnReports'
<1>1. /\ process[p] \in ProcessStates /\ process[p].found # <<>>
      /\ process \in [Processes -> ProcessStates] /\ User(p) \in Users
  BY StateTyped DEF BotTypeOK, ProcessTypeOK
<1>2. process[p].found \in Seq(Entries(setting.borrowers))
  BY <1>1 DEF ProcessStates, Entries
<1>3. Owned(Tail(process[p].found)) /\ Head(process[p].found).factorOf = User(p)
  BY <1>1, <1>2, OwnedTail DEF User
<1>4. /\ process'[p].found = Tail(process[p].found)
      /\ \A q \in Processes \ {p} : process'[q] = process[q]
  BY <1>1 DEF NextUser, ProcessStates
<1>5. report' = [report EXCEPT ![User(p)] =
                    [factorOf |-> Head(process[p].found).factorOf, success |-> success]]
  BY ReportTyped
<1>6. OwnReports'
  BY <1>3, <1>5 DEF OwnReports, BotTypeOK
<1> QED BY <1>3, <1>4, <1>6

LEMMA RunKeepsOwn ==
  ASSUME BotTypeOK, setting.script = "uniswap", NEW p \in Processes, RunsAs(p),
         \A q \in Processes : Owned(process[q].found), OwnReports
  PROVE  (\A q \in Processes : Owned(process'[q].found)) /\ OwnReports'
<1>1. process \in [Processes -> ProcessStates] /\ process[p] \in ProcessStates
  BY StateTyped DEF BotTypeOK, ProcessTypeOK
<1>2. \A q \in Processes \ {p} : process'[q] = process[q]
  BY RunEffect
<1>3. ASSUME UNCHANGED report, Owned(process'[p].found)
      PROVE  (\A q \in Processes : Owned(process'[q].found)) /\ OwnReports'
  BY <1>2, <1>3 DEF OwnReports
<1>4. CASE StartRun(p)
  <2>1. report' = report /\ process'[p].found = process[p].found
    BY <1>1, <1>4 DEF StartRun, StartRunInOrder, ProcessStates
  <2> QED BY <1>3, <2>1
<1>5. CASE Stops(p)
  <2>1. report' = report /\ process'[p].found = <<>>
    BY <1>1, <1>5 DEF Stops, Idle
  <2> QED BY <1>3, <2>1 DEF Owned
<1>6. CASE Reads(p)
  <2>1. PICK found \in Seq(Entries(setting.borrowers)) : NextBatch(p, found) /\ Owned(found)
    BY <1>6 DEF Reads
  <2>2. report' = report /\ process'[p].found = found
    BY <1>1, <1>6, <2>1 DEF Reads, NextBatch, ProcessStates
  <2> QED BY <1>3, <2>1, <2>2
<1>7. CASE Skips(p) \/ Reports(p)
  <2>1. process[p].pc \notin {"idle", "batch"} /\ NextUser(p) /\ \E s \in BOOLEAN : Report(p, s)
    BY <1>7 DEF Skips, Skip, Reports, Acting
  <2> QED BY <2>1, NextUserOwn
<1>8. CASE Proceeds(p) \/ Sends(p)
  <2>1. report' = report /\ process'[p].found = process[p].found
    BY <1>1, <1>8 DEF Proceeds, Sends, Goto, ProcessStates
  <2> QED BY <1>3, <2>1
<1> QED BY <1>4, <1>5, <1>6, <1>7, <1>8 DEF RunsAs

(* What the UniswapV3 bot saves of a user is the user's own health factor, *)
(* whichever reads fail, in whatever batches and after whatever restarts.  *)
THEOREM UniswapJudgesByOwnFactor == Spec => []OwnFactor
<1> DEFINE Inv == BotTypeOK /\ JudgedByOwn /\ OwnFactor
<1>1. Init => Inv
  BY InitTyped DEF Init, JudgedByOwn, OwnFactor, Owned, Idle, NoReport
<1>2. Inv /\ [Next]_vars => Inv'
  <2> SUFFICES ASSUME Inv, [Next]_vars PROVE Inv'
    OBVIOUS
  <2>1. BotTypeOK' /\ UNCHANGED setting
    BY BotTypeInductive DEF Next, vars
  <2> SUFFICES ASSUME setting.script = "uniswap"
               PROVE  (\A p \in Processes : Owned(process'[p].found)) /\ OwnReports'
    BY <2>1 DEF JudgedByOwn, OwnFactor, OwnReports
  <2>2. (\A p \in Processes : Owned(process[p].found)) /\ OwnReports
    BY DEF JudgedByOwn, OwnFactor, OwnReports
  <2>3. CASE \E p \in Processes : Run(p)
    BY <2>2, <2>3, RunSteps, RunKeepsOwn
  <2>4. ASSUME UNCHANGED report,
               \A p \in Processes : process'[p].found \in {process[p].found, <<>>}
        PROVE  (\A p \in Processes : Owned(process'[p].found)) /\ OwnReports'
    BY <2>2, <2>4 DEF Owned, OwnReports
  <2>5. CASE \E p \in Processes, torn \in BOOLEAN : Crash(p, torn)
    <3>1. PICK p \in Processes, torn \in BOOLEAN : Crash(p, torn)
      BY <2>5
    <3>2. UNCHANGED report /\ \A q \in Processes : process'[q].found \in {process[q].found, <<>>}
      BY <3>1 DEF Crash, Idle, BotTypeOK, ProcessTypeOK
    <3> QED BY <2>4, <3>2
  <2>6. CASE \E tx \in pending : Mine(tx)
    <3>1. PICK tx \in pending : Mine(tx)
      BY <2>6
    <3>2. \A q \in Processes : process'[q].found = process[q].found
      BY <3>1, MineEffect
    <3> QED BY <2>4, <3>1, <3>2 DEF Mine
  <2>7. CASE UNCHANGED <<report, process>>
    BY <2>4, <2>7
  <2> QED BY <2>3, <2>5, <2>6, <2>7 DEF Next, Move, Tick, botVars, vars
<1> QED BY <1>1, <1>2, PTL DEF Spec
-----------------------------------------------------------------------------
(***************************************************************************)
(* The quiet after a user was ignored.  All instances write the one file   *)
(* whole, so that what one of them saved is gone when another dumps its    *)
(* map; until its process dies, the instance still has it.                 *)
(***************************************************************************)

(* A promise that is not lost is in the map of its instance once that is   *)
(* loaded, before that the file has it; and a saved promise is in the file *)
(* unless a process died writing it.                                       *)
Kept(m, u) ==
  /\ isInitialized[m] => memory[m][u] >= promised[m][u]
  /\ ~isInitialized[m] => standing[m][u] = "saved"
  /\ standing[m][u] = "saved" =>
        /\ file.state # "missing"
        /\ file.state = "saved" => file.memory[u] >= promised[m][u]

Remembered ==
  \A m \in Memories, u \in Users :
     promised[m][u] > 0 /\ standing[m][u] # "lost" => Kept(m, u)

(* The instance of a bot which runs is loaded.                             *)
Loaded == \A p \in Processes : process[p].pc # "idle" => isInitialized[MemoryOf(p)]

MemoryInv == BotTypeOK /\ Remembered /\ Loaded

(* What an instance promised is known to it when it looks for users.       *)
LEMMA PromisedIsIgnored ==
  ASSUME BotTypeOK, Remembered, NEW m \in Memories, NEW u \in Users,
         ~initializeThrows(m), promised[m][u] > 0, standing[m][u] # "lost"
  PROVE  initialized(m)[u] >= promised[m][u] /\ initialized(m)[u] > 0
<1>1. promised[m][u] \in Nat /\ initialized(m)[u] \in Int
  BY InitializedTyped DEF BotTypeOK, MemoryTypeOK
<1>2. Kept(m, u)
  BY DEF Remembered
<1>3. file.state \in {"missing", "torn", "saved"}
  BY DEF BotTypeOK, MemoryTypeOK
<1>4. initialized(m)[u] >= promised[m][u]
  BY <1>2, <1>3 DEF Kept, initialized, initializeThrows
<1> QED BY <1>1, <1>4

(* What a dump of one instance leaves of the promises of another: those of *)
(* a loaded instance are in its map, those of any other are lost.          *)
LEMMA OthersAfterDump ==
  ASSUME BotTypeOK, Remembered, NEW m \in Memories, NEW n \in Memories, n # m, NEW u \in Users,
         promised[n][u] > 0, AfterDump(m)[n][u] # "lost"
  PROVE  /\ isInitialized[n] /\ memory[n][u] >= promised[n][u]
         /\ AfterDump(m)[n][u] = "unsaved"
<1>1. standing[n][u] # "lost" /\ isInitialized[n] /\ AfterDump(m)[n][u] = "unsaved"
  BY DEF AfterDump
<1> QED BY <1>1 DEF Remembered, Kept

(* Any dump of a loaded instance whose map has its promises keeps them all.*)
LEMMA DumpRemembers ==
  ASSUME BotTypeOK, Remembered, NEW m \in Memories, NEW entries, file' = Dumped(m, entries),
         memory' = [memory EXCEPT ![m] = entries],
         isInitialized'[m], \A n \in Memories \ {m} : isInitialized'[n] = isInitialized[n],
         \A n \in Memories \ {m} : promised'[n] = promised[n] /\ standing'[n] = AfterDump(m)[n],
         \A u \in Users : promised'[m][u] > 0 /\ standing'[m][u] # "lost" =>
                             entries[u] >= promised'[m][u]
  PROVE  Remembered'
<1>1. memory'[m] = entries /\ \A n \in Memories \ {m} : memory'[n] = memory[n]
  BY DEF BotTypeOK, MemoryTypeOK
<1>2. file'.state = "saved" /\ file'.memory = entries
  BY DEF Dumped
<1>3. ASSUME NEW n \in Memories, NEW u \in Users, promised'[n][u] > 0, standing'[n][u] # "lost"
      PROVE  Kept(n, u)'
  <2>1. CASE n = m
    BY <1>1, <1>2, <1>3, <2>1 DEF Kept
  <2>2. CASE n # m
    <3>1. promised[n][u] > 0 /\ AfterDump(m)[n][u] # "lost"
      BY <1>3, <2>2
    <3>2. isInitialized[n] /\ memory[n][u] >= promised[n][u] /\ AfterDump(m)[n][u] = "unsaved"
      BY <2>2, <3>1, OthersAfterDump
    <3> QED BY <1>1, <2>2, <3>2 DEF Kept
  <2> QED BY <2>1, <2>2
<1> QED BY <1>3 DEF Remembered

(* put keeps the promises.                                                 *)
LEMMA PutRemembers ==
  ASSUME BotTypeOK, Remembered,
         NEW m \in Memories, isInitialized[m], NEW u \in Users, put(m, u)
  PROVE  Remembered'
<1> DEFINE entries == [memory[m] EXCEPT ![u] = IgnoreDuration[m]]
<1>1. MemoryTypeOK /\ IgnoreDuration[m] \in Nat
  BY IgnoreAssumption DEF BotTypeOK
<1>2. /\ memory' = [memory EXCEPT ![m] = entries]
      /\ file' = Dumped(m, entries) /\ isInitialized' = isInitialized
      /\ promised' = [promised EXCEPT ![m][u] = IgnoreDuration[m]]
      /\ standing' = [AfterDump(m) EXCEPT ![m][u] = "saved"]
  BY DEF put
<1>3. \A n \in Memories \ {m} : promised'[n] = promised[n] /\ standing'[n] = AfterDump(m)[n]
  BY <1>1, <1>2, AfterDumpTyped DEF MemoryTypeOK
<1>4. ASSUME NEW w \in Users, promised'[m][w] > 0, standing'[m][w] # "lost"
      PROVE  entries[w] >= promised'[m][w]
  <2>1. CASE w = u
    BY <1>1, <1>2, <2>1 DEF MemoryTypeOK
  <2>2. CASE w # u
    <3>1. /\ promised'[m][w] = promised[m][w] /\ entries[w] = memory[m][w]
          /\ standing'[m][w] = AfterDump(m)[m][w]
      BY <1>1, <1>2, <2>2, AfterDumpTyped DEF MemoryTypeOK
    <3>2. standing[m][w] # "lost"
      BY <1>4, <3>1 DEF AfterDump
    <3> QED BY <1>4, <3>1, <3>2 DEF Remembered, Kept
  <2> QED BY <2>1, <2>2
<1> HIDE DEF entries
<1> QED BY <1>2, <1>3, <1>4, DumpRemembers

(* So does isIgnored, which loads the map and deletes what has expired.    *)
LEMMA IsIgnoredRemembers ==
  ASSUME BotTypeOK, Remembered, NEW m \in Memories, ~initializeThrows(m), isIgnoredOfAll(m)
  PROVE  Remembered'
<1> DEFINE before == initialized(m)
           after == [u \in Users |-> IF before[u] = 0 THEN Absent ELSE before[u]]
<1>1. MemoryTypeOK
  BY DEF BotTypeOK
<1>2. /\ memory' = [memory EXCEPT ![m] = after]
      /\ isInitialized' = [isInitialized EXCEPT ![m] = TRUE]
      /\ file' = IF after = before THEN file ELSE Dumped(m, after)
      /\ standing' = IF after = before THEN standing ELSE AfterDump(m)
      /\ promised' = promised
  BY DEF isIgnoredOfAll
<1>3. ASSUME NEW u \in Users, promised[m][u] > 0, standing[m][u] # "lost"
      PROVE  after[u] >= promised[m][u]
  <2>1. before[u] >= promised[m][u] /\ before[u] > 0
    BY <1>3, PromisedIsIgnored
  <2> HIDE DEF before
  <2>2. after[u] = before[u]
    <3>1. before[u] # 0
      BY <2>1
    <3> QED BY <3>1
  <2> QED BY <2>1, <2>2
<1>4. isInitialized'[m] /\ \A n \in Memories \ {m} : isInitialized'[n] = isInitialized[n]
  BY <1>1, <1>2 DEF MemoryTypeOK
<1> HIDE DEF after, before
<1>5. CASE after = before
  <2>1. memory'[m] = after /\ \A n \in Memories \ {m} : memory'[n] = memory[n]
    BY <1>1, <1>2 DEF MemoryTypeOK
  <2>2. ASSUME NEW n \in Memories, NEW u \in Users, promised'[n][u] > 0, standing'[n][u] # "lost"
        PROVE  Kept(n, u)'
    <3>1. /\ promised' = promised /\ standing' = standing /\ file' = file
          /\ promised[n][u] > 0 /\ standing[n][u] # "lost" /\ Kept(n, u)
      BY <1>2, <1>5, <2>2 DEF Remembered
    <3>2. CASE n = m
      BY <1>3, <1>4, <2>1, <3>1, <3>2 DEF Kept
    <3>3. CASE n # m
      BY <1>4, <2>1, <3>1, <3>3 DEF Kept
    <3> QED BY <3>2, <3>3
  <2> QED BY <2>2 DEF Remembered
<1>6. CASE after # before
  <2>1. file' = Dumped(m, after) /\ standing' = AfterDump(m) /\ promised' = promised
    BY <1>2, <1>6
  <2>2. ASSUME NEW u \in Users, promised'[m][u] > 0, standing'[m][u] # "lost"
        PROVE  after[u] >= promised'[m][u]
    <3>1. promised[m][u] > 0 /\ standing[m][u] # "lost"
      BY <2>1, <2>2 DEF AfterDump
    <3> QED BY <1>3, <2>1, <3>1
  <2> QED BY <1>2, <1>4, <2>1, <2>2, DumpRemembers
<1> QED BY <1>5, <1>6

(* Time passes for a promise and for the entry that keeps it alike.        *)
LEMMA TickRemembers ==
  ASSUME BotTypeOK, Remembered, MemoryTick
  PROVE  Remembered'
<1>1. \A t \in Nat : Passed(t) > 0 => t > 1
  BY DEF Passed
<1>2. \A t \in Nat, e \in Int : Passed(t) > 0 /\ e >= t => Passed(e) >= Passed(t)
  BY DEF Passed
<1>3. \A m \in Memories, u \in Users :
        /\ promised[m][u] \in Nat /\ memory[m][u] \in Int /\ file.memory[u] \in Int
        /\ promised'[m][u] = Passed(promised[m][u]) /\ memory'[m][u] = Passed(memory[m][u])
        /\ file'.memory[u] = Passed(file.memory[u])
        /\ standing'[m][u] = IF promised[m][u] <= 1 THEN "saved" ELSE standing[m][u]
  BY DEF MemoryTick, BotTypeOK, MemoryTypeOK
<1>4. file'.state = file.state /\ isInitialized' = isInitialized
  BY DEF MemoryTick, BotTypeOK, MemoryTypeOK
<1>5. ASSUME NEW m \in Memories, NEW u \in Users, promised'[m][u] > 0, standing'[m][u] # "lost"
      PROVE  Kept(m, u)'
  <2>1. promised[m][u] > 1 /\ Passed(promised[m][u]) > 0
    BY <1>1, <1>3, <1>5
  <2>2. standing'[m][u] = standing[m][u] /\ promised[m][u] > 0
    BY <1>3, <2>1
  <2>3. Kept(m, u)
    BY <1>5, <2>2 DEF Remembered
  <2> QED BY <1>2, <1>3, <1>4, <2>1, <2>2, <2>3 DEF Kept
<1> QED BY <1>5 DEF Remembered

(* A process that dies forgets what it had not saved.                      *)
LEMMA ForgetRemembers ==
  ASSUME BotTypeOK, Remembered, NEW lost, NEW torn, ForgetAll(lost, torn)
  PROVE  Remembered'
<1>1. /\ promised' = promised /\ file' = IF torn THEN TornFile ELSE file
      /\ \A m \in Memories :
            /\ isInitialized'[m] = IF m \in lost THEN FALSE ELSE isInitialized[m]
            /\ m \notin lost => memory'[m] = memory[m]
            /\ \A u \in Users :
                 standing'[m][u] = IF m \in lost /\ standing[m][u] = "unsaved" THEN "lost"
                                   ELSE standing[m][u]
  BY DEF ForgetAll
<1>2. ASSUME NEW m \in Memories, NEW u \in Users, promised'[m][u] > 0, standing'[m][u] # "lost"
      PROVE  Kept(m, u)'
  <2>1. standing[m][u] \in Standings
    BY DEF BotTypeOK, MemoryTypeOK
  <2>2. standing'[m][u] = standing[m][u] /\ (m \in lost => standing[m][u] = "saved")
    BY <1>1, <1>2, <2>1 DEF Standings
  <2>3. Kept(m, u)
    BY <1>1, <1>2, <2>2 DEF Remembered
  <2>4. /\ file'.state # "missing" \/ file' = file
        /\ file'.state = "saved" => file' = file
    BY <1>1 DEF TornFile
  <2> QED BY <1>1, <2>2, <2>3, <2>4 DEF Kept
<1> QED BY <1>2 DEF Remembered

(* The steps of a process and its instance: only a start loads it, only an *)
(* ignored user changes it, and only a start leaves the wait between runs. *)
LEMMA RunLoads ==
  ASSUME BotTypeOK, NEW p \in Processes, RunsAs(p)
  PROVE  \/ StartRun(p)
         \/ /\ UNCHANGED memoryVars
            /\ process'[p].pc = "idle" \/ (process[p].pc # "idle" /\ process'[p].bot = process[p].bot)
         \/ /\ Skips(p)
            /\ process[p].pc # "idle" /\ process'[p].bot = process[p].bot
<1>1. process \in [Processes -> ProcessStates] /\ process[p] \in ProcessStates
  BY StateTyped DEF BotTypeOK, ProcessTypeOK
<1>2. CASE Stops(p)
  BY <1>1, <1>2 DEF Stops, Idle
<1>3. CASE Reads(p)
  BY <1>1, <1>3 DEF Reads, NextBatch, ProcessStates
<1>4. CASE Skips(p)
  BY <1>1, <1>4 DEF Skips, Skip, NextUser, Acting, ProcessStates
<1>5. CASE Proceeds(p)
  BY <1>1, <1>5 DEF Proceeds, Goto, Acting, ProcessStates
<1>6. CASE Sends(p)
  BY <1>1, <1>6 DEF Sends, Goto, Acting, ProcessStates
<1>7. CASE Reports(p)
  BY <1>1, <1>7 DEF Reports, NextUser, ProcessStates
<1> QED BY <1>2, <1>3, <1>4, <1>5, <1>6, <1>7 DEF RunsAs

LEMMA StartEffect ==
  ASSUME BotTypeOK, NEW p \in Processes, StartRun(p)
  PROVE  /\ process[p].pc = "idle" /\ ~initializeThrows(MemoryOf(p))
         /\ isIgnoredOfAll(MemoryOf(p))
         /\ process'[p].bot = process[p].bot
         /\ \E order \in Shuffles(ToCheck(p)) : process'[p].batches = splitToBatches(order)
<1>1. process \in [Processes -> ProcessStates]
  BY DEF BotTypeOK, ProcessTypeOK
<1>2. process[p].pc = "idle" /\ ~initializeThrows(MemoryOf(p)) /\ isIgnoredOfAll(MemoryOf(p))
  BY DEF StartRun, CanStart, CannotStart, StartRunInOrder
<1>3. PICK order \in Shuffles(ToCheck(p)) :
        process' = [process EXCEPT ![p].pc = "batch", ![p].batches = splitToBatches(order)]
  BY DEF StartRun, StartRunInOrder
<1>4. process'[p].bot = process[p].bot /\ process'[p].batches = splitToBatches(order)
  BY <1>1, <1>3 DEF ProcessStates
<1> QED BY <1>2, <1>4

LEMMA RunRemembers ==
  ASSUME MemoryInv, NEW p \in Processes, RunsAs(p)
  PROVE  Remembered' /\ Loaded'
<1> DEFINE m == MemoryOf(p)
<1>1. BotTypeOK /\ Remembered /\ Loaded /\ MemoryTypeOK /\ m \in Memories
  BY StateTyped DEF MemoryInv, BotTypeOK
<1>2. \A q \in Processes \ {p} : process'[q] = process[q]
  BY <1>1, RunEffect
<1>3. ASSUME process'[p].pc # "idle" => isInitialized'[MemoryOf(p)'],
             \A n \in Memories : isInitialized[n] => isInitialized'[n]
      PROVE  Loaded'
  <2>1. \A q \in Processes \ {p} : MemoryOf(q)' = MemoryOf(q) /\ MemoryOf(q) \in Memories
    BY <1>1, <1>2, StateTyped DEF MemoryOf
  <2> QED BY <1>1, <1>2, <1>3, <2>1 DEF Loaded
<1>4. process'[p].bot = process[p].bot => MemoryOf(p)' = m
  BY DEF MemoryOf
<1>5. CASE StartRun(p)
  <2>1. ~initializeThrows(m) /\ isIgnoredOfAll(m) /\ process'[p].bot = process[p].bot
    BY <1>1, <1>5, StartEffect
  <2>2. isInitialized' = [isInitialized EXCEPT ![m] = TRUE]
    BY <2>1 DEF isIgnoredOfAll
  <2> HIDE DEF m
  <2>3. Remembered'
    BY <1>1, <2>1, IsIgnoredRemembers
  <2>4. Loaded'
    BY <1>1, <1>3, <1>4, <2>1, <2>2 DEF MemoryTypeOK
  <2> QED BY <2>3, <2>4
<1>6. CASE /\ UNCHANGED memoryVars
           /\ process'[p].pc = "idle" \/ (process[p].pc # "idle" /\ process'[p].bot = process[p].bot)
  <2>1. Remembered'
    BY <1>1, <1>6 DEF Remembered, Kept, memoryVars
  <2>2. Loaded'
    BY <1>1, <1>3, <1>4, <1>6 DEF Loaded, memoryVars
  <2> QED BY <2>1, <2>2
<1>7. CASE Skips(p) /\ process[p].pc # "idle" /\ process'[p].bot = process[p].bot
  <2>1. isInitialized[m]
    BY <1>1, <1>7 DEF Loaded
  <2>2. User(p) \in Users /\ put(m, User(p)) /\ isInitialized' = isInitialized
    BY <1>1, <1>7, StateTyped DEF Skips, Skip, Acting, put
  <2> HIDE DEF m
  <2>3. Remembered'
    BY <1>1, <2>1, <2>2, PutRemembers
  <2>4. Loaded'
    BY <1>3, <1>4, <1>7, <2>1, <2>2
  <2> QED BY <2>3, <2>4
<1> QED BY <1>1, <1>5, <1>6, <1>7, RunLoads

LEMMA CrashRemembers ==
  ASSUME MemoryInv, UNCHANGED setting, NEW p \in Processes, NEW torn \in BOOLEAN, Crash(p, torn)
  PROVE  Remembered' /\ Loaded'
<1>1. BotTypeOK /\ Remembered /\ Loaded
  BY DEF MemoryInv
<1>2. Remembered'
  BY <1>1, ForgetRemembers DEF Crash
<1>3. process'[p].pc = "idle" /\ \A q \in Processes \ {p} : process'[q] = process[q]
  BY <1>1 DEF Crash, Idle, BotTypeOK, ProcessTypeOK
<1>4. ASSUME NEW q \in Processes, q # p, process'[q].pc # "idle"
      PROVE  isInitialized'[MemoryOf(q)']
  <2>1. MemoryOf(q)' = MemoryOf(q) /\ MemoryOf(q) \in Memories /\ isInitialized[MemoryOf(q)]
    BY <1>1, <1>3, <1>4, StateTyped DEF Loaded, MemoryOf
  <2>2. MemoryOf(q) \notin {p} \X BotsOf(p)
    BY <1>4 DEF MemoryOf
  <2> QED BY <2>1, <2>2 DEF Crash, ForgetAll
<1>5. Loaded'
  BY <1>3, <1>4 DEF Loaded
<1> QED BY <1>2, <1>5

LEMMA MineRemembers ==
  ASSUME MemoryInv, NEW tx \in pending, Mine(tx)
  PROVE  Remembered' /\ Loaded'
<1>1. /\ tx.process \in Processes
      /\ \A q \in Processes \ {tx.process} : process'[q] = process[q]
      /\ \/ process' = process
         \/ /\ process[tx.process].pc = "wait"
            /\ process'[tx.process].bot = process[tx.process].bot
  BY MineEffect DEF MemoryInv
<1>2. UNCHANGED memoryVars
  BY DEF Mine
<1>3. Remembered'
  BY <1>2 DEF MemoryInv, Remembered, Kept, memoryVars
<1>4. Loaded'
  BY <1>1, <1>2 DEF MemoryInv, Loaded, MemoryOf, memoryVars
<1> QED BY <1>3, <1>4
(* A run that starts leaves out the users its instance promised to ignore. *)
LEMMA StartLeavesOut ==
  ASSUME MemoryInv, NEW p \in Processes, StartRun(p)
  PROVE  \A u \in TakenUp(p) : promised[MemoryOf(p)][u] = 0 \/ Forgotten(MemoryOf(p), u)
<1> DEFINE m == MemoryOf(p)
           U == ToCheck(p)
<1>1. BotTypeOK /\ Remembered
  BY DEF MemoryInv
<1>2. m \in Memories /\ ~initializeThrows(m) /\ U \in SUBSET Users
  BY <1>1, StateTyped, StartEffect DEF ToCheck, NotIgnored
<1>3. \A u \in U : initialized(m)[u] <= 0
  BY DEF ToCheck, NotIgnored
<1>4. ASSUME NEW u \in U PROVE promised[m][u] = 0 \/ Forgotten(m, u)
  <2>1. promised[m][u] \in Nat /\ initialized(m)[u] \in Int
    BY <1>1, <1>2, InitializedTyped DEF BotTypeOK, MemoryTypeOK
  <2>2. promised[m][u] > 0 => standing[m][u] = "lost"
    <3> SUFFICES ASSUME promised[m][u] > 0, standing[m][u] # "lost" PROVE FALSE
      OBVIOUS
    <3> HIDE DEF m, U
    <3>1. initialized(m)[u] > 0
      BY <1>1, <1>2, PromisedIsIgnored
    <3> QED BY <1>3, <2>1, <3>1
  <2> HIDE DEF m
  <2> QED BY <2>1, <2>2 DEF Forgotten
<1>5. PICK order \in Shuffles(U) : process'[p].batches = splitToBatches(order)
  BY <1>1, StartEffect
<1>6. splitToBatches(order) \in Seq(Seq(U))
  <2> HIDE DEF U
  <2>1. order \in Seq(U)
    BY <1>2, ShuffleOver
  <2>2. setting.batchSize \in Nat \ {0}
    BY <1>1, SettingTyped
  <2> QED BY <2>1, <2>2, BatchesOver
<1> HIDE DEF m, U
<1>7. ASSUME NEW k \in DOMAIN process'[p].batches
      PROVE  ToSet(process'[p].batches[k]) \subseteq U
  <2>1. process'[p].batches[k] \in Seq(U)
    BY <1>5, <1>6
  <2> QED BY <2>1, SeqElements
<1>8. TakenUp(p) \subseteq U
  BY <1>7 DEF TakenUp
<1> QED BY <1>4, <1>8 DEF m

(* A user whom a bot put off is left alone by it until the time is over,   *)
(* for any processes that share a file, killed and started again at will,  *)
(* any users, batches, durations and bounds: unless another bot wrote its  *)
(* own map over the put and the process was killed after that.             *)
THEOREM IgnoredUsersAreLeftAlone == Spec => QuietAfterIgnore
<1>1. Init => MemoryInv
  BY InitTyped DEF Init, MemoryInit, Idle, MemoryInv, Remembered, Loaded
<1>2. MemoryInv /\ [Next]_vars => MemoryInv'
  <2> SUFFICES ASSUME MemoryInv, [Next]_vars PROVE MemoryInv'
    OBVIOUS
  <2>1. BotTypeOK /\ BotTypeOK' /\ UNCHANGED setting
    BY BotTypeInductive DEF Next, vars, MemoryInv
  <2>2. CASE \E p \in Processes : Run(p)
    BY <2>1, <2>2, RunSteps, RunRemembers DEF MemoryInv
  <2>3. CASE \E p \in Processes, torn \in BOOLEAN : Crash(p, torn)
    BY <2>1, <2>3, CrashRemembers DEF MemoryInv
  <2>4. CASE \E tx \in pending : Mine(tx)
    BY <2>1, <2>4, MineRemembers DEF MemoryInv
  <2>5. CASE Tick
    <3>1. Remembered'
      BY <2>1, <2>5, TickRemembers DEF Tick, MemoryInv
    <3>2. Loaded'
      BY <2>1, <2>5 DEF Tick, MemoryTick, botVars, MemoryInv, Loaded, MemoryOf
    <3> QED BY <2>1, <3>1, <3>2 DEF MemoryInv
  <2>6. CASE UNCHANGED <<memoryVars, process>>
    BY <2>1, <2>6 DEF MemoryInv, Remembered, Kept, Loaded, MemoryOf, memoryVars
  <2> QED BY <2>2, <2>3, <2>4, <2>5, <2>6 DEF Next, Move, botVars, vars
<1>3. MemoryInv /\ [Next]_vars => [OnlyUnpromised]_vars
  <2> SUFFICES ASSUME MemoryInv, Next, NEW p \in Processes, RunStarts(p)
               PROVE  \A u \in TakenUp(p) :
                         promised[MemoryOf(p)][u] = 0 \/ Forgotten(MemoryOf(p), u)
    BY DEF OnlyUnpromised
  <2>1. BotTypeOK /\ UNCHANGED setting /\ process[p].pc = "idle" /\ process'[p].pc = "batch"
    BY DEF MemoryInv, Next, RunStarts
  <2>2. process'[p] # process[p]
    BY <2>1
  <2>3. CASE \E q \in Processes : Run(q)
    <3>1. PICK q \in Processes : Run(q)
      BY <2>3
    <3>2. RunsAs(q)
      BY <2>1, <3>1, RunSteps
    <3>3. q = p
      BY <2>1, <2>2, <3>2, RunEffect
    <3>4. StartRun(p)
      BY <2>1, <3>2, <3>3, RunLoads
    <3> QED BY <3>4, StartLeavesOut
  <2>4. CASE \E q \in Processes, torn \in BOOLEAN : Crash(q, torn)
    <3>1. process'[p] = process[p] \/ process'[p].pc = "idle"
      BY <2>1, <2>4 DEF Crash, Idle, BotTypeOK, ProcessTypeOK
    <3> QED BY <2>1, <2>2, <3>1
  <2>5. CASE \E tx \in pending : Mine(tx)
    <3>1. PICK tx \in pending : Mine(tx)
      BY <2>5
    <3>2. \/ process'[p] = process[p]
          \/ process[p].pc = "wait"
      BY <2>1, <3>1, MineEffect
    <3> QED BY <2>1, <2>2, <3>2
  <2> QED BY <2>2, <2>3, <2>4, <2>5 DEF Next, Move, Tick, botVars
<1> QED BY <1>1, <1>2, <1>3, PTL DEF Spec, QuietAfterIgnore
=============================================================================
