----------------------------- MODULE DeployProofs -----------------------------
(***************************************************************************)
(* Proofs about the engine, for every list of scripts that ends in returns *)
(* and every bound: type correctness, and that the engine implements the   *)
(* log of hardhat-deploy.                                                  *)
(***************************************************************************)
EXTENDS DeployRefinement, UpgradeProperties, SequenceTheorems, WellFoundedInduction, TLAPS

\* A nonempty set of numbers has a least element.
LEMMA Least ==
  ASSUME NEW T \in SUBSET Nat, T # {}
  PROVE  \E k \in T : \A l \in T : k <= l
<1> DEFINE R == OpToRel(<, Nat)
<1>1. \E k \in T : \A l \in T : <<l, k>> \notin R
  <2> HIDE DEF R
  <2>1. IsWellFoundedOn(R, Nat)
    BY NatLessThanWellFounded, Zenon DEF R
  <2> QED BY <2>1, WFMin, Zenon
<1>2. \A k, l \in Nat : l < k => <<l, k>> \in R
  BY Zenon DEF OpToRel
<1> HIDE DEF R
<1>3. PICK k \in T : \A l \in T : <<l, k>> \notin R
  BY <1>1, Zenon
<1>4. \A l \in T : ~(l < k)
  BY <1>2, <1>3, Zenon
<1>5. \A l \in T : k <= l
  BY <1>4
<1> QED BY <1>5, Zenon

\* The last step of a script returns, whatever the script has noted.
LEMMA LastStep ==
  ASSUME NEW steps, EndsInReturn(steps)
  PROVE  LET s == steps[Len(steps)]
         IN /\ s.kind = "read" /\ s.exit # "no"
            /\ s.skipIf = {} /\ s.onlyIf = {} /\ s.ifNoted = {} /\ s.unlessNoted = {}
            /\ s.auth = Anyone /\ s.needs = {}
<1>1. PICK value \in {"true", "false"} : steps[Len(steps)] = Return(value)
  BY DEF EndsInReturn
<1> QED BY <1>1 DEF Return, Noop

\* The next open script is the least one, if there is any.
LEMMA NextScript ==
  ASSUME NEW i \in Nat \ {0}, EnterScript(i)
  PROVE  LET open == {k \in i..Len(Scripts) : Scripts[k].id \notin migrations'}
         IN /\ FirstOpen(i) = IF open = {} THEN Len(Scripts) + 1
                              ELSE CHOOSE k \in open : \A l \in open : k <= l
            /\ open # {} => FirstOpen(i) \in open
            /\ at' = [script |-> FirstOpen(i), step |-> 1]
            /\ phase' = IF open = {} THEN "finished" ELSE "running"
<1> DEFINE open == {k \in i..Len(Scripts) : Scripts[k].id \notin migrations'}
<1>0. Len(Scripts) \in Nat
  BY EngineAssumption
<1>1. FirstOpen(i) = IF open = {} THEN Len(Scripts) + 1 ELSE CHOOSE k \in open : \A l \in open : k <= l
  BY DEF FirstOpen
<1>2. open \in SUBSET Nat /\ \A k \in open : k <= Len(Scripts)
  BY <1>0
<1> HIDE DEF open
<1>3. open # {} => FirstOpen(i) \in open
  BY <1>1, <1>2, Least, Zenon
<1>4. phase' = IF open = {} THEN "finished" ELSE "running"
  <2>1. phase' = IF FirstOpen(i) > Len(Scripts) THEN "finished" ELSE "running"
    BY DEF EnterScript
  <2>2. CASE open = {}
    BY <1>0, <1>1, <2>1, <2>2
  <2>3. CASE open # {}
    <3>1. FirstOpen(i) \in Nat /\ FirstOpen(i) <= Len(Scripts)
      BY <1>2, <1>3, <2>3, Zenon
    <3>2. ~(FirstOpen(i) > Len(Scripts))
      BY <1>0, <3>1
    <3> QED BY <2>1, <2>3, <3>2, Zenon
  <2> QED BY <2>2, <2>3
<1>5. at' = [script |-> FirstOpen(i), step |-> 1]
  BY DEF EnterScript
<1> QED BY <1>1, <1>3, <1>4, <1>5 DEF open

\* A running script is at a step of the list.
LEMMA StepOfScript ==
  ASSUME ControlOK, phase = "running"
  PROVE  /\ at.script \in 1..Len(Scripts) /\ at.step \in 1..Len(Scripts[at.script].steps)
         /\ Len(Scripts[at.script].steps) \in Nat
         /\ Step \in AllSteps
         /\ Scripts[at.script].id \in Ids
<1>0. Len(Scripts) \in Nat
  BY EngineAssumption
<1>1. at.script \in 1..Len(Scripts)
  BY <1>0 DEF ControlOK
<1>2. Len(Scripts[at.script].steps) \in Nat
  BY <1>1, EngineAssumption DEF EndsInReturn
<1>3. at.step \in 1..Len(Scripts[at.script].steps)
  BY <1>2 DEF ControlOK
<1>4. Step \in StepsOf(at.script)
  BY <1>3 DEF Step, StepsOf
<1>5. Step \in AllSteps
  BY <1>1, <1>4 DEF AllSteps
<1> QED BY <1>1, <1>2, <1>3, <1>5 DEF Ids

\* A step that is skipped, fails or does anything but return is not the last of its script.
LEMMA Advances ==
  ASSUME ControlOK, phase = "running", Advance,
         Skipped(Step) \/ Fails \/ Step.exit = "no" \/ Step.kind # "read"
  PROVE  /\ at' \in [script : 1..(Len(Scripts) + 1), step : Nat \ {0}]
         /\ at'.script = at.script
         /\ at'.script <= Len(Scripts)
         /\ at'.step <= Len(Scripts[at'.script].steps)
<1> DEFINE steps == Scripts[at.script].steps
           last == steps[Len(steps)]
<1>1. /\ at.script \in 1..Len(Scripts) /\ at.step \in 1..Len(steps) /\ Len(steps) \in Nat
      /\ Len(Scripts) \in Nat
  BY StepOfScript, EngineAssumption
<1>2. EndsInReturn(steps)
  BY <1>1, EngineAssumption
<1>3. /\ last.kind = "read" /\ last.exit # "no"
      /\ last.skipIf = {} /\ last.onlyIf = {} /\ last.ifNoted = {} /\ last.unlessNoted = {}
      /\ last.auth = Anyone /\ last.needs = {}
  BY <1>2, LastStep
<1>4. Step # last
  <2> SUFFICES ASSUME Step = last PROVE FALSE
    OBVIOUS
  <2>1. ~Skipped(Step)
    BY <1>3 DEF Skipped
  <2>2. Succeeds(world, Step.by, Step)
    BY <1>3 DEF Succeeds
  <2>3. ~Fails
    BY <1>3, <2>2 DEF Fails
  <2> QED BY <1>3, <2>1, <2>3
<1>5. at.step # Len(steps)
  BY <1>4 DEF Step
<1>6. at \in [script : 1..(Len(Scripts) + 1), step : Nat \ {0}]
  BY DEF ControlOK
<1>7. at' = [script |-> at.script, step |-> at.step + 1]
  BY <1>6 DEF Advance
<1> HIDE DEF steps
<1>8. at.step + 1 <= Len(steps) /\ at.script <= Len(Scripts)
  BY <1>1, <1>5
<1>9. at'.script = at.script /\ at'.step = at.step + 1
  BY <1>7
<1> QED BY <1>1, <1>7, <1>8, <1>9 DEF steps

\* Assigning facts leaves the keys of the world.
LEMMA AssignKeys == ASSUME NEW w, NEW facts PROVE DOMAIN Assign(w, facts) = DOMAIN w
BY DEF Assign

\* What EngineTypeOK says of the variables a step of a script may change.
LEMMA EnteringIsTyped ==
  ASSUME NEW i \in Nat \ {0}, i <= Len(Scripts) + 1, EnterScript(i)
  PROVE  /\ at' \in [script : 1..(Len(Scripts) + 1), step : Nat \ {0}]
         /\ phase' \in {"running", "finished"}
         /\ phase' = "running" => at'.script <= Len(Scripts) /\ at'.step <= Len(Scripts[at'.script].steps)
         /\ noted' = {} /\ queue' = <<>>
<1> DEFINE open == {k \in i..Len(Scripts) : Scripts[k].id \notin migrations'}
<1>0. Len(Scripts) \in Nat
  BY EngineAssumption
<1>1. /\ open # {} => FirstOpen(i) \in open
      /\ open = {} => FirstOpen(i) = Len(Scripts) + 1
      /\ at' = [script |-> FirstOpen(i), step |-> 1]
      /\ phase' = IF open = {} THEN "finished" ELSE "running"
  BY NextScript
<1>2. FirstOpen(i) \in 1..(Len(Scripts) + 1) /\ (open # {} => FirstOpen(i) \in 1..Len(Scripts))
  BY <1>0, <1>1
<1>3. \A k \in 1..Len(Scripts) : 1 <= Len(Scripts[k].steps)
  BY EngineAssumption DEF EndsInReturn
<1> HIDE DEF open
<1>4. at'.script = FirstOpen(i) /\ at'.step = 1
  BY <1>1
<1>5. phase' = "running" => at'.script <= Len(Scripts) /\ at'.step <= Len(Scripts[at'.script].steps)
  BY <1>0, <1>1, <1>2, <1>3, <1>4
<1>6. at' \in [script : 1..(Len(Scripts) + 1), step : Nat \ {0}]
  BY <1>1, <1>2
<1>7. noted' = {} /\ queue' = <<>>
  BY DEF EnterScript
<1> QED BY <1>1, <1>5, <1>6, <1>7

\* No step, whatever it skips, whatever fails and is caught, leads out of the scripts.
LEMMA ControlKept == ASSUME ControlOK, [Next]_vars PROVE ControlOK'
<1>0. /\ Len(Scripts) \in Nat
      /\ MaxCrashes \in Nat /\ MaxFaults \in Nat /\ MaxPending \in Nat
  BY EngineAssumption
<1>1. /\ at \in [script : 1..(Len(Scripts) + 1), step : Nat \ {0}]
      /\ pending \in Seq(AllSteps) /\ Len(pending) <= MaxPending
      /\ queue \in Seq(AllSteps) /\ batches \subseteq Seq(AllSteps)
      /\ crashes \in 0..MaxCrashes /\ faults \in 0..MaxFaults
  BY DEF ControlOK
<1>a. CASE StartRun
  <2>1. EnterScript(1) /\ migrations' = migrations
        /\ UNCHANGED <<world, batches, pending, crashes, faults>>
    BY <1>a DEF StartRun
  <2>2. /\ at' \in [script : 1..(Len(Scripts) + 1), step : Nat \ {0}]
        /\ phase' \in {"running", "finished"}
        /\ phase' = "running" => at'.script <= Len(Scripts) /\ at'.step <= Len(Scripts[at'.script].steps)
        /\ noted' = {} /\ queue' = <<>>
    BY <1>0, <2>1, EnteringIsTyped
  <2> QED BY <1>1, <2>1, <2>2 DEF ControlOK
<1>b. CASE Skip
  <2>1. /\ at' \in [script : 1..(Len(Scripts) + 1), step : Nat \ {0}]
        /\ at'.script <= Len(Scripts) /\ at'.step <= Len(Scripts[at'.script].steps)
    BY <1>b, Advances DEF Skip
  <2> QED BY <1>1, <1>b, <2>1 DEF ControlOK, Skip
<1>c. CASE Read
  <2>1. /\ at' \in [script : 1..(Len(Scripts) + 1), step : Nat \ {0}]
        /\ at'.script <= Len(Scripts) /\ at'.step <= Len(Scripts[at'.script].steps)
    BY <1>c, Advances DEF Read, Running
  <2>3. phase = "running" /\ UNCHANGED <<phase, migrations, queue, batches, pending, crashes, faults>>
    BY <1>c DEF Read, Running
  <2> QED BY <1>1, <2>1, <2>3 DEF ControlOK
<1>d. CASE Send
  <2>1. phase = "running" /\ UNCHANGED <<phase, migrations, queue, batches, crashes, faults>>
    BY <1>d DEF Send, Running
  <2>2. /\ at' \in [script : 1..(Len(Scripts) + 1), step : Nat \ {0}]
        /\ at'.script <= Len(Scripts) /\ at'.step <= Len(Scripts[at'.script].steps)
    <3>1. Step.kind # "read"
      BY <1>d DEF Send, Running, Step
    <3> QED BY <1>d, <2>1, <3>1, Advances DEF Send
  <2>4. pending' \in Seq(AllSteps) /\ Len(pending') <= MaxPending
    <3>1. Step \in AllSteps
      BY <2>1, StepOfScript
    <3>2. pending' = pending \/ (Len(pending) < MaxPending /\ pending' = Append(pending, Step))
      BY <1>d DEF Send
    <3>3. CASE pending' = pending
      BY <1>1, <3>3
    <3>4. CASE Len(pending) < MaxPending /\ pending' = Append(pending, Step)
      <4>1. pending' \in Seq(AllSteps) /\ Len(pending') = Len(pending) + 1
        BY <1>1, <3>1, <3>4, AppendProperties, Zenon
      <4>2. Len(pending) \in Nat
        BY <1>1, LenProperties, Zenon
      <4> QED BY <1>0, <3>4, <4>1, <4>2
    <3> QED BY <3>2, <3>3, <3>4
  <2> QED BY <1>1, <2>1, <2>2, <2>4 DEF ControlOK
<1>e. CASE Mine
  <2>1. UNCHANGED <<phase, at, migrations, noted, queue, batches, crashes, faults>>
    BY <1>e DEF Mine
  <2>3. pending' \in Seq(AllSteps) /\ Len(pending') <= MaxPending
    BY <1>0, <1>1, <1>e DEF Mine
  <2> QED BY <1>1, <2>1, <2>3 DEF ControlOK
<1>f. CASE Throw
  <2>1. /\ phase' = "threw" /\ noted' = {} /\ queue' = <<>>
        /\ UNCHANGED <<world, at, migrations, batches, pending, crashes>>
    BY <1>f DEF Throw
  <2>2. faults' \in 0..MaxFaults
    BY <1>0, <1>1, <1>f DEF Throw, Fails
  <2> QED BY <1>1, <2>1, <2>2 DEF ControlOK
<1>g. CASE Catch
  <2>1. phase = "running" /\ UNCHANGED <<world, phase, migrations, batches, pending, crashes>>
    BY <1>g DEF Catch, Fails
  <2>2. /\ at' \in [script : 1..(Len(Scripts) + 1), step : Nat \ {0}]
        /\ at'.script <= Len(Scripts) /\ at'.step <= Len(Scripts[at'.script].steps)
    BY <1>g, <2>1, Advances DEF Catch
  <2>3. faults' \in 0..MaxFaults
    BY <1>0, <1>1, <1>g DEF Catch, Fails
  <2>4. queue' \in Seq(AllSteps)
    <3>1. Step \in AllSteps
      BY <2>1, StepOfScript
    <3>2. queue' = queue \/ queue' = Append(queue, Step)
      BY <1>g DEF Catch
    <3>3. CASE queue' = queue
      BY <1>1, <3>3
    <3>4. CASE queue' = Append(queue, Step)
      BY <1>1, <3>1, <3>4, AppendProperties, Zenon
    <3> QED BY <3>2, <3>3, <3>4
  <2> QED BY <1>1, <2>1, <2>2, <2>3, <2>4 DEF ControlOK
<1>h. CASE Flush
  <2>1. phase = "running" /\ UNCHANGED <<world, phase, migrations, noted, queue, pending, crashes, faults>>
    BY <1>h DEF Flush, Running
  <2>2. /\ at' \in [script : 1..(Len(Scripts) + 1), step : Nat \ {0}]
        /\ at'.script <= Len(Scripts) /\ at'.step <= Len(Scripts[at'.script].steps)
    <3>1. Step.kind # "read"
      BY <1>h DEF Flush, Running, Step
    <3> QED BY <1>h, <2>1, <3>1, Advances DEF Flush
  <2>3. batches' \subseteq Seq(AllSteps)
    BY <1>1, <1>h DEF Flush
  <2> QED BY <1>1, <2>1, <2>2, <2>3 DEF ControlOK
<1>i. CASE Leave
  <2>1. phase = "running" /\ EnterScript(at.script + 1)
        /\ UNCHANGED <<world, batches, pending, crashes, faults>>
    BY <1>i DEF Leave, Running
  <2>2. at.script \in 1..Len(Scripts) /\ Scripts[at.script].id \in Ids
    BY <2>1, StepOfScript
  <2>3. /\ at' \in [script : 1..(Len(Scripts) + 1), step : Nat \ {0}]
        /\ phase' \in {"running", "finished"}
        /\ phase' = "running" => at'.script <= Len(Scripts) /\ at'.step <= Len(Scripts[at'.script].steps)
        /\ noted' = {} /\ queue' = <<>>
    <3>1. at.script + 1 \in Nat \ {0} /\ at.script + 1 <= Len(Scripts) + 1
      BY <1>0, <2>2
    <3> QED BY <2>1, <3>1, EnteringIsTyped
  <2> QED BY <1>1, <2>1, <2>3 DEF ControlOK
<1>j. CASE Crash
  <2>1. /\ phase' = "crashed" /\ noted' = {} /\ queue' = <<>>
        /\ UNCHANGED <<world, at, migrations, batches, pending, faults>>
    BY <1>j DEF Crash
  <2>2. crashes' \in 0..MaxCrashes
    BY <1>0, <1>1, <1>j DEF Crash
  <2> QED BY <1>1, <2>1, <2>2 DEF ControlOK
<1>k. CASE SafeExecute
  <2>1. UNCHANGED <<phase, at, migrations, noted, queue, pending, crashes, faults>>
        /\ batches' \subseteq batches
    BY <1>k DEF SafeExecute
  <2> QED BY <1>1, <2>1 DEF ControlOK
<1>l. CASE UNCHANGED vars
  BY <1>l DEF ControlOK, vars
<1> QED
  BY <1>a, <1>b, <1>c, <1>d, <1>e, <1>f, <1>g, <1>h, <1>i, <1>j, <1>k, <1>l DEF Next

(***************************************************************************)
(* Type correctness.  The part of it that says something of the code: a    *)
(* script that runs is always at one of its steps, whatever it skips,      *)
(* whatever fails and is caught, since its last step returns.              *)
(***************************************************************************)
THEOREM TypeCorrect == Spec => []EngineTypeOK
<1>1. Init => EngineTypeOK
  <2> SUFFICES ASSUME Init PROVE EngineTypeOK
    OBVIOUS
  <2>1. DOMAIN world = Keys
    BY AssignKeys DEF Init, StartFrom, WorldOf
  <2>2. at \in [script : 1..(Len(Scripts) + 1), step : Nat \ {0}]
    BY EngineAssumption DEF Init, StartFrom
  <2>3. crashes \in 0..MaxCrashes /\ faults \in 0..MaxFaults
    BY EngineAssumption DEF Init, StartFrom
  <2>4. pending \in Seq(AllSteps) /\ Len(pending) <= MaxPending /\ queue \in Seq(AllSteps)
    BY EngineAssumption DEF Init, StartFrom
  <2> QED BY <2>1, <2>2, <2>3, <2>4 DEF Init, StartFrom, ControlOK, EngineTypeOK
<1>2. EngineTypeOK /\ [Next]_vars => EngineTypeOK'
  <2> SUFFICES ASSUME EngineTypeOK, [Next]_vars PROVE EngineTypeOK'
    OBVIOUS
  <2>1. ControlOK'
    BY ControlKept DEF EngineTypeOK
  <2>2. DOMAIN world' = DOMAIN world
    BY AssignKeys
    DEF Next, StartRun, Skip, Read, Send, Mine, Throw, Catch, Flush, Leave, Crash, SafeExecute,
        AfterCalls, vars
  <2>3. migrations' \subseteq migrations \cup Ids
    <3>1. CASE Leave
      <4>1. Scripts[at.script].id \in Ids
        BY <3>1, StepOfScript DEF EngineTypeOK, Leave, Running
      <4> QED BY <3>1, <4>1 DEF Leave
    <3>2. CASE ~Leave
      BY <3>2
      DEF Next, StartRun, Skip, Read, Send, Mine, Throw, Catch, Flush, Crash, SafeExecute, vars
    <3> QED BY <3>1, <3>2
  <2> QED BY <2>1, <2>2, <2>3 DEF EngineTypeOK
<1> QED BY <1>1, <1>2, PTL DEF Spec

current == IF phase = "running" THEN at.script ELSE 0

\* Entering the first open script is what the log does, at the start of a run and at its end.
LEMMA EntersNextOpen ==
  ASSUME NEW i \in Nat \ {0}, EnterScript(i)
  PROVE  current' = Log!NextOpen(migrations', i)
<1> DEFINE open == {k \in i..Len(Scripts) : Scripts[k].id \notin migrations'}
           idOf == [k \in 1..Len(Scripts) |-> Scripts[k].id]
           logOpen == {k \in i..Len(idOf) : idOf[k] \notin migrations'}
<1>0. Len(Scripts) \in Nat
  BY EngineAssumption
<1>1. logOpen = open
  <2>1. Len(idOf) = Len(Scripts)
    BY <1>0
  <2>2. \A k \in i..Len(Scripts) : idOf[k] = Scripts[k].id
    BY <1>0
  <2> HIDE DEF idOf
  <2> QED BY <2>1, <2>2
<1>2. Log!NextOpen(migrations', i) =
        IF logOpen = {} THEN 0 ELSE CHOOSE k \in logOpen : \A l \in logOpen : k <= l
  BY DEF Log!NextOpen
<1>3. /\ FirstOpen(i) = IF open = {} THEN Len(Scripts) + 1 ELSE CHOOSE k \in open : \A l \in open : k <= l
      /\ at' = [script |-> FirstOpen(i), step |-> 1]
      /\ phase' = IF open = {} THEN "finished" ELSE "running"
  BY NextScript
<1> HIDE DEF open, logOpen
<1>4. CASE open = {}
  <2>1. current' = 0
    BY <1>3, <1>4 DEF current
  <2> QED BY <1>1, <1>2, <1>4, <2>1
<1>5. CASE open # {}
  <2>1. current' = at'.script /\ at'.script = FirstOpen(i)
    BY <1>3, <1>5 DEF current
  <2>2. Log!NextOpen(migrations', i) = FirstOpen(i)
    BY <1>1, <1>2, <1>3, <1>5
  <2> QED BY <2>1, <2>2
<1> QED BY <1>4, <1>5

(***************************************************************************)
(* The engine implements the log: under crashes, faults, late transactions *)
(* and late Safe batches, scripts run in order, none that is recorded runs *)
(* again, only a script that is left is recorded, and no record is lost.   *)
(***************************************************************************)
THEOREM ImplementsLog == Spec => LogSafety
<1>1. Init => Log!Init
  BY DEF Init, StartFrom, Log!Init
<1>2. EngineTypeOK /\ [Next]_vars => [Log!Next]_(Log!vars)
  <2> SUFFICES ASSUME EngineTypeOK, [Next]_vars PROVE [Log!Next]_(Log!vars)
    OBVIOUS
  <2> DEFINE Unchanged == migrations' = migrations /\ current' = current
  <2>0. Unchanged => UNCHANGED Log!vars
    BY DEF current, Log!vars
  <2>1. phase = "running" => current # 0 /\ current = at.script /\ at.script \in 1..Len(Scripts)
    BY StepOfScript DEF EngineTypeOK, current
  <2>a. CASE StartRun
    <3>1. phase # "running" /\ migrations' = migrations /\ EnterScript(1)
      BY <2>a DEF StartRun
    <3>2. current' = Log!NextOpen(migrations, 1)
      BY <3>1, EntersNextOpen
    <3>3. Log!Begin
      BY <3>1, <3>2 DEF Log!Begin, current
    <3> QED BY <3>3 DEF Log!Next
  <2>b. CASE Skip \/ Read \/ Send \/ Catch
    <3>1. phase = "running" /\ phase' = phase /\ migrations' = migrations
      BY <2>b DEF Skip, Read, Send, Catch, Fails, Running
    <3>2. at'.script = at.script
      <4>1. Advance /\ (Skipped(Step) \/ Fails \/ Step.exit = "no" \/ Step.kind # "read")
        BY <2>b DEF Skip, Read, Send, Catch, Running, Step
      <4> QED BY <3>1, <4>1, Advances DEF EngineTypeOK
    <3> QED BY <2>0, <3>1, <3>2 DEF current
  <2>c. CASE Flush
    <3>1. phase = "running" /\ phase' = phase /\ migrations' = migrations
      BY <2>c DEF Flush, Running
    <3>2. at'.script = at.script
      <4>1. Advance /\ Step.kind # "read"
        BY <2>c DEF Flush, Running, Step
      <4> QED BY <3>1, <4>1, Advances DEF EngineTypeOK
    <3> QED BY <2>0, <3>1, <3>2 DEF current
  <2>d. CASE Mine \/ SafeExecute \/ UNCHANGED vars
    <3>1. phase' = phase /\ at' = at /\ migrations' = migrations
      BY <2>d DEF Mine, SafeExecute, vars
    <3> QED BY <2>0, <3>1 DEF current
  <2>e. CASE Throw \/ Crash
    <3>1. phase = "running" /\ phase' # "running" /\ migrations' = migrations
      BY <2>e DEF Throw, Crash, Fails
    <3>2. current # 0 /\ current' = 0
      BY <2>1, <3>1 DEF current
    <3>3. Log!Abort
      BY <3>1, <3>2 DEF Log!Abort, current
    <3> QED BY <3>3 DEF Log!Next
  <2>f. CASE Leave
    <3>1. /\ phase = "running" /\ EnterScript(at.script + 1)
          /\ migrations' \in {migrations, migrations \cup {Scripts[at.script].id}}
      BY <2>f DEF Leave, Running
    <3>2. current' = Log!NextOpen(migrations', current + 1)
      BY <2>1, <3>1, EntersNextOpen
    <3>3. migrations' \in {migrations, migrations \cup {[i \in 1..Len(Scripts) |-> Scripts[i].id][current]}}
      BY <2>1, <3>1
    <3>4. Log!Finish
      BY <2>1, <3>1, <3>2, <3>3 DEF Log!Finish, current
    <3> QED BY <3>4 DEF Log!Next
  <2> QED BY <2>a, <2>b, <2>c, <2>d, <2>e, <2>f DEF Next
<1> QED BY <1>1, <1>2, TypeCorrect, PTL DEF Spec, LogSafety, Log!SafeSpec

-----------------------------------------------------------------------------
\* A nonempty set of positions has a last one.
LEMMA Greatest ==
  ASSUME NEW n \in Nat, NEW T \in SUBSET (1..n), T # {}
  PROVE  \E k \in T : \A l \in T : l <= k
<1> DEFINE D == {n - k : k \in T}
<1>1. D \in SUBSET Nat /\ D # {}
  <2>1. \A k \in T : n - k \in Nat
    OBVIOUS
  <2>2. PICK k \in T : TRUE
    OBVIOUS
  <2>3. n - k \in D
    BY <2>2
  <2> QED BY <2>1, <2>3
<1>2. PICK d \in D : \A e \in D : d <= e
  <2> HIDE DEF D
  <2> QED BY <1>1, Least
<1>3. PICK k \in T : d = n - k
  BY <1>2
<1>4. \A l \in T : n - k <= n - l
  BY <1>2, <1>3
<1> QED BY <1>4

\* The value of a key after facts have been assigned.
LEMMA AssignValue ==
  ASSUME NEW w, NEW facts, NEW key \in DOMAIN w
  PROVE  /\ (\E f \in facts : f[1] = key) => \E f \in facts : f[1] = key /\ Assign(w, facts)[key] = f[2]
         /\ (\A f \in facts : f[1] # key) => Assign(w, facts)[key] = w[key]
BY DEF Assign

\* Facts written by a set of steps: each fact is of a step, and each key a step writes is written.
Covers(facts, steps) ==
  /\ \A f \in facts : \E s \in steps : f \in s.sets
  /\ \A s \in steps : \A f \in s.sets : \E g \in facts : g[1] = f[1]
Executed(steps) == \E facts : Covers(facts, steps) /\ world' = Assign(world, facts)

\* What the steps executed together do to one key.
LEMMA KeyAfter ==
  ASSUME NEW steps, Executed(steps), NEW key \in DOMAIN world
  PROVE  /\ DOMAIN world' = DOMAIN world
         /\ (\A s \in steps : ~Takes(s, key)) /\ (world[key] = "yes" \/ \E s \in steps : Gives(s, key))
              => world'[key] = "yes"
         /\ (\A s \in steps : ~Gives(s, key)) /\ (world[key] # "yes" \/ \E s \in steps : Takes(s, key))
              => world'[key] # "yes"
         /\ (\A s \in steps : ~Writes(s, key)) => world'[key] = world[key]
<1>1. PICK facts : Covers(facts, steps) /\ world' = Assign(world, facts)
  BY DEF Executed
<1>2. DOMAIN world' = DOMAIN world
  BY <1>1, AssignKeys
<1>3. /\ (\E f \in facts : f[1] = key) => \E f \in facts : f[1] = key /\ world'[key] = f[2]
      /\ (\A f \in facts : f[1] # key) => world'[key] = world[key]
  BY <1>1, AssignValue
<1>4. ASSUME \A s \in steps : ~Takes(s, key), world[key] = "yes" \/ \E s \in steps : Gives(s, key)
      PROVE  world'[key] = "yes"
  <2>1. \A f \in facts : f[1] = key => f[2] = "yes"
    BY <1>1, <1>4 DEF Covers, Takes
  <2>2. CASE \E f \in facts : f[1] = key
    BY <1>3, <2>1, <2>2
  <2>3. CASE \A f \in facts : f[1] # key
    <3>1. \A s \in steps : ~Gives(s, key)
      BY <1>1, <2>3 DEF Covers, Gives
    <3> QED BY <1>3, <1>4, <2>3, <3>1
  <2> QED BY <2>2, <2>3
<1>5. ASSUME \A s \in steps : ~Gives(s, key), world[key] # "yes" \/ \E s \in steps : Takes(s, key)
      PROVE  world'[key] # "yes"
  <2>1. \A f \in facts : f[1] = key => f[2] # "yes"
    BY <1>1, <1>5 DEF Covers, Gives
  <2>2. CASE \E f \in facts : f[1] = key
    BY <1>3, <2>1, <2>2
  <2>3. CASE \A f \in facts : f[1] # key
    <3>1. \A s \in steps : ~Takes(s, key)
      BY <1>1, <2>3 DEF Covers, Takes
    <3> QED BY <1>3, <1>5, <2>3, <3>1
  <2> QED BY <2>2, <2>3
<1>6. ASSUME \A s \in steps : ~Writes(s, key)
      PROVE  world'[key] = world[key]
  BY <1>1, <1>3, <1>6 DEF Covers, Writes
<1> QED BY <1>2, <1>4, <1>5, <1>6

CallsOf(b) == {b[p] : p \in 1..Len(b)}

\* A batch writes every key one of its calls writes, with the value of the last of them.
LEMMA BatchCovers ==
  ASSUME NEW b \in Seq(AllSteps)
  PROVE  Covers(LastWritten(b, Len(b)), CallsOf(b))
<1> DEFINE n == Len(b)
<1>0. n \in Nat
  OBVIOUS
<1>1. ASSUME NEW f \in LastWritten(b, n)
      PROVE  \E s \in CallsOf(b) : f \in s.sets
  BY <1>1 DEF LastWritten, CallsOf
<1>2. ASSUME NEW s \in CallsOf(b), NEW f \in s.sets
      PROVE  \E g \in LastWritten(b, n) : g[1] = f[1]
  <2> DEFINE T == {p \in 1..n : \E g \in b[p].sets : g[1] = f[1]}
  <2>1. T \in SUBSET (1..n) /\ T # {}
    BY DEF CallsOf
  <2>2. PICK last \in T : \A p \in T : p <= last
    <3> HIDE DEF T
    <3> QED BY <1>0, <2>1, Greatest, Zenon
  <2>3. PICK g \in b[last].sets : g[1] = f[1]
    BY <2>2
  <2>4. \A l \in (last + 1)..n : l \notin T
    BY <1>0, <2>1, <2>2
  <2>5. \A l \in (last + 1)..n : \A h \in b[l].sets : h[1] # g[1]
    BY <1>0, <2>1, <2>2, <2>3, <2>4
  <2>6. g \in LastWritten(b, n)
    BY <2>1, <2>2, <2>3, <2>5 DEF LastWritten
  <2> QED BY <2>3, <2>6
<1> QED BY <1>1, <1>2 DEF Covers

LEMMA OneStepCovers == ASSUME NEW s PROVE Covers(s.sets, {s}) /\ Covers({}, {})
BY DEF Covers

(***************************************************************************)
(* The chain and the records change only by a read or a call of the        *)
(* script, by a call that is mined and succeeds, or by a batch.            *)
(***************************************************************************)
LEMMA WorldChanges ==
  ASSUME ControlOK, [Next]_vars
  PROVE  \E steps \in SUBSET AllSteps :
           /\ Executed(steps)
           /\ \/ steps = {}
              \/ steps = {Step} /\ Read
              \/ steps = {Step} /\ Send /\ (AutoMine \/ Step.wait)
              \/ pending # <<>> /\ steps = {Head(pending)} /\ Mine
              \/ \E b \in batches : steps = CallsOf(b)
<1>1. world' = world => Executed({})
  <2>1. Assign(world, {}) = world
    BY DEF Assign
  <2> QED BY <2>1, OneStepCovers DEF Executed
<1>2. \A s : world' = Assign(world, s.sets) => Executed({s})
  BY OneStepCovers DEF Executed
<1>3. CASE Read
  <2>1. Step \in AllSteps
    BY <1>3, StepOfScript DEF Read, Running
  <2>2. world' = Assign(world, Step.sets)
    BY <1>3 DEF Read
  <2> QED BY <1>2, <1>3, <2>1, <2>2
<1>4. CASE Send
  <2>1. Step \in AllSteps
    BY <1>4, StepOfScript DEF Send, Running
  <2>2. CASE AutoMine \/ Step.wait
    <3>1. world' = Assign(world, Step.sets)
      BY <1>4, <2>2 DEF Send
    <3> QED BY <1>2, <1>4, <2>1, <2>2, <3>1
  <2>3. CASE ~(AutoMine \/ Step.wait)
    BY <1>1, <1>4, <2>3 DEF Send
  <2> QED BY <2>2, <2>3
<1>5. CASE Mine
  <2>1. pending # <<>> /\ pending \in Seq(AllSteps)
    BY <1>5 DEF Mine, ControlOK
  <2>2. Head(pending) \in AllSteps
    BY <2>1
  <2>3. world' = Assign(world, Head(pending).sets) \/ world' = world
    BY <1>5 DEF Mine
  <2> QED BY <1>1, <1>2, <1>5, <2>1, <2>2, <2>3
<1>6. CASE SafeExecute
  <2>1. PICK b \in batches : world' = AfterCalls(b, Len(b))
    BY <1>6 DEF SafeExecute
  <2>2. b \in Seq(AllSteps)
    BY <2>1 DEF ControlOK
  <2>3. Executed(CallsOf(b))
    BY <2>1, <2>2, BatchCovers DEF AfterCalls, Executed
  <2>4. CallsOf(b) \in SUBSET AllSteps
    BY <2>2 DEF CallsOf
  <2> QED BY <2>1, <2>3, <2>4
<1>7. CASE ~(Read \/ Send \/ Mine \/ SafeExecute)
  <2>1. world' = world
    BY <1>7 DEF Next, StartRun, Skip, Throw, Catch, Flush, Leave, Crash, vars
  <2> QED BY <1>1, <2>1
<1> QED BY <1>3, <1>4, <1>5, <1>6, <1>7

-----------------------------------------------------------------------------
(***************************************************************************)
(* A role that passes along a line of holders is never without one.  Held  *)
(* says that one from the m-th on has it.  A call that takes the role from *)
(* one and waits to be executed is harmless if a later holder has it, or   *)
(* is given it with that call (Passing); a grant the script is past was    *)
(* not needed, or its caller may not grant and the Safe is to (Tried).     *)
(***************************************************************************)
Held(w, c, r, line, m) == \E h \in m..Len(line) : IsYes(w, Role(c, r, line[h]))

Passing(w, calls, c, r, line) ==
  \A s \in calls : \A h \in 1..Len(line) : Takes(s, Role(c, r, line[h])) =>
    \/ Held(w, c, r, line, h + 1)
    \/ \E t \in calls : \E m \in (h + 1)..Len(line) :
         Gives(t, Role(c, r, line[m])) /\ Role(c, r, line[m]) \in DOMAIN w

Tried(w, calls, g, c, r, line, m) ==
  \/ Held(w, c, r, line, m)
  \/ w[Role(c, "ADMIN", g.by)] # "yes" /\ (UseSafe => g \in calls)

\* The scripts not recorded know their keys, and their callers are outsiders.
Prepared(w, recorded, c) ==
  \A s \in StepsLeft(recorded) :
    KeysKnown(w, s) /\ (s.auth = <<c, "ADMIN">> => Outsider(w, c, s.by))

HandoverInv(c, r, line) ==
  /\ ControlOK
  /\ Held(world, c, r, line, 1)
  /\ phase = "running" => at.script \in ScriptsLeft(migrations)
  /\ Prepared(world, migrations, c)
  /\ \A p \in 1..Len(pending) : \A h \in 1..Len(line) : ~Takes(pending[p], Role(c, r, line[h]))
  /\ Passing(world, CallsOf(queue), c, r, line)
  /\ \A b \in batches : Passing(world, CallsOf(b), c, r, line)
  /\ phase = "running" => \A k \in 1..(at.step - 1) : \A m \in 1..Len(line) :
       LET g == Scripts[at.script].steps[k]
       IN SureGrant(g, c, r, line[m]) => Tried(world, CallsOf(queue), g, c, r, line, m)

\* Whatever steps are executed together, if each taking is harmless, a holder stays.
LEMMA HolderStays ==
  ASSUME NEW c, NEW r, NEW line, Len(line) \in Nat, NEW m \in 1..(Len(line) + 1),
         NEW steps, Executed(steps), Passing(world, steps, c, r, line),
         \/ Held(world, c, r, line, m)
         \/ \E s \in steps : /\ m \in 1..Len(line) /\ Gives(s, Role(c, r, line[m]))
                             /\ Role(c, r, line[m]) \in DOMAIN world
  PROVE  Held(world', c, r, line, m)
<1> DEFINE key(h) == Role(c, r, line[h])
           T == {h \in 1..Len(line) : /\ key(h) \in DOMAIN world
                                       /\ \/ world[key(h)] = "yes"
                                          \/ \E s \in steps : Gives(s, key(h))}
<1>1. PICK h \in T : h >= m
  <2>1. CASE Held(world, c, r, line, m)
    BY <2>1 DEF Held, IsYes
  <2>2. CASE \E s \in steps : m \in 1..Len(line) /\ Gives(s, key(m)) /\ key(m) \in DOMAIN world
    BY <2>2
  <2> QED BY <2>1, <2>2
<1>2. PICK x \in T : \A y \in T : y <= x
  <2>1. T \in SUBSET (1..Len(line)) /\ T # {}
    BY <1>1
  <2> HIDE DEF T
  <2> QED BY <2>1, Greatest
<1>3. \A s \in steps : ~Takes(s, key(x))
  <2> SUFFICES ASSUME NEW s \in steps, Takes(s, key(x)) PROVE FALSE
    OBVIOUS
  <2>1. CASE Held(world, c, r, line, x + 1)
    <3>1. PICK y \in (x + 1)..Len(line) : IsYes(world, key(y))
      BY <2>1 DEF Held
    <3>2. y \in T
      BY <3>1 DEF IsYes
    <3> QED BY <1>2, <3>1, <3>2
  <2>2. CASE \E t \in steps : \E y \in (x + 1)..Len(line) : Gives(t, key(y)) /\ key(y) \in DOMAIN world
    <3>1. PICK t \in steps, y \in (x + 1)..Len(line) : Gives(t, key(y)) /\ key(y) \in DOMAIN world
      BY <2>2
    <3>2. y \in T
      BY <3>1
    <3> QED BY <1>2, <3>1, <3>2
  <2> QED BY <2>1, <2>2 DEF Passing
<1>4. key(x) \in DOMAIN world /\ (world[key(x)] = "yes" \/ \E s \in steps : Gives(s, key(x)))
  OBVIOUS
<1>5. IsYes(world', key(x))
  <2> HIDE DEF key, T
  <2> QED BY <1>3, <1>4, KeyAfter DEF IsYes
<1>6. x \in m..Len(line)
  <2>1. x \in 1..Len(line) /\ h \in 1..Len(line) /\ h >= m /\ h <= x
    BY <1>1, <1>2
  <2> HIDE DEF T
  <2> QED BY <2>1
<1> QED BY <1>5, <1>6 DEF Held

\* The key Succeeds looks the role of administrator up under.
LEMMA AdminKey ==
  ASSUME NEW c, NEW by
  PROVE  <<"role">> \o <<c, "ADMIN">> \o <<by>> = Role(c, "ADMIN", by)
<1> DEFINE S == {"role", c, "ADMIN", by}
           first == <<"role">>
           second == <<c, "ADMIN">>
           third == <<by>>
           pair == first \o second
           key == Role(c, "ADMIN", by)
<1>1. /\ first \in Seq(S) /\ Len(first) = 1 /\ first[1] = "role"
      /\ second \in Seq(S) /\ Len(second) = 2 /\ second[1] = c /\ second[2] = "ADMIN"
      /\ third \in Seq(S) /\ Len(third) = 1 /\ third[1] = by
      /\ key \in Seq(S) /\ Len(key) = 4
      /\ key[1] = "role" /\ key[2] = c /\ key[3] = "ADMIN" /\ key[4] = by
  <2>1. first \in Seq(S) /\ Len(first) = 1 /\ first[1] = "role"
    OBVIOUS
  <2>2. second \in Seq(S) /\ Len(second) = 2 /\ second[1] = c /\ second[2] = "ADMIN"
    OBVIOUS
  <2>3. third \in Seq(S) /\ Len(third) = 1 /\ third[1] = by
    OBVIOUS
  <2>4. key = <<"role", c, "ADMIN", by>>
    BY DEF Role
  <2>5. /\ key \in Seq(S) /\ Len(key) = 4
        /\ key[1] = "role" /\ key[2] = c /\ key[3] = "ADMIN" /\ key[4] = by
    <3>1. "role" \in S /\ c \in S /\ "ADMIN" \in S /\ by \in S
      OBVIOUS
    <3> HIDE DEF S, key
    <3>2. <<"role", c, "ADMIN", by>> \in Seq(S)
      BY <3>1
    <3>3. Len(<<"role", c, "ADMIN", by>>) = 4
      OBVIOUS
    <3> QED BY <2>4, <3>2, <3>3
  <2> HIDE DEF S, first, second, third, key
  <2> QED BY <2>1, <2>2, <2>3, <2>5
<1> HIDE DEF S, first, second, third, key
<1>2. /\ pair \in Seq(S) /\ Len(pair) = 3
      /\ pair[1] = "role" /\ pair[2] = c /\ pair[3] = "ADMIN"
  <2>1. /\ pair \in Seq(S) /\ Len(pair) = Len(first) + Len(second)
        /\ \A i \in 1..(Len(first) + Len(second)) :
             pair[i] = IF i <= Len(first) THEN first[i] ELSE second[i - Len(first)]
    BY <1>1, ConcatProperties
  <2> HIDE DEF pair
  <2> QED BY <1>1, <2>1
<1> HIDE DEF pair
<1>3. /\ pair \o third \in Seq(S) /\ Len(pair \o third) = 4
      /\ \A i \in 1..4 : (pair \o third)[i] = IF i <= 3 THEN pair[i] ELSE third[i - 3]
  <2>1. /\ pair \o third \in Seq(S) /\ Len(pair \o third) = Len(pair) + Len(third)
        /\ \A i \in 1..(Len(pair) + Len(third)) :
             (pair \o third)[i] = IF i <= Len(pair) THEN pair[i] ELSE third[i - Len(pair)]
    <3>1. pair \in Seq(S) /\ third \in Seq(S)
      BY <1>1, <1>2
    <3> QED BY <3>1, ConcatProperties, Zenon
  <2>2. Len(pair) = 3 /\ Len(third) = 1
    BY <1>1, <1>2
  <2> QED BY <2>1, <2>2
<1>4. \A i \in 1..4 : (pair \o third)[i] = key[i]
  BY <1>1, <1>2, <1>3
<1>5. pair \o third = key
  BY <1>1, <1>3, <1>4, SeqEqual
<1> QED BY <1>5 DEF pair, first, second, third, key

\* A call by an administrator succeeds only for one, and if it needs no more always.
LEMMA AdminCalls ==
  ASSUME NEW w, NEW by, NEW s, NEW c, s.auth = <<c, "ADMIN">>
  PROVE  /\ Succeeds(w, by, s) => w[Role(c, "ADMIN", by)] = "yes"
         /\ w[Role(c, "ADMIN", by)] = "yes" /\ s.needs = {} => Succeeds(w, by, s)
<1>1. s.auth # Anyone
  BY DEF Anyone
<1>2. <<"role">> \o s.auth \o <<by>> = Role(c, "ADMIN", by)
  BY AdminKey
<1> QED BY <1>1, <1>2 DEF Succeeds

\* Entering a script: one that is not recorded, at its first step.
LEMMA EntersLeft ==
  ASSUME NEW i \in Nat \ {0}, EnterScript(i), phase' = "running"
  PROVE  at'.script \in ScriptsLeft(migrations') /\ at'.step = 1
<1> DEFINE open == {k \in i..Len(Scripts) : Scripts[k].id \notin migrations'}
<1>1. /\ open # {} => FirstOpen(i) \in open
      /\ at' = [script |-> FirstOpen(i), step |-> 1]
      /\ phase' = IF open = {} THEN "finished" ELSE "running"
  BY NextScript
<1>2. FirstOpen(i) \in open
  BY <1>1
<1>3. FirstOpen(i) \in 1..Len(Scripts) /\ Scripts[FirstOpen(i)].id \notin migrations'
  BY <1>2, EngineAssumption
<1>4. at'.script = FirstOpen(i) /\ at'.step = 1
  BY <1>1, Zenon
<1> QED BY <1>3, <1>4 DEF ScriptsLeft

\* What a running script executes is a step of a script not recorded.
LEMMA StepIsLeft ==
  ASSUME ControlOK, phase = "running", at.script \in ScriptsLeft(migrations)
  PROVE  /\ \A k \in 1..Len(Scripts[at.script].steps) : Scripts[at.script].steps[k] \in StepsLeft(migrations)
         /\ Step \in StepsLeft(migrations)
         /\ at.step \in 1..Len(Scripts[at.script].steps)
         /\ at.script \in 1..Len(Scripts)
<1>1. at.script \in 1..Len(Scripts) /\ at.step \in 1..Len(Scripts[at.script].steps)
  BY StepOfScript
<1>2. StepsOf(at.script) \subseteq StepsLeft(migrations)
  BY DEF StepsLeft
<1>3. \A k \in 1..Len(Scripts[at.script].steps) : Scripts[at.script].steps[k] \in StepsOf(at.script)
  BY DEF StepsOf
<1> QED BY <1>1, <1>2, <1>3 DEF Step

\* The step at hand takes the role only if the grant before it was tried.
LEMMA TakingWasPrepared ==
  ASSUME NEW c, NEW r, NEW line, Len(line) \in Nat, HandsOver(Scripts, c, r, line),
         HandoverInv(c, r, line), phase = "running",
         NEW h \in 1..Len(line), Takes(Step, Role(c, r, line[h]))
  PROVE  /\ Step.kind = "tx" /\ Step.auth = <<c, "ADMIN">>
         /\ \/ Held(world, c, r, line, h + 1)
            \/ /\ world[Role(c, "ADMIN", Step.by)] # "yes"
               /\ UseSafe => \E g \in CallsOf(queue) : \E m \in (h + 1)..Len(line) :
                    Gives(g, Role(c, r, line[m])) /\ Role(c, r, line[m]) \in DOMAIN world
<1> DEFINE steps == Scripts[at.script].steps
<1>1. at.script \in 1..Len(Scripts) /\ at.step \in 1..Len(steps)
  BY StepOfScript DEF HandoverInv
<1>2. /\ Step.kind = "tx" /\ Step.auth = <<c, "ADMIN">>
      /\ \E k \in 1..(at.step - 1), m \in (h + 1)..Len(line) :
           SureGrant(steps[k], c, r, line[m]) /\ steps[k].by = Step.by
  BY <1>1 DEF HandsOver, Step
<1>3. PICK k \in 1..(at.step - 1), m \in (h + 1)..Len(line) :
        SureGrant(steps[k], c, r, line[m]) /\ steps[k].by = Step.by
  BY <1>2
<1>4. m \in 1..Len(line) /\ k \in 1..Len(steps) /\ at.step \in Nat
  BY <1>1, <1>3 DEF ControlOK, HandoverInv
<1>5. Tried(world, CallsOf(queue), steps[k], c, r, line, m)
  BY <1>3, <1>4 DEF HandoverInv
<1>6. CASE Held(world, c, r, line, m)
  <2>1. Held(world, c, r, line, h + 1)
    BY <1>3, <1>6 DEF Held
  <2> QED BY <1>2, <2>1
<1>7. CASE world[Role(c, "ADMIN", steps[k].by)] # "yes" /\ (UseSafe => steps[k] \in CallsOf(queue))
  <2>1. steps[k] \in StepsLeft(migrations)
    BY <1>4, StepIsLeft DEF HandoverInv
  <2>2. KeysKnown(world, steps[k])
    BY <2>1 DEF HandoverInv, Prepared
  <2>3. Gives(steps[k], Role(c, r, line[m])) /\ Role(c, r, line[m]) \in DOMAIN world
    BY <1>3, <2>2 DEF SureGrant, Gives, KeysKnown
  <2> QED BY <1>2, <1>3, <1>7, <2>3
<1> QED BY <1>5, <1>6, <1>7 DEF Tried

LEMMA ExecutedKeys == ASSUME NEW steps, Executed(steps) PROVE DOMAIN world' = DOMAIN world
BY AssignKeys DEF Executed

\* Holders stay, keys and administrators are as before, a grant that is sent has its effect.
LEMMA HandoverStep ==
  ASSUME NEW c, NEW r, NEW line, Len(line) \in Nat, HandsOver(Scripts, c, r, line),
         HandoverInv(c, r, line), [Next]_vars
  PROVE  /\ DOMAIN world' = DOMAIN world
         /\ \A m \in 1..(Len(line) + 1) : Held(world, c, r, line, m) => Held(world', c, r, line, m)
         /\ \A s \in AllSteps : Role(c, "ADMIN", s.by) \in DOMAIN world =>
              world'[Role(c, "ADMIN", s.by)] = world[Role(c, "ADMIN", s.by)]
         /\ Send /\ AutoMine => \A m \in 1..Len(line) :
              SureGrant(Step, c, r, line[m]) => Held(world', c, r, line, m)
<1>0. ControlOK
  BY DEF HandoverInv
<1>1. PICK steps \in SUBSET AllSteps :
        /\ Executed(steps)
        /\ \/ steps = {}
           \/ steps = {Step} /\ Read
           \/ steps = {Step} /\ Send /\ (AutoMine \/ Step.wait)
           \/ pending # <<>> /\ steps = {Head(pending)} /\ Mine
           \/ \E b \in batches : steps = CallsOf(b)
  BY <1>0, WorldChanges
<1>2. Passing(world, steps, c, r, line)
  <2>1. CASE steps = {}
    BY <2>1 DEF Passing
  <2>2. CASE steps = {Step} /\ Read
    <3>1. phase = "running" /\ Step.kind # "tx"
      BY <2>2 DEF Read, Running, Step
    <3>2. \A h \in 1..Len(line) : ~Takes(Step, Role(c, r, line[h]))
      BY <3>1, TakingWasPrepared
    <3> QED BY <2>2, <3>2 DEF Passing
  <2>3. CASE steps = {Step} /\ Send
    <3>1. phase = "running" /\ Succeeds(world, Step.by, Step)
      BY <2>3 DEF Send, Running
    <3>2. ASSUME NEW h \in 1..Len(line), Takes(Step, Role(c, r, line[h]))
          PROVE  Held(world, c, r, line, h + 1)
      <4>1. /\ Step.auth = <<c, "ADMIN">>
            /\ Held(world, c, r, line, h + 1) \/ world[Role(c, "ADMIN", Step.by)] # "yes"
        BY <3>1, <3>2, TakingWasPrepared
      <4>2. world[Role(c, "ADMIN", Step.by)] = "yes"
        BY <3>1, <4>1, AdminCalls
      <4> QED BY <4>1, <4>2
    <3> QED BY <2>3, <3>2 DEF Passing
  <2>4. CASE pending # <<>> /\ steps = {Head(pending)}
    <3>1. pending \in Seq(AllSteps) /\ pending # <<>>
      BY <1>0, <2>4 DEF ControlOK
    <3>2. Head(pending) = pending[1] /\ 1 \in 1..Len(pending)
      BY <3>1
    <3> QED BY <2>4, <3>2 DEF HandoverInv, Passing
  <2>5. CASE \E b \in batches : steps = CallsOf(b)
    BY <2>5 DEF HandoverInv
  <2> QED BY <1>1, <2>1, <2>2, <2>3, <2>4, <2>5
<1>3. DOMAIN world' = DOMAIN world
  BY <1>1, ExecutedKeys
<1>4. \A m \in 1..(Len(line) + 1) : Held(world, c, r, line, m) => Held(world', c, r, line, m)
  BY <1>1, <1>2, HolderStays
<1>5. ASSUME NEW s \in AllSteps, Role(c, "ADMIN", s.by) \in DOMAIN world
      PROVE  world'[Role(c, "ADMIN", s.by)] = world[Role(c, "ADMIN", s.by)]
  <2>1. \A t \in steps : ~Writes(t, Role(c, "ADMIN", s.by))
    <3>1. AllSteps = StepsIn(Scripts)
      BY DEF AllSteps, StepsOf, StepsIn
    <3> QED BY <1>1, <3>1 DEF HandsOver, AdminsFixed
  <2> QED BY <1>1, <1>5, <2>1, KeyAfter
<1>6. ASSUME Send, AutoMine, NEW m \in 1..Len(line), SureGrant(Step, c, r, line[m])
      PROVE  Held(world', c, r, line, m)
  <2>1. phase = "running" /\ world' = Assign(world, Step.sets)
    BY <1>6 DEF Send, Running
  <2>2. Executed({Step})
    BY <2>1, OneStepCovers DEF Executed
  <2>3. KeysKnown(world, Step)
    BY <2>1, StepIsLeft DEF HandoverInv, Prepared
  <2>4. /\ Gives(Step, Role(c, r, line[m])) /\ ~Takes(Step, Role(c, r, line[m]))
        /\ Role(c, r, line[m]) \in DOMAIN world
    BY <1>6, <2>3 DEF SureGrant, Gives, KeysKnown
  <2>5. world'[Role(c, r, line[m])] = "yes"
    BY <2>2, <2>4, KeyAfter
  <2> QED BY <1>3, <2>4, <2>5 DEF Held, IsYes
<1> QED BY <1>3, <1>4, <1>5, <1>6

\* A running script stays at, or enters, one that is not recorded; nothing recorded is forgotten.
LEMMA ScriptIsLeft ==
  ASSUME ControlOK, [Next]_vars, phase = "running" => at.script \in ScriptsLeft(migrations)
  PROVE  /\ migrations \subseteq migrations'
         /\ phase' = "running" => at'.script \in ScriptsLeft(migrations')
         /\ phase' = "running" =>
              \/ at'.step = 1
              \/ /\ phase = "running" /\ at'.script = at.script /\ at'.step = at.step + 1
                 /\ (Skip \/ Read \/ Send \/ Catch \/ Flush)
              \/ (phase = "running" /\ at' = at /\ queue' = queue)
<1>1. CASE StartRun
  <2>1. EnterScript(1) /\ migrations' = migrations
    BY <1>1 DEF StartRun
  <2>2. 1 \in Nat \ {0}
    OBVIOUS
  <2>3. ASSUME phase' = "running" PROVE at'.script \in ScriptsLeft(migrations') /\ at'.step = 1
    BY <2>1, <2>2, <2>3, EntersLeft
  <2> QED BY <2>1, <2>3
<1>2. CASE Leave
  <2>1. /\ EnterScript(at.script + 1) /\ migrations \subseteq migrations' /\ phase = "running"
    BY <1>2 DEF Leave, Running
  <2>2. at.script + 1 \in Nat \ {0}
    BY <2>1, StepOfScript
  <2>3. ASSUME phase' = "running" PROVE at'.script \in ScriptsLeft(migrations') /\ at'.step = 1
    BY <2>1, <2>2, <2>3, EntersLeft
  <2> QED BY <2>1, <2>3
<1>3. CASE Skip \/ Read \/ Send \/ Catch \/ Flush
  <2>1. phase = "running" /\ migrations' = migrations /\ Advance
    BY <1>3 DEF Skip, Read, Send, Catch, Flush, Fails, Running
  <2>2. at'.script = at.script /\ at'.step = at.step + 1
    BY <2>1 DEF ControlOK, Advance
  <2> QED BY <1>3, <2>1, <2>2
<1>4. CASE Mine \/ SafeExecute \/ UNCHANGED vars
  BY <1>4 DEF Mine, SafeExecute, vars
<1>5. CASE Throw \/ Crash
  BY <1>5 DEF Throw, Crash
<1> QED BY <1>1, <1>2, <1>3, <1>4, <1>5 DEF Next

LEMMA StepsLeftShrink ==
  ASSUME migrations \subseteq migrations'
  PROVE  StepsLeft(migrations') \subseteq StepsLeft(migrations)
BY DEF StepsLeft, ScriptsLeft

LEMMA LeftOfAll == StepsLeft(migrations) \subseteq AllSteps
BY DEF StepsLeft, ScriptsLeft, AllSteps

\* The calls of a queue with one more.
LEMMA CallsAppended ==
  ASSUME NEW q \in Seq(AllSteps), NEW s \in AllSteps
  PROVE  CallsOf(Append(q, s)) = CallsOf(q) \cup {s}
<1>1. /\ Len(Append(q, s)) = Len(q) + 1 /\ Len(q) \in Nat
      /\ \A p \in 1..Len(q) : Append(q, s)[p] = q[p]
      /\ Append(q, s)[Len(q) + 1] = s
  BY AppendProperties
<1>2. 1..(Len(q) + 1) = (1..Len(q)) \cup {Len(q) + 1}
  BY <1>1
<1> QED BY <1>1, <1>2 DEF CallsOf

\* How the queue, the batches and the mempool change.
LEMMA CallsWaiting ==
  ASSUME ControlOK, [Next]_vars
  PROVE  /\ \/ CallsOf(queue') = CallsOf(queue)
            \/ CallsOf(queue') = {}
            \/ /\ CallsOf(queue') = CallsOf(queue) \cup {Step} /\ world' = world
               /\ UseSafe /\ Catch /\ Step.onFail = "queue"
         /\ \A b \in batches' : b \in batches \/ (b = queue /\ world' = world /\ Flush)
         /\ \A p \in 1..Len(pending') : \/ \E x \in 1..Len(pending) : pending'[p] = pending[x]
                                        \/ (pending'[p] = Step /\ Send /\ ~AutoMine)
<1>0. pending \in Seq(AllSteps) /\ queue \in Seq(AllSteps)
  BY DEF ControlOK
<1>1. CallsOf(<<>>) = {}
  BY DEF CallsOf
<1>2. \/ queue' = queue
      \/ queue' = <<>>
      \/ queue' = Append(queue, Step) /\ world' = world /\ UseSafe /\ Catch /\ Step.onFail = "queue"
  BY DEF Next, StartRun, Skip, Read, Send, Mine, Throw, Catch, Flush, Leave, Crash, SafeExecute,
         EnterScript, vars
<1>3. Catch => Step \in AllSteps
  BY StepOfScript DEF Catch, Fails
<1>4. \A b \in batches' : b \in batches \/ (b = queue /\ world' = world /\ Flush)
  BY DEF Next, StartRun, Skip, Read, Send, Mine, Throw, Catch, Flush, Leave, Crash, SafeExecute, vars
<1>5. CASE Send
  <2>1. pending' = pending \/ (pending' = Append(pending, Step) /\ ~AutoMine)
    BY <1>5 DEF Send
  <2>2. Step \in AllSteps
    BY <1>5, StepOfScript DEF Send, Running
  <2>3. CASE pending' = pending
    BY <1>0, <1>1, <1>2, <1>3, <1>4, <2>3, CallsAppended
  <2>4. CASE pending' = Append(pending, Step) /\ ~AutoMine
    <3>1. /\ Len(pending') = Len(pending) + 1 /\ Len(pending) \in Nat
          /\ \A p \in 1..Len(pending) : pending'[p] = pending[p]
          /\ pending'[Len(pending) + 1] = Step
      BY <1>0, <2>2, <2>4, AppendProperties
    <3>2. \A p \in 1..Len(pending') : p \in 1..Len(pending) \/ p = Len(pending) + 1
      BY <3>1
    <3>3. \A p \in 1..Len(pending') : \/ \E x \in 1..Len(pending) : pending'[p] = pending[x]
                                     \/ (pending'[p] = Step /\ Send /\ ~AutoMine)
      BY <1>5, <2>4, <3>1, <3>2
    <3> QED BY <1>0, <1>1, <1>2, <1>3, <1>4, <3>3, CallsAppended
  <2> QED BY <2>1, <2>3, <2>4
<1>6. CASE Mine
  <2>1. pending # <<>> /\ pending' = Tail(pending)
    BY <1>6 DEF Mine
  <2>2. \A p \in 1..Len(pending') : p + 1 \in 1..Len(pending) /\ pending'[p] = pending[p + 1]
    BY <1>0, <2>1
  <2> QED BY <1>0, <1>1, <1>2, <1>3, <1>4, <2>2, CallsAppended
<1>7. CASE ~(Send \/ Mine)
  <2>1. pending' = pending
    BY <1>7 DEF Next, StartRun, Skip, Read, Throw, Catch, Flush, Leave, Crash, SafeExecute, vars
  <2> QED BY <1>0, <1>1, <1>2, <1>3, <1>4, <2>1, CallsAppended
<1> QED BY <1>5, <1>6, <1>7

\* What is harmless stays so while holders stay.
LEMMA PassingStays ==
  ASSUME NEW c, NEW r, NEW line, Len(line) \in Nat, NEW w, NEW v, DOMAIN v = DOMAIN w,
         \A m \in 1..(Len(line) + 1) : Held(w, c, r, line, m) => Held(v, c, r, line, m),
         NEW calls, Passing(w, calls, c, r, line)
  PROVE  Passing(v, calls, c, r, line)
<1> SUFFICES ASSUME NEW s \in calls, NEW h \in 1..Len(line), Takes(s, Role(c, r, line[h]))
             PROVE  \/ Held(v, c, r, line, h + 1)
                    \/ \E t \in calls : \E m \in (h + 1)..Len(line) :
                         Gives(t, Role(c, r, line[m])) /\ Role(c, r, line[m]) \in DOMAIN v
  BY DEF Passing
<1>1. \/ Held(w, c, r, line, h + 1)
      \/ \E t \in calls : \E m \in (h + 1)..Len(line) :
           Gives(t, Role(c, r, line[m])) /\ Role(c, r, line[m]) \in DOMAIN w
  BY DEF Passing
<1>2. h + 1 \in 1..(Len(line) + 1)
  OBVIOUS
<1> QED BY <1>1, <1>2

\* The calls in the queue and in the batches stay harmless: one is queued after its grant.
LEMMA WaitingPasses ==
  ASSUME NEW c, NEW r, NEW line, Len(line) \in Nat, HandsOver(Scripts, c, r, line),
         HandoverInv(c, r, line), [Next]_vars
  PROVE  /\ Passing(world', CallsOf(queue'), c, r, line)
         /\ \A b \in batches' : Passing(world', CallsOf(b), c, r, line)
<1>1. /\ DOMAIN world' = DOMAIN world
      /\ \A m \in 1..(Len(line) + 1) : Held(world, c, r, line, m) => Held(world', c, r, line, m)
  BY HandoverStep
<1>2. /\ Passing(world, CallsOf(queue), c, r, line)
      /\ \A b \in batches : Passing(world, CallsOf(b), c, r, line)
  BY DEF HandoverInv
<1>3. /\ Passing(world', CallsOf(queue), c, r, line)
      /\ \A b \in batches : Passing(world', CallsOf(b), c, r, line)
  BY <1>1, <1>2, PassingStays
<1>4. /\ \/ CallsOf(queue') = CallsOf(queue)
         \/ CallsOf(queue') = {}
         \/ /\ CallsOf(queue') = CallsOf(queue) \cup {Step} /\ world' = world
            /\ UseSafe /\ Catch /\ Step.onFail = "queue"
      /\ \A b \in batches' : b \in batches \/ (b = queue /\ world' = world /\ Flush)
  BY CallsWaiting DEF HandoverInv
<1>5. CASE /\ CallsOf(queue') = CallsOf(queue) \cup {Step} /\ world' = world
           /\ UseSafe /\ Catch /\ Step.onFail = "queue"
  <2>1. phase = "running"
    BY <1>5 DEF Catch, Fails
  <2>2. ASSUME NEW h \in 1..Len(line), Takes(Step, Role(c, r, line[h]))
        PROVE  \/ Held(world', c, r, line, h + 1)
               \/ \E t \in CallsOf(queue') : \E m \in (h + 1)..Len(line) :
                    Gives(t, Role(c, r, line[m])) /\ Role(c, r, line[m]) \in DOMAIN world'
    <3>1. \/ Held(world, c, r, line, h + 1)
          \/ \E g \in CallsOf(queue) : \E m \in (h + 1)..Len(line) :
               Gives(g, Role(c, r, line[m])) /\ Role(c, r, line[m]) \in DOMAIN world
      BY <1>5, <2>1, <2>2, TakingWasPrepared
    <3> QED BY <1>5, <3>1
  <2>3. Passing(world', CallsOf(queue'), c, r, line)
    BY <1>3, <1>5, <2>2 DEF Passing
  <2> QED BY <1>3, <1>4, <2>3
<1>6. CASE CallsOf(queue') = {}
  BY <1>3, <1>4, <1>6 DEF Passing
<1> QED BY <1>3, <1>4, <1>5, <1>6

\* No call that takes the role is in the mempool: one is sent by an administrator only.
LEMMA NoTakerPending ==
  ASSUME NEW c, NEW r, NEW line, Len(line) \in Nat, HandsOver(Scripts, c, r, line),
         HandoverInv(c, r, line), [Next]_vars
  PROVE  \A p \in 1..Len(pending') : \A h \in 1..Len(line) : ~Takes(pending'[p], Role(c, r, line[h]))
<1> SUFFICES ASSUME NEW p \in 1..Len(pending'), NEW h \in 1..Len(line),
                    Takes(pending'[p], Role(c, r, line[h]))
             PROVE  FALSE
  OBVIOUS
<1>1. \/ \E x \in 1..Len(pending) : pending'[p] = pending[x]
      \/ (pending'[p] = Step /\ Send /\ ~AutoMine)
  BY CallsWaiting DEF HandoverInv
<1>2. CASE \E x \in 1..Len(pending) : pending'[p] = pending[x]
  BY <1>2 DEF HandoverInv
<1>3. CASE pending'[p] = Step /\ Send /\ ~AutoMine
  <2>1. phase = "running" /\ Succeeds(world, Step.by, Step)
    BY <1>3 DEF Send, Running
  <2>2. Takes(Step, Role(c, r, line[h]))
    BY <1>3
  <2>3. Step.auth = <<c, "ADMIN">>
    BY <2>1, <2>2, TakingWasPrepared
  <2>4. world[Role(c, "ADMIN", Step.by)] = "yes"
    BY <2>1, <2>3, AdminCalls
  <2>5. Outsider(world, c, Step.by)
    BY <2>1, <2>3, StepIsLeft DEF HandoverInv, Prepared
  <2> QED BY <1>3, <2>4, <2>5 DEF Outsider, NothingGoesWrong
<1> QED BY <1>1, <1>2, <1>3

\* The scripts left stay prepared.
LEMMA PreparedKept ==
  ASSUME NEW c, NEW r, NEW line, Len(line) \in Nat, HandsOver(Scripts, c, r, line),
         HandoverInv(c, r, line), [Next]_vars
  PROVE  Prepared(world', migrations', c)
<1>1. migrations \subseteq migrations'
  BY ScriptIsLeft DEF HandoverInv
<1>2. StepsLeft(migrations') \subseteq StepsLeft(migrations)
  BY <1>1, StepsLeftShrink
<1>3. /\ DOMAIN world' = DOMAIN world
      /\ \A s \in AllSteps : Role(c, "ADMIN", s.by) \in DOMAIN world =>
           world'[Role(c, "ADMIN", s.by)] = world[Role(c, "ADMIN", s.by)]
  BY HandoverStep
<1> SUFFICES ASSUME NEW s \in StepsLeft(migrations')
             PROVE  KeysKnown(world', s) /\ (s.auth = <<c, "ADMIN">> => Outsider(world', c, s.by))
  BY DEF Prepared
<1>4. KeysKnown(world, s) /\ (s.auth = <<c, "ADMIN">> => Outsider(world, c, s.by))
  BY <1>2 DEF HandoverInv, Prepared
<1>5. s \in AllSteps
  BY <1>2, LeftOfAll
<1> QED BY <1>3, <1>4, <1>5 DEF KeysKnown, Outsider

\* A grant the script gets past: not needed, sent at once, or refused and queued.
LEMMA GrantIsTried ==
  ASSUME NEW c, NEW r, NEW line, Len(line) \in Nat, HandsOver(Scripts, c, r, line),
         HandoverInv(c, r, line), [Next]_vars, phase = "running",
         Skip \/ Read \/ Send \/ Catch \/ Flush,
         NEW m \in 1..Len(line), SureGrant(Step, c, r, line[m])
  PROVE  Tried(world', CallsOf(queue'), Step, c, r, line, m)
<1>1. /\ Step.kind = "tx" /\ Step.auth = <<c, "ADMIN">> /\ Step.needs = {}
      /\ Step.skipIf \subseteq {Has(c, r, line[m])} /\ Step.onFail = "queue"
      /\ Step.onlyIf = {} /\ Step.ifNoted = {} /\ Step.unlessNoted = {}
  BY DEF SureGrant
<1>2. KeysKnown(world, Step) /\ Outsider(world, c, Step.by) /\ Step \in AllSteps
  BY <1>1, StepIsLeft, LeftOfAll DEF HandoverInv, Prepared
<1>3. ~Read /\ ~Flush
  BY <1>1 DEF Read, Flush, Running, Step
<1>4. CASE Skip
  <2>1. \E f \in Step.skipIf : Holds(f)
    BY <1>1, <1>4 DEF Skip, Skipped
  <2>2. Has(c, r, line[m]) \in Step.skipIf /\ Holds(Has(c, r, line[m]))
    BY <1>1, <2>1
  <2>3. Role(c, r, line[m]) \in DOMAIN world /\ world[Role(c, r, line[m])] = "yes"
    BY <1>2, <2>2 DEF KeysKnown, Holds, HoldsIn, Has
  <2>4. Held(world, c, r, line, m)
    BY <2>3 DEF Held, IsYes
  <2>5. Held(world', c, r, line, m)
    BY <2>4, HandoverStep
  <2> QED BY <2>5 DEF Tried
<1>5. CASE Send
  <2>1. world[Role(c, "ADMIN", Step.by)] = "yes"
    BY <1>1, <1>5, AdminCalls DEF Send
  <2>2. AutoMine
    BY <1>2, <2>1 DEF Outsider, NothingGoesWrong
  <2>3. Held(world', c, r, line, m)
    BY <1>5, <2>2, HandoverStep
  <2> QED BY <2>3 DEF Tried
<1>6. CASE Catch
  <2>1. world[Role(c, "ADMIN", Step.by)] # "yes"
    <3>1. ~Succeeds(world, Step.by, Step) \/ faults < MaxFaults
      BY <1>6 DEF Catch, Fails
    <3>2. faults < MaxFaults => MaxFaults # 0
      BY DEF HandoverInv, ControlOK
    <3> QED BY <1>1, <1>2, <3>1, <3>2, AdminCalls DEF Outsider, NothingGoesWrong
  <2>2. world' = world
    BY <1>6 DEF Catch
  <2>3. UseSafe => Step \in CallsOf(queue')
    <3>1. queue \in Seq(AllSteps)
      BY DEF HandoverInv, ControlOK
    <3>2. UseSafe => queue' = Append(queue, Step)
      BY <1>1, <1>6 DEF Catch
    <3> QED BY <1>2, <3>1, <3>2, CallsAppended
  <2> QED BY <2>1, <2>2, <2>3 DEF Tried
<1> QED BY <1>3, <1>4, <1>5, <1>6

\* Every grant the script is past was tried.
LEMMA TriedKept ==
  ASSUME NEW c, NEW r, NEW line, Len(line) \in Nat, HandsOver(Scripts, c, r, line),
         HandoverInv(c, r, line), [Next]_vars, phase' = "running",
         NEW k \in 1..(at'.step - 1), NEW m \in 1..Len(line),
         SureGrant(Scripts[at'.script].steps[k], c, r, line[m])
  PROVE  Tried(world', CallsOf(queue'), Scripts[at'.script].steps[k], c, r, line, m)
<1> DEFINE g == Scripts[at.script].steps[k]
<1>1. \/ at'.step = 1
      \/ /\ phase = "running" /\ at'.script = at.script /\ at'.step = at.step + 1
         /\ (Skip \/ Read \/ Send \/ Catch \/ Flush)
      \/ (phase = "running" /\ at' = at /\ queue' = queue)
  BY ScriptIsLeft DEF HandoverInv
<1>2. at'.step # 1
  OBVIOUS
<1>3. phase = "running" /\ at'.script = at.script /\ at.step \in Nat
  BY <1>1, <1>2 DEF HandoverInv, ControlOK
<1>4. CASE k \in 1..(at.step - 1) /\ CallsOf(queue) \subseteq CallsOf(queue')
  <2>1. SureGrant(g, c, r, line[m])
    BY <1>3
  <2>2. Tried(world, CallsOf(queue), g, c, r, line, m)
    BY <1>3, <1>4, <2>1 DEF HandoverInv
  <2>3. g \in StepsLeft(migrations)
    <3>1. k \in 1..Len(Scripts[at.script].steps)
      BY <1>3, <1>4, StepIsLeft DEF HandoverInv
    <3> QED BY <1>3, <3>1, StepIsLeft DEF HandoverInv
  <2>4. Outsider(world, c, g.by) /\ g \in AllSteps
    BY <2>1, <2>3, LeftOfAll DEF HandoverInv, Prepared, SureGrant
  <2>5. world'[Role(c, "ADMIN", g.by)] = world[Role(c, "ADMIN", g.by)]
    BY <2>4, HandoverStep DEF Outsider
  <2>6. Held(world, c, r, line, m) => Held(world', c, r, line, m)
    BY HandoverStep
  <2> QED BY <1>3, <1>4, <2>2, <2>5, <2>6 DEF Tried
<1>5. CASE at' = at /\ queue' = queue
  BY <1>4, <1>5
<1>6. CASE at'.step = at.step + 1 /\ (Skip \/ Read \/ Send \/ Catch \/ Flush)
  <2>1. CASE k = at.step
    <3>1. g = Step
      BY <2>1 DEF Step
    <3>2. Tried(world', CallsOf(queue'), Step, c, r, line, m)
      BY <1>3, <1>6, <3>1, GrantIsTried
    <3> QED BY <1>3, <3>1, <3>2
  <2>2. CASE k # at.step
    <3>1. CallsOf(queue) \subseteq CallsOf(queue')
      <4>1. CASE Catch
        <5>1. queue \in Seq(AllSteps) /\ Step \in AllSteps
          BY <1>3, StepOfScript DEF HandoverInv, ControlOK
        <5>2. queue' = queue \/ queue' = Append(queue, Step)
          BY <4>1 DEF Catch
        <5> QED BY <5>1, <5>2, CallsAppended
      <4>2. CASE Skip \/ Read \/ Send \/ Flush
        BY <4>2 DEF Skip, Read, Send, Flush
      <4> QED BY <1>6, <4>1, <4>2
    <3>2. k \in 1..(at.step - 1)
      BY <1>3, <1>6, <2>2
    <3> QED BY <1>4, <3>1, <3>2
  <2> QED BY <2>1, <2>2
<1> QED BY <1>1, <1>2, <1>5, <1>6

LEMMA HandoverKept ==
  ASSUME NEW c, NEW r, NEW line, Len(line) \in Nat, HandsOver(Scripts, c, r, line),
         HandoverInv(c, r, line), [Next]_vars
  PROVE  HandoverInv(c, r, line)'
<1>1. ControlOK'
  BY ControlKept DEF HandoverInv
<1>2. Held(world', c, r, line, 1)
  <2>1. Held(world, c, r, line, 1) /\ 1 \in 1..(Len(line) + 1)
    BY DEF HandoverInv
  <2> QED BY <2>1, HandoverStep
<1>3. phase' = "running" => at'.script \in ScriptsLeft(migrations')
  BY ScriptIsLeft DEF HandoverInv
<1>4. Prepared(world', migrations', c)
  BY PreparedKept
<1>5. \A p \in 1..Len(pending') : \A h \in 1..Len(line) : ~Takes(pending'[p], Role(c, r, line[h]))
  BY NoTakerPending
<1>6. /\ Passing(world', CallsOf(queue'), c, r, line)
      /\ \A b \in batches' : Passing(world', CallsOf(b), c, r, line)
  BY WaitingPasses
<1>7. phase' = "running" => \A k \in 1..(at'.step - 1) : \A m \in 1..Len(line) :
        SureGrant(Scripts[at'.script].steps[k], c, r, line[m]) =>
          Tried(world', CallsOf(queue'), Scripts[at'.script].steps[k], c, r, line, m)
  BY TriedKept
<1> QED BY <1>1, <1>2, <1>3, <1>4, <1>5, <1>6, <1>7 DEF HandoverInv

\* An upgrade starts with a holder, and with nothing under way.
LEMMA HandoverStarts ==
  ASSUME NEW c, NEW r, NEW line, UpgradeInit,
         \A start \in Starts : ReadyToHandOver(start, c, r, line)
  PROVE  HandoverInv(c, r, line)
<1>1. PICK start \in Starts : StartFrom(start.world, start.recorded)
  BY DEF UpgradeInit
<1>2. /\ world = start.world /\ migrations = start.recorded /\ phase = "ready"
      /\ at = [script |-> 1, step |-> 1] /\ noted = {} /\ queue = <<>> /\ batches = {}
      /\ pending = <<>> /\ crashes = 0 /\ faults = 0
  BY <1>1 DEF StartFrom
<1>3. ReadyToHandOver(start, c, r, line)
  OBVIOUS
<1>4. ControlOK
  BY <1>2, EngineAssumption DEF ControlOK
<1>5. Held(world, c, r, line, 1) /\ Prepared(world, migrations, c)
  BY <1>2, <1>3 DEF ReadyToHandOver, Held, Prepared
<1>6. Passing(world, CallsOf(queue), c, r, line)
  BY <1>2 DEF Passing, CallsOf
<1> QED BY <1>2, <1>4, <1>5, <1>6 DEF HandoverInv

LEMMA LineHeld ==
  ASSUME NEW c, NEW r, NEW line, HandoverInv(c, r, line)
  PROVE  \E x \in {line[h] : h \in 1..Len(line)} : Known(Has(c, r, x))
BY DEF HandoverInv, Held, IsYes, Known, Has, Holds, HoldsIn

\* While dUSD is moved from issuer to issuer (deploy/22 and 23) one of them can mint, whatever
\* is killed, mined late or fails, if scripts grant the role before they revoke it and leave
\* both to the Safe together; unless their sender is an admin of dUSD and calls may fail.
THEOREM MinterStays ==
  ASSUME HandsOver(Scripts, Token, "MINTER", IssuerLine),
         \A start \in Starts : ReadyToHandOver(start, Token, "MINTER", IssuerLine)
  PROVE  UpgradeSpec => []MinterNeverMissing
<1> DEFINE Inv == HandoverInv(Token, "MINTER", IssuerLine)
<1>1. Len(IssuerLine) \in Nat /\ DOMAIN IssuerLine = 1..Len(IssuerLine)
  BY DEF IssuerLine
<1>2. UpgradeInit => Inv
  BY HandoverStarts
<1>3. Inv /\ [Next]_vars => Inv'
  BY <1>1, HandoverKept
<1>4. Inv => MinterNeverMissing
  BY <1>1, LineHeld DEF MinterNeverMissing, Issuers
<1> QED BY <1>2, <1>3, <1>4, PTL DEF UpgradeSpec

\* So can one of the redeemers withdraw collateral from the vault.
THEOREM WithdrawerStays ==
  ASSUME HandsOver(Scripts, Vault, Withdrawer, RedeemerLine),
         \A start \in Starts : ReadyToHandOver(start, Vault, Withdrawer, RedeemerLine)
  PROVE  UpgradeSpec => []WithdrawerNeverMissing
<1> DEFINE Inv == HandoverInv(Vault, Withdrawer, RedeemerLine)
<1>1. Len(RedeemerLine) \in Nat /\ DOMAIN RedeemerLine = 1..Len(RedeemerLine)
  BY DEF RedeemerLine
<1>2. UpgradeInit => Inv
  BY HandoverStarts
<1>3. Inv /\ [Next]_vars => Inv'
  BY <1>1, HandoverKept
<1>4. Inv => WithdrawerNeverMissing
  BY <1>1, LineHeld DEF WithdrawerNeverMissing, Redeemers
<1> QED BY <1>2, <1>3, <1>4, PTL DEF UpgradeSpec

-----------------------------------------------------------------------------
(***************************************************************************)
(* A contract is deployed with its deployer as admin, who gives the role   *)
(* up only having read that governance has it, or in a step that waits on  *)
(* a local variable set after such a read (Earned).  That a call still to  *)
(* be executed takes the role of the deployer is as much evidence.         *)
(***************************************************************************)
Earned(steps, label, fact) == \A j \in 1..Len(steps) :
  steps[j].note = label \/ label \in steps[j].noteFail => fact \in steps[j].onlyIf

Waiting == CallsOf(pending) \cup CallsOf(queue) \cup UNION {CallsOf(b) : b \in batches}

Governs(w, c) == IsYes(w, Role(c, "ADMIN", Governance))
SafeToTake(w, s, c) ==
  KeysKnown(w, s) /\ (Takes(s, Role(c, "ADMIN", Deployer)) => Governs(w, c))

AdminInv(c) ==
  /\ ControlOK
  /\ HasAdmin(world, c)
  /\ phase = "running" => at.script \in ScriptsLeft(migrations)
  /\ \A s \in StepsLeft(migrations) : KeysKnown(world, s)
  /\ \A s \in Waiting : SafeToTake(world, s, c)
  /\ phase = "running" => \A label \in noted :
       Earned(Scripts[at.script].steps, label, Has(c, "ADMIN", Governance)) => Governs(world, c)

\* No step takes governance's role, and one that records the contract gives the deployer's.
LEMMA GovernanceKept ==
  ASSUME NEW c, KeepsAdmin(Scripts, c, Governance, Deployer), NEW s \in AllSteps
  PROVE  /\ ~Takes(s, Role(c, "ADMIN", Governance))
         /\ Writes(s, Record(c)) => Gives(s, Role(c, "ADMIN", Deployer))
BY DEF KeepsAdmin, AllSteps, StepsOf

\* A step the script executes takes the deployer's role only if governance has it.
LEMMA TakesOnlyEarned ==
  ASSUME NEW c, KeepsAdmin(Scripts, c, Governance, Deployer), AdminInv(c),
         phase = "running", ~Skipped(Step)
  PROVE  /\ Step \in AllSteps /\ SafeToTake(world, Step, c)
         /\ Has(c, "ADMIN", Governance) \in Step.onlyIf => Governs(world, c)
<1> DEFINE steps == Scripts[at.script].steps
           fact == Has(c, "ADMIN", Governance)
<1>1. at.script \in 1..Len(Scripts) /\ at.step \in 1..Len(steps) /\ Step \in AllSteps
  BY StepOfScript DEF AdminInv
<1>2. KeysKnown(world, Step)
  BY StepIsLeft DEF AdminInv
<1>3. fact \in Step.onlyIf => Governs(world, c)
  <2>1. fact \in Step.onlyIf => Holds(fact) /\ fact[1] \in DOMAIN world
    BY <1>2 DEF Skipped, KeysKnown
  <2> QED BY <2>1 DEF Governs, IsYes, Holds, HoldsIn, Has
<1>4. ASSUME Takes(Step, Role(c, "ADMIN", Deployer)) PROVE Governs(world, c)
  <2>1. ReadsFirst(steps, Step, fact)
    BY <1>1, <1>4 DEF KeepsAdmin, Step
  <2>2. CASE \E label \in Step.ifNoted : Earned(steps, label, fact)
    <3>1. PICK label \in Step.ifNoted : Earned(steps, label, fact)
      BY <2>2
    <3>2. label \in noted
      BY <3>1 DEF Skipped
    <3> QED BY <3>1, <3>2 DEF AdminInv
  <2> QED BY <1>3, <2>1, <2>2 DEF ReadsFirst, Earned
<1> QED BY <1>1, <1>2, <1>3, <1>4 DEF SafeToTake

\* Whatever is executed, governance's role stays, and an admin does.
LEMMA AdminStep ==
  ASSUME NEW c, KeepsAdmin(Scripts, c, Governance, Deployer), AdminInv(c), [Next]_vars
  PROVE  /\ DOMAIN world' = DOMAIN world
         /\ Governs(world, c) => Governs(world', c)
         /\ HasAdmin(world', c)
<1> DEFINE D == Role(c, "ADMIN", Deployer)
           G == Role(c, "ADMIN", Governance)
<1>0. ControlOK /\ HasAdmin(world, c)
  BY DEF AdminInv
<1>1. PICK steps \in SUBSET AllSteps :
        /\ Executed(steps)
        /\ \/ steps = {}
           \/ steps = {Step} /\ Read
           \/ steps = {Step} /\ Send /\ (AutoMine \/ Step.wait)
           \/ pending # <<>> /\ steps = {Head(pending)} /\ Mine
           \/ \E b \in batches : steps = CallsOf(b)
  BY <1>0, WorldChanges
<1>2. \A s \in steps : SafeToTake(world, s, c)
  <2>1. CASE steps = {Step} /\ (Read \/ Send)
    <3>1. phase = "running" /\ ~Skipped(Step)
      BY <2>1 DEF Read, Send, Running
    <3> QED BY <2>1, <3>1, TakesOnlyEarned
  <2>2. CASE pending # <<>> /\ steps = {Head(pending)}
    <3>1. pending \in Seq(AllSteps) /\ pending # <<>>
      BY <1>0, <2>2 DEF ControlOK
    <3>2. Head(pending) \in CallsOf(pending)
      BY <3>1 DEF CallsOf
    <3> QED BY <2>2, <3>2 DEF AdminInv, Waiting
  <2>3. CASE \E b \in batches : steps = CallsOf(b)
    BY <2>3 DEF AdminInv, Waiting
  <2> QED BY <1>1, <2>1, <2>2, <2>3
<1>3. DOMAIN world' = DOMAIN world
  BY <1>1, ExecutedKeys
<1>4. Governs(world, c) => Governs(world', c)
  <2>1. \A s \in steps : ~Takes(s, G)
    BY <1>1, GovernanceKept
  <2> QED BY <1>1, <1>3, <2>1, KeyAfter DEF Governs, IsYes
<1>5. ASSUME IsYes(world', Record(c)) PROVE IsYes(world', D) \/ IsYes(world', G)
  <2>1. CASE \E s \in steps : Takes(s, D)
    BY <1>2, <1>4, <2>1 DEF SafeToTake, Governs
  <2>2. CASE \A s \in steps : ~Takes(s, D)
    <3>1. CASE IsYes(world, D) \/ \E s \in steps : Gives(s, D)
      <4>1. D \in DOMAIN world
        BY <1>2, <3>1 DEF IsYes, SafeToTake, KeysKnown, Gives
      <4> QED BY <1>1, <1>3, <2>2, <3>1, <4>1, KeyAfter DEF IsYes
    <3>2. CASE ~IsYes(world, D) /\ \A s \in steps : ~Gives(s, D)
      <4>1. \A s \in steps : ~Writes(s, Record(c))
        BY <1>1, <3>2, GovernanceKept
      <4>2. IsYes(world, Record(c))
        BY <1>1, <1>3, <1>5, <4>1, KeyAfter DEF IsYes
      <4> QED BY <1>0, <1>4, <3>2, <4>2 DEF HasAdmin, Governs
    <3> QED BY <3>1, <3>2
  <2> QED BY <2>1, <2>2
<1> QED BY <1>3, <1>4, <1>5 DEF HasAdmin

\* A call comes to wait only if it was waiting, or is the step at hand.
LEMMA WaitingGrows ==
  ASSUME ControlOK, [Next]_vars
  PROVE  Waiting' \subseteq Waiting \/ (Waiting' \subseteq Waiting \cup {Step} /\ (Send \/ Catch))
<1>1. /\ \/ CallsOf(queue') = CallsOf(queue)
         \/ CallsOf(queue') = {}
         \/ /\ CallsOf(queue') = CallsOf(queue) \cup {Step} /\ world' = world
            /\ UseSafe /\ Catch /\ Step.onFail = "queue"
      /\ \A b \in batches' : b \in batches \/ (b = queue /\ world' = world /\ Flush)
      /\ \A p \in 1..Len(pending') : \/ \E x \in 1..Len(pending) : pending'[p] = pending[x]
                                     \/ (pending'[p] = Step /\ Send /\ ~AutoMine)
  BY CallsWaiting
<1>2. \A s \in CallsOf(pending') : s \in CallsOf(pending) \/ (s = Step /\ Send)
  BY <1>1 DEF CallsOf
<1>3. \A s \in CallsOf(queue') : s \in CallsOf(queue) \/ (s = Step /\ Catch)
  BY <1>1
<1>4. \A b \in batches' : CallsOf(b) \subseteq Waiting
  BY <1>1 DEF Waiting
<1>5. \A s \in Waiting' : s \in Waiting \/ (s = Step /\ (Send \/ Catch))
  <2>1. Waiting' = CallsOf(pending') \cup CallsOf(queue') \cup UNION {CallsOf(b) : b \in batches'}
    BY DEF Waiting, CallsOf
  <2> QED BY <1>2, <1>3, <1>4, <2>1 DEF Waiting
<1> QED BY <1>5

\* A local variable is set by the step at hand, or was set; a new script starts with none.
LEMMA NotedGrows ==
  ASSUME ControlOK, [Next]_vars, phase' = "running", NEW label \in noted'
  PROVE  /\ phase = "running" /\ at'.script = at.script
         /\ \/ label \in noted
            \/ ~Skipped(Step) /\ (Step.note = label \/ label \in Step.noteFail)
<1>1. CASE StartRun \/ Leave
  BY <1>1 DEF StartRun, Leave, EnterScript
<1>2. CASE Read \/ Send \/ Catch
  <2>1. /\ phase = "running" /\ Advance /\ ~Skipped(Step)
        /\ noted' = noted \cup ({Step.note} \ {""}) \/ noted' = noted \cup (Step.noteFail \ {""})
    BY <1>2 DEF Read, Send, Catch, Fails, Running, NoteAll
  <2>2. at'.script = at.script
    BY <2>1 DEF Advance, ControlOK
  <2> QED BY <2>1, <2>2
<1>3. CASE Skip \/ Flush
  <2>1. phase = "running" /\ Advance /\ noted' = noted
    BY <1>3 DEF Skip, Flush, Running
  <2>2. at'.script = at.script
    BY <2>1 DEF Advance, ControlOK
  <2> QED BY <2>1, <2>2
<1>4. CASE Throw \/ Crash
  BY <1>4 DEF Throw, Crash
<1>5. CASE Mine \/ SafeExecute \/ UNCHANGED vars
  BY <1>5 DEF Mine, SafeExecute, vars
<1> QED BY <1>1, <1>2, <1>3, <1>4, <1>5 DEF Next

LEMMA AdminKept ==
  ASSUME NEW c, KeepsAdmin(Scripts, c, Governance, Deployer), AdminInv(c), [Next]_vars
  PROVE  AdminInv(c)'
<1>0. ControlOK /\ (phase = "running" => at.script \in ScriptsLeft(migrations))
  BY DEF AdminInv
<1>1. ControlOK'
  BY <1>0, ControlKept
<1>2. /\ DOMAIN world' = DOMAIN world /\ HasAdmin(world', c)
      /\ Governs(world, c) => Governs(world', c)
  BY AdminStep
<1>3. phase' = "running" => at'.script \in ScriptsLeft(migrations')
  BY <1>0, ScriptIsLeft
<1>4. \A s \in StepsLeft(migrations') : KeysKnown(world', s)
  <2>1. StepsLeft(migrations') \subseteq StepsLeft(migrations)
    BY <1>0, ScriptIsLeft, StepsLeftShrink
  <2> QED BY <1>2, <2>1 DEF AdminInv, KeysKnown
<1>5. \A s \in Waiting' : SafeToTake(world', s, c)
  <2>1. \A s : SafeToTake(world, s, c) => SafeToTake(world', s, c)
    BY <1>2 DEF SafeToTake, KeysKnown
  <2>2. CASE Waiting' \subseteq Waiting
    BY <2>1, <2>2 DEF AdminInv
  <2>3. CASE Waiting' \subseteq Waiting \cup {Step} /\ (Send \/ Catch)
    <3>1. phase = "running" /\ ~Skipped(Step)
      BY <2>3 DEF Send, Catch, Fails, Running
    <3>2. SafeToTake(world, Step, c)
      BY <3>1, TakesOnlyEarned
    <3> QED BY <2>1, <2>3, <3>2 DEF AdminInv
  <2> QED BY <1>0, <2>2, <2>3, WaitingGrows
<1>6. ASSUME phase' = "running", NEW label \in noted',
             Earned(Scripts[at'.script].steps, label, Has(c, "ADMIN", Governance))
      PROVE  Governs(world', c)
  <2>1. /\ phase = "running" /\ at'.script = at.script
        /\ \/ label \in noted
           \/ ~Skipped(Step) /\ (Step.note = label \/ label \in Step.noteFail)
    BY <1>0, <1>6, NotedGrows
  <2>2. CASE label \in noted
    BY <1>2, <1>6, <2>1, <2>2 DEF AdminInv
  <2>3. CASE ~Skipped(Step) /\ (Step.note = label \/ label \in Step.noteFail)
    <3>1. at.step \in 1..Len(Scripts[at.script].steps)
      BY <1>0, <2>1, StepOfScript
    <3>2. Has(c, "ADMIN", Governance) \in Step.onlyIf
      BY <1>6, <2>1, <2>3, <3>1 DEF Earned, Step
    <3> QED BY <1>2, <2>1, <2>3, <3>2, TakesOnlyEarned
  <2> QED BY <2>1, <2>2, <2>3
<1> QED BY <1>1, <1>2, <1>3, <1>4, <1>5, <1>6 DEF AdminInv

LEMMA AdminStarts ==
  ASSUME NEW c, UpgradeInit, \A start \in Starts : ReadyToMoveAdmin(start, c)
  PROVE  AdminInv(c)
<1>1. PICK start \in Starts : StartFrom(start.world, start.recorded)
  BY DEF UpgradeInit
<1>2. /\ world = start.world /\ migrations = start.recorded /\ phase = "ready"
      /\ at = [script |-> 1, step |-> 1] /\ noted = {} /\ queue = <<>> /\ batches = {}
      /\ pending = <<>> /\ crashes = 0 /\ faults = 0
  BY <1>1 DEF StartFrom
<1>3. ReadyToMoveAdmin(start, c)
  OBVIOUS
<1>4. ControlOK
  BY <1>2, EngineAssumption DEF ControlOK
<1>5. Waiting = {}
  BY <1>2 DEF Waiting, CallsOf
<1> QED BY <1>2, <1>3, <1>4, <1>5 DEF ReadyToMoveAdmin, AdminInv

\* A contract of dUSD that is deployed keeps an admin while its roles are moved from the
\* deployer to governance (migrate...RolesIdempotent, ensureDefaultAdminExistsAndRevokeFrom),
\* whatever is killed, mined late or fails, if the deployer's role is taken only once
\* governance's was read on the chain.
THEOREM AdminStays ==
  ASSUME \A c \in Governed : KeepsAdmin(Scripts, c, Governance, Deployer),
         \A c \in Governed : \A start \in Starts : ReadyToMoveAdmin(start, c)
  PROVE  UpgradeSpec => []AdminNeverMissing
<1> DEFINE Inv == \A c \in Governed : AdminInv(c)
<1>1. UpgradeInit => Inv
  BY AdminStarts
<1>2. Inv /\ [Next]_vars => Inv'
  BY AdminKept
<1>3. Inv => AdminNeverMissing
  <2>1. \A c \in Governed : AdminInv(c) => HasAdmin(world, c)
    BY DEF AdminInv
  <2> QED BY <2>1 DEF AdminNeverMissing, HasAdmin, IsYes, Known, Recorded, Has, Holds, HoldsIn
<1> QED BY <1>1, <1>2, <1>3, PTL DEF UpgradeSpec

-----------------------------------------------------------------------------
(***************************************************************************)
(* Scripts whose callers are no administrators of a contract: none of its  *)
(* administrators' calls is ever mined that the Safe does not make, and a  *)
(* batch holds what the script was refused before it flushed.              *)
(***************************************************************************)
Can(w, c, r, account) == IsYes(w, Role(c, r, account))

Outside(c) ==
  /\ ControlOK
  /\ phase = "running" => at.script \in ScriptsLeft(migrations)
  /\ Strangers(world, migrations, c)
  /\ \A p \in 1..Len(pending) : pending[p].auth # <<c, "ADMIN">>
  /\ UseSafe \/ CallsOf(queue) = {}
  /\ phase = "running" => CallsOf(queue) \subseteq {Scripts[at.script].steps[k] : k \in 1..(at.step - 1)}

\* Who is an administrator never changes, for the callers of steps.
LEMMA AdminsStay ==
  ASSUME NEW c, AdminsFixed(Scripts, c), ControlOK, [Next]_vars,
         NEW s \in AllSteps, Role(c, "ADMIN", s.by) \in DOMAIN world
  PROVE  world'[Role(c, "ADMIN", s.by)] = world[Role(c, "ADMIN", s.by)]
<1>1. PICK steps \in SUBSET AllSteps : Executed(steps)
  BY WorldChanges
<1>2. \A t \in steps : ~Writes(t, Role(c, "ADMIN", s.by))
  <2>1. AllSteps = StepsIn(Scripts)
    BY DEF AllSteps, StepsOf, StepsIn
  <2> QED BY <1>1, <2>1 DEF AdminsFixed
<1> QED BY <1>1, <1>2, KeyAfter

LEMMA StrangersStay ==
  ASSUME NEW c, AdminsFixed(Scripts, c), ControlOK, [Next]_vars, DOMAIN world' = DOMAIN world,
         phase = "running" => at.script \in ScriptsLeft(migrations), Strangers(world, migrations, c)
  PROVE  Strangers(world', migrations', c)
<1>1. StepsLeft(migrations') \subseteq StepsLeft(migrations)
  BY ScriptIsLeft, StepsLeftShrink
<1> SUFFICES ASSUME NEW s \in StepsLeft(migrations')
             PROVE  KeysKnown(world', s) /\ (s.auth = <<c, "ADMIN">> => Stranger(world', c, s.by))
  BY DEF Strangers
<1>2. KeysKnown(world, s) /\ (s.auth = <<c, "ADMIN">> => Stranger(world, c, s.by)) /\ s \in AllSteps
  BY <1>1, LeftOfAll DEF Strangers
<1> QED BY <1>2, AdminsStay DEF KeysKnown, Stranger

\* The step at hand of a running script: its keys are known, and it is no call of an admin.
LEMMA StrangerCalls ==
  ASSUME NEW c, Outside(c), phase = "running"
  PROVE  /\ Step \in AllSteps /\ KeysKnown(world, Step)
         /\ Step.auth = <<c, "ADMIN">> => ~Succeeds(world, Step.by, Step)
<1>1. Step \in StepsLeft(migrations)
  BY StepIsLeft DEF Outside
<1>2. KeysKnown(world, Step) /\ (Step.auth = <<c, "ADMIN">> => Stranger(world, c, Step.by))
  BY <1>1 DEF Outside, Strangers
<1> QED BY <1>1, <1>2, LeftOfAll, AdminCalls DEF Stranger

\* No call of an administrator of the contract is in the mempool.
LEMMA NoAdminPending ==
  ASSUME NEW c, Outside(c), [Next]_vars
  PROVE  \A p \in 1..Len(pending') : pending'[p].auth # <<c, "ADMIN">>
<1> SUFFICES ASSUME NEW p \in 1..Len(pending') PROVE pending'[p].auth # <<c, "ADMIN">>
  OBVIOUS
<1>1. \/ \E x \in 1..Len(pending) : pending'[p] = pending[x]
      \/ (pending'[p] = Step /\ Send /\ ~AutoMine)
  BY CallsWaiting DEF Outside
<1>2. CASE pending'[p] = Step /\ Send
  <2>1. phase = "running" /\ Succeeds(world, Step.by, Step)
    BY <1>2 DEF Send, Running
  <2> QED BY <1>2, <2>1, StrangerCalls
<1> QED BY <1>1, <1>2 DEF Outside

\* The calls in the queue are of steps the script is past.
LEMMA QueueOfPast ==
  ASSUME NEW c, Outside(c),
         phase = "running", at'.step = at.step + 1, Skip \/ Read \/ Send \/ Catch \/ Flush
  PROVE  /\ CallsOf(queue') \subseteq {Scripts[at.script].steps[k] : k \in 1..at.step}
         /\ CallsOf(queue) \subseteq CallsOf(queue') /\ noted \subseteq noted'
         /\ Catch => /\ Labels(Step) \subseteq noted'
                     /\ Step.onFail = "queue" /\ UseSafe => Step \in CallsOf(queue')
<1> DEFINE steps == Scripts[at.script].steps
<1>1. at.step \in Nat \ {0} /\ steps[at.step] = Step /\ queue \in Seq(AllSteps) /\ Step \in AllSteps
  BY StepOfScript DEF Outside, ControlOK, Step
<1>2. CallsOf(queue) \subseteq {steps[k] : k \in 1..(at.step - 1)}
  BY DEF Outside
<1>3. ASSUME Skip \/ Read \/ Send \/ Flush
      PROVE  /\ CallsOf(queue') \subseteq {steps[k] : k \in 1..at.step}
             /\ CallsOf(queue) \subseteq CallsOf(queue') /\ noted \subseteq noted'
  <2>1. queue' = queue /\ noted \subseteq noted'
    BY <1>3 DEF Skip, Read, Send, Flush, NoteAll
  <2> QED BY <1>1, <1>2, <2>1
<1>4. CASE Catch
  <2>1. /\ queue' = IF Step.onFail = "queue" /\ UseSafe THEN Append(queue, Step) ELSE queue
        /\ noted' = noted \cup Labels(Step)
    BY <1>4, Zenon DEF Catch, NoteAll, Labels
  <2>2. CallsOf(Append(queue, Step)) = CallsOf(queue) \cup {Step}
    BY <1>1, CallsAppended
  <2> QED BY <1>1, <1>2, <2>1, <2>2
<1> QED BY <1>3, <1>4

LEMMA OutsideKept ==
  ASSUME NEW c, AdminsFixed(Scripts, c), Outside(c), [Next]_vars
  PROVE  Outside(c)'
<1>0. ControlOK /\ (phase = "running" => at.script \in ScriptsLeft(migrations))
  BY DEF Outside
<1>1. ControlOK'
  BY <1>0, ControlKept
<1>2. phase' = "running" => at'.script \in ScriptsLeft(migrations')
  BY <1>0, ScriptIsLeft
<1>3. DOMAIN world' = DOMAIN world
  BY <1>0, WorldChanges, ExecutedKeys
<1>4. Strangers(world', migrations', c)
  BY <1>0, <1>3, StrangersStay DEF Outside
<1>5. \A p \in 1..Len(pending') : pending'[p].auth # <<c, "ADMIN">>
  BY NoAdminPending
<1>6. UseSafe \/ CallsOf(queue') = {}
  <2>1. UseSafe \/ CallsOf(queue') \subseteq CallsOf(queue)
    BY <1>0, CallsWaiting
  <2> QED BY <2>1 DEF Outside
<1>7. ASSUME phase' = "running"
      PROVE  CallsOf(queue') \subseteq {Scripts[at'.script].steps[k] : k \in 1..(at'.step - 1)}
  <2>1. CASE StartRun \/ Leave
    <3>1. queue' = <<>>
      BY <2>1 DEF StartRun, Leave, EnterScript
    <3> QED BY <3>1 DEF CallsOf
  <2>2. CASE Throw \/ Crash
    BY <1>7, <2>2 DEF Throw, Crash
  <2>3. CASE Mine \/ SafeExecute \/ UNCHANGED vars
    <3>1. phase = "running" /\ at' = at /\ queue' = queue
      BY <1>7, <2>3 DEF Mine, SafeExecute, vars
    <3> QED BY <3>1 DEF Outside
  <2>4. CASE Skip \/ Read \/ Send \/ Catch \/ Flush
    <3>1. phase = "running" /\ Advance
      BY <2>4 DEF Skip, Read, Send, Catch, Flush, Fails, Running
    <3>2. at.step \in Nat /\ at'.script = at.script /\ at'.step = at.step + 1
      BY <1>0, <3>1 DEF ControlOK, Advance
    <3>3. CallsOf(queue') \subseteq {Scripts[at.script].steps[k] : k \in 1..at.step}
      BY <2>4, <3>1, <3>2, QueueOfPast
    <3>4. at'.step - 1 = at.step
      BY <3>2
    <3> QED BY <3>2, <3>3, <3>4
  <2> QED BY <2>1, <2>2, <2>3, <2>4 DEF Next
<1> QED BY <1>1, <1>2, <1>4, <1>5, <1>6, <1>7 DEF Outside

-----------------------------------------------------------------------------
(***************************************************************************)
(* When a script is done, the old holder has lost the role.  The old one   *)
(* keeps it only while the new one has not got it, because what gives one  *)
(* takes the other in the same batch; and while it keeps it, the script is *)
(* past the grant only with its failure noted, so that it returns earlier. *)
(***************************************************************************)
Replaces(w, calls, c, r, old, new) ==
  (\E s \in calls : Gives(s, Role(c, r, new))) =>
    ~Can(w, c, r, old) \/ \E s \in calls : Takes(s, Role(c, r, old))

\* What the steps before the n-th leave behind.
PastSteps(steps, n, labels, calls, kept, c, r, old, new) ==
  /\ kept => \A k \in 1..(n - 1) :
       /\ SureRevoke(steps[k], c, r, old) => ~UseSafe \/ steps[k] \in calls
       /\ SureGrant(steps[k], c, r, new) => Labels(steps[k]) \subseteq labels
  /\ n > 1 => \A label \in labels : ~ReturnsIf(steps[n - 1], label)

RetireInv(id, c, r, old, new) ==
  /\ Outside(c)
  /\ Can(world, c, r, old) => IsYes(world, Record(old)) /\ ~Can(world, c, r, new) /\ id \notin migrations
  /\ \A b \in batches : Replaces(world, CallsOf(b), c, r, old, new)
  /\ phase = "running" => PastSteps(Scripts[at.script].steps, at.step, noted, CallsOf(queue),
                                    Can(world, c, r, old), c, r, old, new)

\* What the rules say of any step of a script.
LEMMA RulesOfSteps ==
  ASSUME NEW id, NEW c, NEW r, NEW old, NEW new, Retires(Scripts, id, c, r, old, new), NEW s \in AllSteps
  PROVE  /\ ~Gives(s, Role(c, r, old)) /\ ~Takes(s, Record(old))
         /\ Gives(s, Role(c, r, new)) => s.kind = "tx" /\ s.auth = <<c, "ADMIN">>
BY DEF Retires, Replaced, AllSteps, StepsOf

\* The old holder never gets the role back, and the new one only as the old one loses it.
LEMMA RetireStep ==
  ASSUME NEW id, NEW c, NEW r, NEW old, NEW new, Retires(Scripts, id, c, r, old, new),
         RetireInv(id, c, r, old, new), [Next]_vars
  PROVE  /\ DOMAIN world' = DOMAIN world
         /\ Can(world', c, r, old) => /\ Can(world, c, r, old) /\ IsYes(world', Record(old))
                                      /\ ~Can(world', c, r, new)
<1> DEFINE K == Role(c, r, old)
           N == Role(c, r, new)
<1>0. ControlOK
  BY DEF RetireInv, Outside
<1>1. PICK steps \in SUBSET AllSteps :
        /\ Executed(steps)
        /\ \/ steps = {}
           \/ steps = {Step} /\ Read
           \/ steps = {Step} /\ Send /\ (AutoMine \/ Step.wait)
           \/ pending # <<>> /\ steps = {Head(pending)} /\ Mine
           \/ \E b \in batches : steps = CallsOf(b)
  BY <1>0, WorldChanges
<1>2. DOMAIN world' = DOMAIN world
  BY <1>1, ExecutedKeys
<1>3. \A s \in steps : ~Gives(s, K) /\ ~Takes(s, Record(old))
  BY <1>1, RulesOfSteps
<1>4. Replaces(world, steps, c, r, old, new)
  <2>1. CASE steps = {}
    BY <2>1 DEF Replaces
  <2>2. CASE steps = {Step} /\ (Read \/ Send)
    <3>1. phase = "running" /\ (Step.kind = "tx" => Succeeds(world, Step.by, Step))
      BY <2>2 DEF Read, Send, Running, Step
    <3>2. ~Gives(Step, N)
      BY <3>1, StrangerCalls, RulesOfSteps DEF RetireInv
    <3> QED BY <2>2, <3>2 DEF Replaces
  <2>3. CASE pending # <<>> /\ steps = {Head(pending)}
    <3>1. pending \in Seq(AllSteps) /\ pending # <<>>
      BY <1>0, <2>3 DEF ControlOK
    <3>2. Head(pending) = pending[1] /\ 1 \in 1..Len(pending) /\ Head(pending) \in AllSteps
      BY <3>1
    <3>3. Head(pending).auth # <<c, "ADMIN">>
      BY <3>2 DEF RetireInv, Outside
    <3>4. ~Gives(Head(pending), N)
      BY <3>2, <3>3, RulesOfSteps
    <3> QED BY <2>3, <3>4 DEF Replaces
  <2>4. CASE \E b \in batches : steps = CallsOf(b)
    BY <2>4 DEF RetireInv
  <2> QED BY <1>1, <2>1, <2>2, <2>3, <2>4
<1> SUFFICES ASSUME Can(world', c, r, old)
             PROVE  /\ Can(world, c, r, old) /\ IsYes(world', Record(old))
                    /\ ~Can(world', c, r, new)
  BY <1>2
<1>5. K \in DOMAIN world
  BY <1>2 DEF Can, IsYes
<1>6. world[K] = "yes" /\ \A s \in steps : ~Takes(s, K)
  BY <1>1, <1>3, <1>5, KeyAfter DEF Can, IsYes
<1>7. Can(world, c, r, old)
  BY <1>5, <1>6 DEF Can, IsYes
<1>8. IsYes(world', Record(old))
  <2>1. IsYes(world, Record(old))
    BY <1>7 DEF RetireInv
  <2> QED BY <1>1, <1>2, <1>3, <2>1, KeyAfter DEF IsYes
<1>9. ~Can(world', c, r, new)
  <2>1. \A s \in steps : ~Gives(s, N)
    BY <1>4, <1>6, <1>7 DEF Replaces
  <2>2. ~IsYes(world, N)
    BY <1>7 DEF RetireInv, Can
  <2> QED BY <1>1, <1>2, <2>1, <2>2, KeyAfter DEF Can, IsYes
<1> QED BY <1>7, <1>8, <1>9

\* A batch that gives the role takes it, if the old one still has it: the script is past both.
LEMMA BatchReplaces ==
  ASSUME NEW id, NEW c, NEW r, NEW old, NEW new, Retires(Scripts, id, c, r, old, new),
         RetireInv(id, c, r, old, new), Flush
  PROVE  Replaces(world, CallsOf(queue), c, r, old, new)
<1> DEFINE steps == Scripts[at.script].steps
<1> SUFFICES ASSUME NEW s \in CallsOf(queue), Gives(s, Role(c, r, new)), Can(world, c, r, old)
             PROVE  \E t \in CallsOf(queue) : Takes(t, Role(c, r, old))
  BY DEF Replaces
<1>1. phase = "running" /\ Step.kind = "flush" /\ steps[at.step] = Step
  BY DEF Flush, Running, Step
<1>2. at.script \in 1..Len(Scripts) /\ at.step \in 1..Len(steps) /\ at.step \in Nat
  BY <1>1, StepOfScript DEF RetireInv, Outside, ControlOK
<1>3. PastSteps(steps, at.step, noted, CallsOf(queue), TRUE, c, r, old, new)
  <2>1. Can(world, c, r, old) = TRUE
    BY DEF Can, IsYes
  <2> QED BY <1>1, <2>1 DEF RetireInv
<1>4. PICK j \in 1..(at.step - 1) : s = steps[j]
  BY <1>1 DEF RetireInv, Outside
<1>5. j \in 1..Len(steps)
  BY <1>2, <1>4
<1>6. PICK k \in (j + 1)..Len(steps) :
        SureRevoke(steps[k], c, r, old) /\ \A l \in j..k : steps[l].kind # "flush"
  <2>1. Replaced(steps, c, r, old, new)
    BY <1>2 DEF Retires
  <2> QED BY <1>4, <1>5, <2>1 DEF Replaced
<1>7. k \in 1..(at.step - 1)
  <2>1. at.step \notin j..k
    BY <1>1, <1>6
  <2> HIDE DEF steps
  <2>2. j \in Nat /\ k \in Nat /\ j < at.step /\ j < k /\ 1 <= j
    BY <1>2, <1>4, <1>5, <1>6
  <2> QED BY <1>2, <2>1, <2>2
<1>8. UseSafe
  BY DEF RetireInv, Outside
<1>9. steps[k] \in CallsOf(queue)
  BY <1>3, <1>6, <1>7, <1>8 DEF PastSteps
<1> QED BY <1>6, <1>9 DEF SureRevoke

\* A script that starts has done nothing.
LEMMA NothingPast ==
  ASSUME NEW steps, NEW kept, NEW c, NEW r, NEW old, NEW new
  PROVE  PastSteps(steps, 1, {}, {}, kept, c, r, old, new)
BY DEF PastSteps

\* Past a revocation or a grant the old holder survives, it is queued or its failure noted.
LEMMA StepIsPast ==
  ASSUME NEW id, NEW c, NEW r, NEW old, NEW new, Retires(Scripts, id, c, r, old, new),
         RetireInv(id, c, r, old, new), [Next]_vars, phase = "running",
         at'.step = at.step + 1, Skip \/ Read \/ Send \/ Catch \/ Flush
  PROVE  /\ Can(world, c, r, old) => 
              /\ SureRevoke(Step, c, r, old) => ~UseSafe \/ Step \in CallsOf(queue')
              /\ SureGrant(Step, c, r, new) => Labels(Step) \subseteq noted'
         /\ \A label \in noted' : ~ReturnsIf(Step, label)
<1>1. KeysKnown(world, Step) /\ (Step.auth = <<c, "ADMIN">> => ~Succeeds(world, Step.by, Step))
  BY StrangerCalls DEF RetireInv
<1>2. ASSUME Can(world, c, r, old), SureRevoke(Step, c, r, old)
      PROVE  ~UseSafe \/ Step \in CallsOf(queue')
  <2>1. Holds(Has(c, r, old)) /\ Holds(Recorded(old))
    BY <1>2 DEF RetireInv, Can, IsYes, Holds, HoldsIn, Has, Recorded
  <2>2. ~Skip
    BY <1>2, <2>1 DEF SureRevoke, Skip, Skipped
  <2>3. ~Read /\ ~Flush /\ ~Send
    BY <1>1, <1>2 DEF SureRevoke, Read, Flush, Send, Running, Step
  <2>4. Step.onFail = "queue"
    BY <1>2 DEF SureRevoke
  <2> QED BY <2>2, <2>3, <2>4, QueueOfPast DEF RetireInv
<1>3. ASSUME Can(world, c, r, old), SureGrant(Step, c, r, new)
      PROVE  Labels(Step) \subseteq noted'
  <2>1. ~Can(world, c, r, new)
    BY <1>3 DEF RetireInv
  <2>2. ~Skip
    <3>1. Skip => Has(c, r, new) \in Step.skipIf /\ Holds(Has(c, r, new))
      BY <1>3 DEF SureGrant, Skip, Skipped
    <3>2. Has(c, r, new) \in Step.skipIf => Role(c, r, new) \in DOMAIN world
      BY <1>1 DEF KeysKnown, Has
    <3> QED BY <2>1, <3>1, <3>2 DEF Can, IsYes, Holds, HoldsIn, Has
  <2>3. ~Read /\ ~Flush /\ ~Send
    BY <1>1, <1>3 DEF SureGrant, Read, Flush, Send, Running, Step
  <2> QED BY <2>2, <2>3, QueueOfPast DEF RetireInv
<1>4. ASSUME NEW label \in noted', ReturnsIf(Step, label)
      PROVE  FALSE
  <2>1. ~Read /\ ~Flush /\ ~Send /\ ~Catch
    BY <1>4 DEF ReturnsIf, Read, Flush, Send, Catch, Running, Step
  <2>2. Skipped(Step) /\ noted' = noted
    BY <2>1 DEF Skip
  <2> QED BY <1>4, <2>2 DEF ReturnsIf, Skipped
<1> QED BY <1>2, <1>3, <1>4

LEMMA PastKept ==
  ASSUME NEW id, NEW c, NEW r, NEW old, NEW new, Retires(Scripts, id, c, r, old, new),
         RetireInv(id, c, r, old, new), [Next]_vars, phase' = "running"
  PROVE  PastSteps(Scripts[at'.script].steps, at'.step, noted', CallsOf(queue'),
                   Can(world', c, r, old), c, r, old, new)
<1> DEFINE steps == Scripts[at.script].steps
<1>1. CASE StartRun \/ Leave
  <2>1. at'.step = 1 /\ noted' = {} /\ queue' = <<>>
    <3>1. \E i : EnterScript(i)
      BY <1>1 DEF StartRun, Leave
    <3> QED BY <3>1 DEF EnterScript
  <2>2. CallsOf(queue') = {}
    BY <2>1 DEF CallsOf
  <2> QED BY <2>1, <2>2, NothingPast
<1>2. CASE Throw \/ Crash
  BY <1>2 DEF Throw, Crash
<1>3. Can(world', c, r, old) => Can(world, c, r, old)
  BY RetireStep
<1>4. CASE Mine \/ SafeExecute \/ UNCHANGED vars
  <2>1. phase = "running" /\ at' = at /\ noted' = noted /\ queue' = queue
    BY <1>4 DEF Mine, SafeExecute, vars
  <2>2. PastSteps(steps, at.step, noted, CallsOf(queue), Can(world, c, r, old), c, r, old, new)
    BY <2>1 DEF RetireInv
  <2> QED BY <1>3, <2>1, <2>2 DEF PastSteps
<1>5. CASE Skip \/ Read \/ Send \/ Catch \/ Flush
  <2>1. phase = "running" /\ Advance
    BY <1>5 DEF Skip, Read, Send, Catch, Flush, Fails, Running
  <2>2. /\ at.step \in Nat \ {0} /\ at'.script = at.script /\ at'.step = at.step + 1
        /\ steps[at.step] = Step
    BY <2>1 DEF RetireInv, Outside, ControlOK, Advance, Step
  <2>3. PastSteps(steps, at.step, noted, CallsOf(queue), Can(world, c, r, old), c, r, old, new)
    BY <2>1 DEF RetireInv
  <2>4. /\ Can(world, c, r, old) =>
             /\ SureRevoke(Step, c, r, old) => ~UseSafe \/ Step \in CallsOf(queue')
             /\ SureGrant(Step, c, r, new) => Labels(Step) \subseteq noted'
        /\ \A label \in noted' : ~ReturnsIf(Step, label)
    BY <1>5, <2>1, <2>2, StepIsPast
  <2>5. CallsOf(queue) \subseteq CallsOf(queue') /\ noted \subseteq noted'
    BY <1>5, <2>1, <2>2, QueueOfPast DEF RetireInv
  <2> HIDE DEF steps
  <2>6. at'.step - 1 = at.step /\ at.step \in Nat
    BY <2>2
  <2>7. ASSUME Can(world', c, r, old), NEW k \in 1..(at'.step - 1)
        PROVE  /\ SureRevoke(steps[k], c, r, old) => ~UseSafe \/ steps[k] \in CallsOf(queue')
               /\ SureGrant(steps[k], c, r, new) => Labels(steps[k]) \subseteq noted'
    <3>1. k = at.step \/ k \in 1..(at.step - 1)
      BY <2>6
    <3>2. CASE k = at.step
      BY <1>3, <2>2, <2>4, <2>7, <3>2
    <3>3. CASE k \in 1..(at.step - 1)
      BY <1>3, <2>3, <2>5, <2>7, <3>3 DEF PastSteps
    <3> QED BY <3>1, <3>2, <3>3
  <2>8. PastSteps(steps, at'.step, noted', CallsOf(queue'), Can(world', c, r, old), c, r, old, new)
    BY <2>2, <2>4, <2>5, <2>6, <2>7 DEF PastSteps
  <2> QED BY <2>2, <2>8 DEF steps
<1> QED BY <1>1, <1>2, <1>4, <1>5 DEF Next

\* A script that returns true has taken the role from the old holder.
LEMMA RecordedOnceReplaced ==
  ASSUME NEW id, NEW c, NEW r, NEW old, NEW new, Retires(Scripts, id, c, r, old, new),
         RetireInv(id, c, r, old, new), Leave, Step.exit = "true", Scripts[at.script].id = id
  PROVE  ~Can(world, c, r, old)
<1> DEFINE steps == Scripts[at.script].steps
<1> SUFFICES ASSUME Can(world, c, r, old) PROVE FALSE
  OBVIOUS
<1>1. phase = "running" /\ ~Skipped(Step) /\ steps[at.step] = Step
  BY DEF Leave, Running, Step
<1>2. at.script \in 1..Len(Scripts) /\ at.step \in 1..Len(steps) /\ at.step \in Nat
  BY <1>1, StepOfScript DEF RetireInv, Outside, ControlOK
<1>3. PastSteps(steps, at.step, noted, CallsOf(queue), TRUE, c, r, old, new)
  <2>1. Can(world, c, r, old) = TRUE
    BY DEF Can, IsYes
  <2> QED BY <1>1, <2>1 DEF RetireInv
<1>4. DoneOnceReplaced(steps, c, r, old, new)
  BY <1>2 DEF Retires
<1>5. Missing(old) \notin Step.onlyIf
  <2>1. IsYes(world, Record(old))
    BY DEF RetireInv
  <2>2. ~Holds(Missing(old))
    BY <2>1 DEF IsYes, Holds, HoldsIn, Missing
  <2> QED BY <1>1, <2>2 DEF Skipped
<1>6. PICK k \in 1..(at.step - 1) : \E label \in Labels(steps[k]) :
        SureGrant(steps[k], c, r, new) /\ ReturnsIf(steps[at.step - 1], label)
  BY <1>1, <1>2, <1>4, <1>5 DEF DoneOnceReplaced
<1>7. Labels(steps[k]) \subseteq noted
  BY <1>3, <1>6 DEF PastSteps
<1>8. at.step > 1
  BY <1>2, <1>6
<1> QED BY <1>3, <1>6, <1>7, <1>8 DEF PastSteps

LEMMA RetireKept ==
  ASSUME NEW id, NEW c, NEW r, NEW old, NEW new, Retires(Scripts, id, c, r, old, new),
         RetireInv(id, c, r, old, new), [Next]_vars
  PROVE  RetireInv(id, c, r, old, new)'
<1>0. ControlOK
  BY DEF RetireInv, Outside
<1>1. Outside(c)'
  BY OutsideKept DEF RetireInv, Retires
<1>2. /\ DOMAIN world' = DOMAIN world
      /\ Can(world', c, r, old) => /\ Can(world, c, r, old) /\ IsYes(world', Record(old))
                                   /\ ~Can(world', c, r, new)
  BY RetireStep
<1>3. Can(world', c, r, old) => id \notin migrations'
  <2>1. Can(world, c, r, old) => id \notin migrations
    BY DEF RetireInv
  <2>2. migrations' = migrations \/ (Leave /\ Step.exit = "true"
                                     /\ migrations' = migrations \cup {Scripts[at.script].id})
    BY DEF Next, StartRun, Skip, Read, Send, Mine, Throw, Catch, Flush, Leave, Crash, SafeExecute, vars
  <2> QED BY <1>2, <2>1, <2>2, RecordedOnceReplaced
<1>4. ASSUME NEW b \in batches' PROVE Replaces(world', CallsOf(b), c, r, old, new)
  <2>1. b \in batches \/ (b = queue /\ Flush)
    BY <1>0, CallsWaiting
  <2>2. Replaces(world, CallsOf(b), c, r, old, new)
    BY <2>1, BatchReplaces DEF RetireInv
  <2> QED BY <1>2, <2>2 DEF Replaces
<1>5. phase' = "running" => PastSteps(Scripts[at'.script].steps, at'.step, noted', CallsOf(queue'),
                                      Can(world', c, r, old), c, r, old, new)
  BY PastKept
<1> QED BY <1>1, <1>2, <1>3, <1>4, <1>5 DEF RetireInv

LEMMA RetireStarts ==
  ASSUME NEW id, NEW c, NEW r, NEW old, NEW new, UpgradeInit,
         \A start \in Starts : ReadyToRetire(start, id, c, r, old, new)
  PROVE  RetireInv(id, c, r, old, new)
<1>1. PICK start \in Starts : StartFrom(start.world, start.recorded)
  BY DEF UpgradeInit
<1>2. /\ world = start.world /\ migrations = start.recorded /\ phase = "ready"
      /\ at = [script |-> 1, step |-> 1] /\ noted = {} /\ queue = <<>> /\ batches = {}
      /\ pending = <<>> /\ crashes = 0 /\ faults = 0
  BY <1>1 DEF StartFrom
<1>3. ReadyToRetire(start, id, c, r, old, new)
  OBVIOUS
<1>4. ControlOK
  BY <1>2, EngineAssumption DEF ControlOK
<1>5. CallsOf(queue) = {}
  BY <1>2 DEF CallsOf
<1>6. Outside(c)
  BY <1>2, <1>3, <1>4, <1>5 DEF ReadyToRetire, Outside
<1> QED BY <1>2, <1>3, <1>6 DEF ReadyToRetire, RetireInv, Can

\* When a script of deploy/22 is recorded as done, the issuer or the redeemers it replaces have
\* lost their role, whatever was killed, mined late or failed: it returns true only if it found
\* the new contract with the role, which the Safe gives it in the batch that takes the old one's.
THEOREM OldOnesLoseTheirRoles ==
  ASSUME Retires(Scripts, "22_1_setup_issuerv2", Token, "MINTER", "Issuer", "IssuerV2"),
         \A old \in Redeemers \ {"RedeemerV2"} :
           Retires(Scripts, "22_2_setup_redeemerv2", Vault, Withdrawer, old, "RedeemerV2"),
         \A start \in Starts :
           /\ ReadyToRetire(start, "22_1_setup_issuerv2", Token, "MINTER", "Issuer", "IssuerV2")
           /\ \A old \in Redeemers \ {"RedeemerV2"} :
                ReadyToRetire(start, "22_2_setup_redeemerv2", Vault, Withdrawer, old, "RedeemerV2")
  PROVE  UpgradeSpec => []OldOnesRetired
<1> DEFINE IssuerInv == RetireInv("22_1_setup_issuerv2", Token, "MINTER", "Issuer", "IssuerV2")
           RedeemerInv == \A old \in Redeemers \ {"RedeemerV2"} :
             RetireInv("22_2_setup_redeemerv2", Vault, Withdrawer, old, "RedeemerV2")
<1>1. UpgradeInit => IssuerInv /\ RedeemerInv
  BY RetireStarts
<1>2. IssuerInv /\ [Next]_vars => IssuerInv'
  BY RetireKept
<1>3. RedeemerInv /\ [Next]_vars => RedeemerInv'
  BY RetireKept
<1>4. IssuerInv /\ RedeemerInv => OldOnesRetired
  <2>1. \A c, r, a : Can(world, c, r, a) <=> Known(Has(c, r, a))
    BY DEF Can, IsYes, Known, Has, Holds, HoldsIn
  <2> QED BY <2>1 DEF RetireInv, OldOnesRetired
<1> QED BY <1>1, <1>2, <1>3, <1>4, PTL DEF UpgradeSpec
=============================================================================
