----------------------------- MODULE DeployEngine -----------------------------
(***************************************************************************)
(* Running deployment scripts: hardhat-deploy executes the scripts one     *)
(* after the other, records the id of one that returns true in the         *)
(* .migrations file and never runs it again; any other result only ends    *)
(* the script.  An exception ends the run.  The run may be killed at any   *)
(* moment, and started again from the first script not recorded.           *)
(*                                                                         *)
(* world is everything that survives a run: the chain and the deployment   *)
(* records on disk.  noted is the script's local variables, and queue the  *)
(* transactions of its GovernanceExecutor: both die with the run.  A Safe  *)
(* batch that was flushed waits in batches for the owners of the Safe.     *)
(*                                                                         *)
(* A transaction the script does not wait for is pending: later reads, and *)
(* the gas estimation of later transactions, see the chain without it      *)
(* until it is mined.  Under AutoMine it is mined at once.                 *)
(***************************************************************************)
EXTENDS DeploySteps, Naturals, Sequences, FiniteSets

CONSTANTS Scripts,       \* the scripts, in the order they run
          InitialFacts,  \* what is on the chain and on disk at the start
          InitialMigrations,      \* the ids earlier runs recorded
          MayCrashIn,    \* the ids of the scripts in which a run may be killed
          MayFailIn,     \* the ids of the scripts in which sending a transaction may fail
          Safe,          \* the governance multisig
          UseSafe,       \* whether the executor prepares Safe batches
          AutoMine,      \* whether a transaction is mined as it is sent
          MaxCrashes, MaxFaults,  \* bounds: killed runs, failed sends
          MaxTroubles,            \* bound: both together
          MaxPending              \* bound: transactions in the mempool

\* A script has no way around its last step, which returns.
EndsInReturn(steps) ==
  /\ Len(steps) \in Nat \ {0}
  /\ \E value \in {"true", "false"} : steps[Len(steps)] = Return(value)

ASSUME EngineAssumption ==
  /\ UseSafe \in BOOLEAN /\ AutoMine \in BOOLEAN
  /\ MaxCrashes \in Nat /\ MaxFaults \in Nat /\ MaxTroubles \in Nat /\ MaxPending \in Nat
  /\ Len(Scripts) \in Nat
  /\ \A i \in 1..Len(Scripts) : EndsInReturn(Scripts[i].steps)

VARIABLES world, phase, at, migrations, noted, queue, batches, pending, crashes, faults
vars == <<world, phase, at, migrations, noted, queue, batches, pending, crashes, faults>>

StepsOf(i) == {Scripts[i].steps[j] : j \in 1..Len(Scripts[i].steps)}
AllSteps == UNION {StepsOf(i) : i \in 1..Len(Scripts)}
StepsOfAll(scripts) ==
  UNION {{scripts[i].steps[j] : j \in DOMAIN scripts[i].steps} : i \in DOMAIN scripts}
Ids == {Scripts[i].id : i \in 1..Len(Scripts)}
FactsOf(s) == s.needs \cup s.sets \cup s.skipIf \cup s.onlyIf
AuthKeysOf(steps) == {<<"role">> \o s.auth \o <<a>> : s \in {t \in steps : t.auth # Anyone},
                                                    a \in {Safe} \cup {t.by : t \in steps}}
KeysOf(steps, facts) == {f[1] : f \in facts \cup UNION {FactsOf(s) : s \in steps}} \cup AuthKeysOf(steps)
Keys == KeysOf(AllSteps, InitialFacts)

Assign(w, facts) ==
  IF facts = {} THEN w
  ELSE [k \in DOMAIN w |-> IF \E f \in facts : f[1] = k
                           THEN (CHOOSE f \in facts : f[1] = k)[2] ELSE w[k]]

HoldsIn(w, f) == w[f[1]] = f[2]
Holds(f) == HoldsIn(world, f)

\* Whether a call by an account succeeds in a state of the chain.
Succeeds(w, by, s) ==
  /\ s.auth # Anyone => w[<<"role">> \o s.auth \o <<by>>] = "yes"
  /\ \A f \in s.needs : HoldsIn(w, f)

\* What the script tests before a step.
Skipped(s) ==
  \/ \E f \in s.skipIf : Holds(f)
  \/ \E f \in s.onlyIf : ~Holds(f)
  \/ ~(s.ifNoted \subseteq noted)
  \/ s.unlessNoted \cap noted # {}

\* Mutant: recorded scripts run again.
FirstOpenOrNot(i) == i

\* The first script from i on that is not recorded; past the last if none is.
FirstOpen(i) ==
  LET open == {k \in i..Len(Scripts) : Scripts[k].id \notin migrations'}
  IN IF open = {} THEN Len(Scripts) + 1 ELSE CHOOSE k \in open : \A l \in open : k <= l

EnterScript(i) ==
  /\ at' = [script |-> FirstOpen(i), step |-> 1]
  /\ phase' = IF FirstOpen(i) > Len(Scripts) THEN "finished" ELSE "running"
  /\ noted' = {}
  /\ queue' = <<>>

WorldOf(keys, facts) == Assign([k \in keys |-> "none"], facts)

StartFrom(start, recorded) ==
  /\ world = start
  /\ phase = "ready"
  /\ at = [script |-> 1, step |-> 1]
  /\ migrations = recorded
  /\ noted = {}
  /\ queue = <<>>
  /\ batches = {}
  /\ pending = <<>>
  /\ crashes = 0
  /\ faults = 0

Init == StartFrom(WorldOf(Keys, InitialFacts), InitialMigrations)

\* Mutant: a run resumes at the script the last one stopped in.
ResumeRun ==
  /\ phase # "running"
  /\ migrations' = migrations
  /\ EnterScript(at.script)
  /\ UNCHANGED <<world, batches, pending, crashes, faults>>

StartRun ==
  /\ phase # "running"
  /\ migrations' = migrations
  /\ EnterScript(1)
  /\ UNCHANGED <<world, batches, pending, crashes, faults>>

Running(kinds) ==
  /\ phase = "running"
  /\ Scripts[at.script].steps[at.step].kind \in kinds

Step == Scripts[at.script].steps[at.step]
Advance == at' = [at EXCEPT !.step = @ + 1]
NoteAll(labels) == noted' = noted \cup (labels \ {""})

Skip ==
  /\ phase = "running"
  /\ Skipped(Step)
  /\ Advance
  /\ UNCHANGED <<world, phase, migrations, noted, queue, batches, pending, crashes, faults>>

\* A read, or a file written to the deployment folder.
Read ==
  /\ Running({"read"})
  /\ ~Skipped(Step)
  /\ Step.exit = "no"
  /\ \A f \in Step.needs : Holds(f)
  /\ world' = Assign(world, Step.sets)
  /\ NoteAll({Step.note})
  /\ Advance
  /\ UNCHANGED <<phase, migrations, queue, batches, pending, crashes, faults>>

Send ==
  /\ Running({"tx"})
  /\ ~Skipped(Step)
  /\ Succeeds(world, Step.by, Step)
  /\ IF AutoMine \/ Step.wait
     THEN pending = <<>> /\ world' = Assign(world, Step.sets) /\ pending' = pending
     ELSE Len(pending) < MaxPending /\ pending' = Append(pending, Step) /\ world' = world
  /\ NoteAll({Step.note})
  /\ Advance
  /\ UNCHANGED <<phase, migrations, queue, batches, crashes, faults>>

Mine ==
  /\ pending # <<>>
  /\ world' = IF Succeeds(world, Head(pending).by, Head(pending))
              THEN Assign(world, Head(pending).sets) ELSE world
  /\ pending' = Tail(pending)
  /\ UNCHANGED <<phase, at, migrations, noted, queue, batches, crashes, faults>>

\* The step fails: the call would revert, the record is missing, or (a transaction) sending fails.
Fails ==
  /\ phase = "running"
  /\ ~Skipped(Step)
  /\ \/ ~Succeeds(world, Step.by, Step) /\ faults' = faults
     \/ /\ Step.kind = "tx" /\ Scripts[at.script].id \in MayFailIn
        /\ faults < MaxFaults /\ crashes + faults < MaxTroubles /\ faults' = faults + 1

Throw ==
  /\ Fails
  /\ Step.onFail = "throw"
  /\ phase' = "threw"
  /\ noted' = {}
  /\ queue' = <<>>
  /\ UNCHANGED <<world, at, migrations, batches, pending, crashes>>

Catch ==
  /\ Fails
  /\ Step.onFail # "throw"
  /\ queue' = IF Step.onFail = "queue" /\ UseSafe THEN Append(queue, Step) ELSE queue
  /\ NoteAll(Step.noteFail)
  /\ Advance
  /\ UNCHANGED <<world, phase, migrations, batches, pending, crashes>>

\* GovernanceExecutor.flush: the batch is exported for the owners of the Safe.
Flush ==
  /\ Running({"flush"})
  /\ ~Skipped(Step)
  /\ batches' = IF queue = <<>> THEN batches ELSE batches \cup {queue}
  /\ Advance
  /\ UNCHANGED <<world, phase, migrations, noted, queue, pending, crashes, faults>>

\* The script returns; true is recorded under its id.
Leave ==
  /\ Running({"read"})
  /\ ~Skipped(Step)
  /\ Step.exit # "no"
  /\ migrations' = IF Step.exit = "true" THEN migrations \cup {Scripts[at.script].id}
                   ELSE migrations
  /\ EnterScript(at.script + 1)
  /\ UNCHANGED <<world, batches, pending, crashes, faults>>

\* Mutant: the local variables of the script, and the executor's queue, outlive the run.
CrashKeepingLocals ==
  /\ phase = "running"
  /\ Scripts[at.script].id \in MayCrashIn
  /\ crashes < MaxCrashes /\ crashes + faults < MaxTroubles
  /\ crashes' = crashes + 1
  /\ phase' = "crashed"
  /\ UNCHANGED <<world, at, migrations, noted, queue, batches, pending, faults>>

Crash ==
  /\ phase = "running"
  /\ Scripts[at.script].id \in MayCrashIn
  /\ crashes < MaxCrashes /\ crashes + faults < MaxTroubles
  /\ crashes' = crashes + 1
  /\ phase' = "crashed"
  /\ noted' = {}
  /\ queue' = <<>>
  /\ UNCHANGED <<world, at, migrations, batches, pending, faults>>

\* What the first i calls of a batch write, and no later one of them overwrites.
LastWritten(b, i) ==
  UNION {{f \in b[j].sets : \A l \in (j + 1)..i : \A g \in b[l].sets : g[1] # f[1]} : j \in 1..i}
AfterCalls(b, i) == Assign(world, LastWritten(b, i))

\* The owners of the Safe execute a batch: all of its calls, or none.
SafeExecute ==
  \E b \in batches :
    /\ \A i \in 1..Len(b) : Succeeds(AfterCalls(b, i - 1), Safe, b[i])
    /\ world' = AfterCalls(b, Len(b))
    /\ batches' = batches \ {b}
    /\ UNCHANGED <<phase, at, migrations, noted, queue, pending, crashes, faults>>

Next == \/ StartRun \/ Skip \/ Read \/ Send \/ Mine \/ Throw \/ Catch \/ Flush
        \/ Leave \/ Crash \/ SafeExecute

(***************************************************************************)
(* The operator runs the scripts again after a run that stopped, nodes     *)
(* mine what was sent, and the owners of the Safe execute the batches they *)
(* are given.  Nothing forces a crash or a fault.                          *)
(***************************************************************************)
Run == StartRun \/ Skip \/ Read \/ Send \/ Throw \/ Catch \/ Flush \/ Leave
Fairness == WF_vars(Run) /\ WF_vars(Mine) /\ WF_vars(SafeExecute)

Spec == Init /\ [][Next]_vars
FairSpec == Spec /\ Fairness

\* A run is at a step of one of its scripts; what waits to be executed are steps of scripts.
ControlOK ==
  /\ phase \in {"ready", "running", "crashed", "threw", "finished"}
  /\ at \in [script : 1..(Len(Scripts) + 1), step : Nat \ {0}]
  /\ phase = "running" => /\ at.script <= Len(Scripts)
                          /\ at.step <= Len(Scripts[at.script].steps)
  /\ pending \in Seq(AllSteps) /\ Len(pending) <= MaxPending
  /\ queue \in Seq(AllSteps) /\ batches \subseteq Seq(AllSteps)
  /\ phase # "running" => noted = {} /\ queue = <<>>
  /\ crashes \in 0..MaxCrashes /\ faults \in 0..MaxFaults

EngineTypeOK ==
  /\ ControlOK
  /\ DOMAIN world = Keys
  /\ migrations \subseteq Ids \cup InitialMigrations
=============================================================================
