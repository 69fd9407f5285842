--------------------------- MODULE DeployProperties ---------------------------
(***************************************************************************)
(* What the operator of the scripts relies on: whatever interrupts a run,  *)
(* running the scripts again leads to the chain and the records that an    *)
(* uninterrupted operator gets, and then changes nothing any more.         *)
(***************************************************************************)
EXTENDS DeployRefinement

(***************************************************************************)
(* The reference: scripts executed from first to last by an interpreter    *)
(* that is never interrupted, mines at once, and runs them all again until *)
(* nothing changes.  A local state of it is the world, the script's local  *)
(* variables and what it returned, or "" while it runs.                    *)
(***************************************************************************)
WouldSkip(l, s) ==
  \/ \E f \in s.skipIf : HoldsIn(l.world, f)
  \/ \E f \in s.onlyIf : ~HoldsIn(l.world, f)
  \/ ~(s.ifNoted \subseteq l.noted)
  \/ s.unlessNoted \cap l.noted # {}

Execute(l, s) ==
  IF WouldSkip(l, s) THEN l
  ELSE IF s.exit # "no" THEN [l EXCEPT !.returned = s.exit]
  ELSE IF Succeeds(l.world, s.by, s)
       THEN [l EXCEPT !.world = Assign(@, s.sets), !.noted = @ \cup {s.note}]
  ELSE IF s.onFail = "throw" THEN [l EXCEPT !.returned = "threw"]
  ELSE [l EXCEPT !.noted = @ \cup s.noteFail]

\* The steps from the first-th to the last-th, up to one that returns: one half, then the other.
RECURSIVE ExecuteSteps(_, _, _, _)
ExecuteSteps(l, steps, first, last) ==
  LET middle == (first + last) \div 2
  IN IF l.returned # "" THEN l
     ELSE IF first = last THEN Execute(l, steps[first])
     ELSE ExecuteSteps(ExecuteSteps(l, steps, first, middle), steps, middle + 1, last)

ExecuteScript(w, script) ==
  ExecuteSteps([world |-> w, noted |-> {}, returned |-> ""], script.steps, 1, Len(script.steps))

RunScript(before, script) ==
  LET result == ExecuteScript(before.world, script)
  IN IF script.id \in before.done THEN before
     ELSE [world |-> result.world,
           done |-> IF result.returned = "true" THEN before.done \cup {script.id} ELSE before.done,
           threw |-> result.returned = "threw"]

\* The scripts from the first-th to the last-th, up to one that throws, likewise.
RECURSIVE RunScripts(_, _, _, _)
RunScripts(scripts, before, first, last) ==
  LET middle == (first + last) \div 2
  IN IF before.threw THEN before
     ELSE IF first = last THEN RunScript(before, scripts[first])
     ELSE RunScripts(scripts, RunScripts(scripts, before, first, middle), middle + 1, last)

\* One run from a world and a set of recorded ids.
CleanRun(scripts, start) ==
  RunScripts(scripts, [start EXCEPT !.threw = FALSE], 1, Len(scripts))

\* Before the first run of given scripts, where given facts hold.
BeforeRuns(scripts, facts, recorded) ==
  [world |-> WorldOf(KeysOf(StepsOfAll(scripts), facts), facts), done |-> recorded, threw |-> FALSE]

RunsUntilSettled == 3   \* bound: the runs an uninterrupted operator needs
CleanRuns[n \in 0..RunsUntilSettled] ==
  IF n = 0 THEN BeforeRuns(Scripts, InitialFacts, InitialMigrations)
  ELSE CleanRun(Scripts, CleanRuns[n - 1])
Settled == CleanRuns[RunsUntilSettled]

\* The reference throws nowhere, and one more run changes nothing.
ASSUME SettledAssumption == Settled = CleanRun(Scripts, Settled) /\ ~Settled.threw

Clean == world = Settled.world /\ migrations = Settled.done

\* Whatever run is killed and wherever, the operator who starts again ends with the chain and
\* the records of one who was never interrupted (hardhat-deploy's .migrations file, and every
\* script's own tests of what is deployed, granted and set).
EventuallyClean == <>[]Clean

\* After that, running the scripts again sends nothing that changes the chain.
RerunsAreHarmless == [][Clean => world' = world]_vars

\* In hardhat-deploy's order, every get() finds its record and every call its sender's role,
\* in the first run as in one that follows a killed one.
NeverThrows == phase # "threw"
=============================================================================
