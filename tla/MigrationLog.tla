----------------------------- MODULE MigrationLog -----------------------------
(***************************************************************************)
(* What hardhat-deploy promises about a list of scripts and the file       *)
(* .migrations.json, whatever the scripts do: a run takes them in order,   *)
(* skips those recorded as done, records one only as it leaves it, and     *)
(* forgets nothing it has recorded.  Every run ends.                       *)
(***************************************************************************)
EXTENDS Naturals, Sequences

CONSTANTS IdOf,      \* the ids of the scripts, in order
          Recorded0  \* the ids recorded at the start

VARIABLES done,      \* the ids recorded
          current    \* the number of the script that runs, 0 if none does
vars == <<done, current>>

\* The first script from i on that is not in a set of ids, 0 if all are.
NextOpen(ids, i) ==
  LET open == {k \in i..Len(IdOf) : IdOf[k] \notin ids}
  IN IF open = {} THEN 0 ELSE CHOOSE k \in open : \A l \in open : k <= l

Init == done = Recorded0 /\ current = 0

Begin ==
  /\ current = 0
  /\ done' = done
  /\ current' = NextOpen(done, 1)

\* The script ends; whether it is recorded is its own choice.
Finish ==
  /\ current # 0
  /\ done' \in {done, done \cup {IdOf[current]}}
  /\ current' = NextOpen(done', current + 1)

\* It throws, or the run is killed.
Abort ==
  /\ current # 0
  /\ current' = 0
  /\ done' = done

Next == Begin \/ Finish \/ Abort

SafeSpec == Init /\ [][Next]_vars
Spec == SafeSpec /\ WF_vars(Finish \/ Abort)
=============================================================================
