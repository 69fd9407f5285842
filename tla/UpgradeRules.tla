----------------------------- MODULE UpgradeRules -----------------------------
(***************************************************************************)
(* Rules a list of scripts can be seen to keep without running it: what a  *)
(* step may take away, and what the steps before it must have tried.  The  *)
(* theorems about upgrades rest on these rules and not on the scripts.     *)
(***************************************************************************)
EXTENDS DeploySteps, Naturals, Sequences

Writes(s, key) == \E f \in s.sets : f[1] = key
Takes(s, key) == \E f \in s.sets : f[1] = key /\ f[2] # "yes"
Gives(s, key) == \E f \in s.sets : f[1] = key /\ f[2] = "yes"

StepsIn(scripts) ==
  UNION {{scripts[i].steps[j] : j \in 1..Len(scripts[i].steps)} : i \in 1..Len(scripts)}

\* No step makes a caller an administrator of the contract, or ends it.
AdminsFixed(scripts, contract) ==
  \A s, t \in StepsIn(scripts) : ~Writes(s, Role(contract, "ADMIN", t.by))

\* The grant of a role that is tried unless the account has it, and queued if it fails.
SureGrant(s, contract, role, account) ==
  /\ s.kind = "tx" /\ s.auth = <<contract, "ADMIN">> /\ s.needs = {}
  /\ Gives(s, Role(contract, role, account)) /\ ~Takes(s, Role(contract, role, account))
  /\ s.skipIf \subseteq {Has(contract, role, account)}
  /\ s.onlyIf = {} /\ s.ifNoted = {} /\ s.unlessNoted = {}
  /\ s.onFail = "queue"

(***************************************************************************)
(* The role passes along a list of holders: a script that takes it from    *)
(* one has before, by the same caller, tried to grant it to a later one.   *)
(***************************************************************************)
HandsOver(scripts, contract, role, holders) ==
  /\ AdminsFixed(scripts, contract)
  /\ \A i \in 1..Len(scripts) : \A j \in 1..Len(scripts[i].steps), h \in 1..Len(holders) :
       LET s == scripts[i].steps[j]
       IN Takes(s, Role(contract, role, holders[h])) =>
            /\ s.kind = "tx" /\ s.auth = <<contract, "ADMIN">>
            /\ \E k \in 1..(j - 1), m \in (h + 1)..Len(holders) :
                 /\ SureGrant(scripts[i].steps[k], contract, role, holders[m])
                 /\ scripts[i].steps[k].by = s.by

(***************************************************************************)
(* The keeper's role of administrator of a contract is never taken, and    *)
(* the deployer's only by a step that reads the keeper's, or that depends  *)
(* on a local variable no step sets without having read it.  The contract  *)
(* is recorded together with the deployer's role.                          *)
(***************************************************************************)
ReadsFirst(steps, s, fact) ==
  \/ fact \in s.onlyIf
  \/ \E label \in s.ifNoted : \A j \in 1..Len(steps) :
       steps[j].note = label \/ label \in steps[j].noteFail => fact \in steps[j].onlyIf

KeepsAdmin(scripts, contract, keeper, deployer) ==
  \A i \in 1..Len(scripts) : \A j \in 1..Len(scripts[i].steps) :
    LET s == scripts[i].steps[j]
    IN /\ ~Takes(s, Role(contract, "ADMIN", keeper))
       /\ Writes(s, Record(contract)) => Gives(s, Role(contract, "ADMIN", deployer))
       /\ Takes(s, Role(contract, "ADMIN", deployer)) =>
            ReadsFirst(scripts[i].steps, s, Has(contract, "ADMIN", keeper))

(***************************************************************************)
(* A script that gives the role to the new holder takes it from the old    *)
(* one before it prepares a batch, unless the old one lacks it, and no     *)
(* script gives it back.  Where the scripts with the id return true, the   *)
(* old one is not there, or they have just returned otherwise if the grant *)
(* was noted to have failed.                                               *)
(***************************************************************************)
SureRevoke(s, contract, role, account) ==
  /\ s.kind = "tx" /\ s.auth = <<contract, "ADMIN">>
  /\ Takes(s, Role(contract, role, account))
  /\ s.onlyIf \subseteq {Has(contract, role, account), Recorded(account)}
  /\ s.skipIf = {} /\ s.ifNoted = {} /\ s.unlessNoted = {}
  /\ s.onFail = "queue"

ReturnsIf(s, label) ==
  /\ s.kind = "read" /\ s.exit = "false" /\ s.onFail = "throw"
  /\ s.ifNoted = {label} /\ s.skipIf = {} /\ s.onlyIf = {} /\ s.unlessNoted = {}

Replaced(steps, contract, role, old, new) ==
  \A j \in 1..Len(steps) :
    LET s == steps[j]
    IN /\ ~Gives(s, Role(contract, role, old)) /\ ~Takes(s, Record(old))
       /\ Gives(s, Role(contract, role, new)) =>
            /\ s.kind = "tx" /\ s.auth = <<contract, "ADMIN">>
            /\ \E k \in (j + 1)..Len(steps) :
                 SureRevoke(steps[k], contract, role, old) /\ \A l \in j..k : steps[l].kind # "flush"

\* The labels a failure of the step leaves.
Labels(s) == s.noteFail \ {""}

DoneOnceReplaced(steps, contract, role, old, new) ==
  \A j \in 1..Len(steps) : steps[j].exit = "true" =>
    \/ Missing(old) \in steps[j].onlyIf
    \/ \E k \in 1..(j - 1) : \E label \in Labels(steps[k]) :
         SureGrant(steps[k], contract, role, new) /\ ReturnsIf(steps[j - 1], label)

Retires(scripts, id, contract, role, old, new) ==
  /\ AdminsFixed(scripts, contract)
  /\ \A i \in 1..Len(scripts) :
       /\ Replaced(scripts[i].steps, contract, role, old, new)
       /\ scripts[i].id = id => DoneOnceReplaced(scripts[i].steps, contract, role, old, new)
=============================================================================
