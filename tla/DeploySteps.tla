----------------------------- MODULE DeploySteps -----------------------------
(***************************************************************************)
(* The vocabulary deployment scripts are written in.  A script is a        *)
(* sequence of steps; a step is a read, a transaction or a return, with    *)
(* the conditions the script itself tests before it.  What the steps do to *)
(* the chain and the deployment folder is a set of facts <<key, value>>;   *)
(* a key never written has the value "none".                               *)
(*                                                                         *)
(* Each field of a step:                                                   *)
(*   kind         "read", "tx" or "flush"                                  *)
(*   by, auth     the sender, and the role (<<contract, role>>) it needs   *)
(*   needs        facts the call requires: it reverts, or get() throws     *)
(*   sets         facts the step establishes                               *)
(*   skipIf       the script skips the step if one of these facts holds    *)
(*   onlyIf       the script skips the step unless all of these hold       *)
(*   ifNoted, unlessNoted   the same for the script's local variables      *)
(*   note         the local variable the step assigns when it succeeds     *)
(*   onFail       "throw", "ignore" (caught) or "queue" (GovernanceExecutor)*)
(*   noteFail     the local variables a failure sets                       *)
(*   wait         the script awaits the receipt                            *)
(*   exit         "no", or the value the script returns: "true", "false"   *)
(***************************************************************************)
LOCAL INSTANCE Sequences
LOCAL INSTANCE Naturals

Anyone == <<>>
Record(name) == <<"record", name>>
Role(contract, role, account) == <<"role", contract, role, account>>
Setting(contract, name) == <<"setting", contract, name>>

Recorded(name) == <<Record(name), "yes">>
Missing(name) == <<Record(name), "none">>
Has(contract, role, account) == <<Role(contract, role, account), "yes">>
Lacks(contract, role, account) == <<Role(contract, role, account), "none">>
Is(contract, name, value) == <<Setting(contract, name), value>>
Unset(contract, name) == Is(contract, name, "none")

Noop == [kind |-> "read", by |-> "", auth |-> Anyone, needs |-> {}, sets |-> {},
         skipIf |-> {}, onlyIf |-> {}, ifNoted |-> {}, unlessNoted |-> {},
         note |-> "", onFail |-> "throw", noteFail |-> {}, wait |-> FALSE, exit |-> "no"]

Tx(by, auth, sets) == [Noop EXCEPT !.kind = "tx", !.by = by, !.auth = auth, !.sets = sets]

\* hre.deployments.get: throws if the name has no record.
Get(name) == [Noop EXCEPT !.needs = {Recorded(name)}]

\* A check that throws, or a read assigned to a local variable.
Require(fact) == [Noop EXCEPT !.needs = {fact}]
Note(fact, label) == [Noop EXCEPT !.onlyIf = {fact}, !.note = label]

\* hre.deployments.save.
Save(name) == [Noop EXCEPT !.sets = {Recorded(name)}]

(***************************************************************************)
(* deployContract and hre.deployments.deploy: nothing if the name is       *)
(* recorded with the same code and arguments.  A deployment whose          *)
(* transaction was sent before a crash is recovered by hardhat-deploy from *)
(* its pending transactions, so code and record appear together.  facts is *)
(* what the constructor establishes; the label "new:" name is              *)
(* newlyDeployed.                                                          *)
(***************************************************************************)
New(name) == "new:" \o name
DeployWith(name, by, facts) ==
  [Tx(by, Anyone, {Recorded(name)} \cup facts) EXCEPT
     !.skipIf = {Recorded(name)}, !.note = New(name), !.wait = TRUE]
Deploy(name, by) == DeployWith(name, by, {})

\* OpenZeppelin AccessControl and Ownable.
Grant(by, contract, role, account) ==
  Tx(by, <<contract, "ADMIN">>, {Has(contract, role, account)})
Revoke(by, contract, role, account) ==
  Tx(by, <<contract, "ADMIN">>, {Lacks(contract, role, account)})
Renounce(by, contract, role) == Tx(by, Anyone, {Lacks(contract, role, by)})
TransferOwnership(by, contract, to) ==
  Tx(by, <<contract, "owner">>,
     {Has(contract, "owner", to)} \cup (IF by = to THEN {} ELSE {Lacks(contract, "owner", by)}))
Set(by, contract, role, name, value) ==
  Tx(by, <<contract, role>>, {Is(contract, name, value)})

\* An initialize() that reverts the second time.
Initialize(by, contract) ==
  [Set(by, contract, "", "initialized", "yes") EXCEPT
     !.auth = Anyone, !.needs = {Unset(contract, "initialized")}]

\* Mutant: the revert of a second initialize() is not caught.
InitializeUncaught(by, contract) == Initialize(by, contract)

\* The same, when the script catches exactly that revert.
InitializeOnce(by, contract) ==
  [Initialize(by, contract) EXCEPT !.skipIf = {Is(contract, "initialized", "yes")}]

Return(value) == [Noop EXCEPT !.exit = value]

\* Modifiers: the script's own conditions around a step.
Unless(fact, step) == [step EXCEPT !.skipIf = @ \cup {fact}]
When(fact, step) == [step EXCEPT !.onlyIf = @ \cup {fact}]
IfNoted(label, step) == [step EXCEPT !.ifNoted = @ \cup {label}]
UnlessNoted(label, step) == [step EXCEPT !.unlessNoted = @ \cup {label}]
Needing(fact, step) == [step EXCEPT !.needs = @ \cup {fact}]
Awaited(step) == [step EXCEPT !.wait = TRUE]
Caught(step) == [step EXCEPT !.onFail = "ignore"]

(***************************************************************************)
(* A script: the id under which hardhat-deploy records that it returned    *)
(* true, its tags, the tags it depends on, whether it runs at the end, and *)
(* its steps.                                                              *)
(***************************************************************************)
Script(id, tags, deps, steps) ==
  [id |-> id, tags |-> tags, deps |-> deps, atEnd |-> FALSE, steps |-> steps]

\* The same steps for every element of a sequence of assets, contracts...
ForEach(seq, StepsOf(_)) ==
  LET all[i \in 0..Len(seq)] == IF i = 0 THEN <<>> ELSE all[i - 1] \o StepsOf(seq[i])
  IN all[Len(seq)]
=============================================================================
