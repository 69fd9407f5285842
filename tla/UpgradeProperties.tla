-------------------------- MODULE UpgradeProperties --------------------------
(***************************************************************************)
(* What must hold while dUSD is moved to new contracts (deploy/22 and 23): *)
(* some issuer can mint and some redeemer can withdraw at every moment, no *)
(* contract is left without an admin, the old contracts lose their roles,  *)
(* and in the end everything is moved.                                     *)
(***************************************************************************)
EXTENDS DeployEngine, DeployUpgrades, UpgradeRules

\* Where upgrades start: the chain with the records on disk, and the ids recorded.
CONSTANT Starts

UpgradeInit == \E start \in Starts : StartFrom(start.world, start.recorded)
UpgradeSpec == UpgradeInit /\ [][Next]_vars
FairUpgradeSpec == UpgradeSpec /\ Fairness

\* In the order they follow each other.
IssuerLine == <<"Issuer", "IssuerV2", "IssuerV2_2">>
RedeemerLine == <<"Redeemer", "dUSD_RedeemerWithFees", "RedeemerV2">>
Issuers == {IssuerLine[i] : i \in DOMAIN IssuerLine}
Redeemers == {RedeemerLine[i] : i \in DOMAIN RedeemerLine}
Governed == {"IssuerV2", "RedeemerV2", "IssuerV2_2", Manager, DebtToken}

\* A fact about a contract the scripts of the instance may not know.
Known(f) == f[1] \in DOMAIN world /\ Holds(f)

\* An upgrade never leaves dUSD without an issuer that may mint: the scripts grant the role to
\* the new one and revoke it from the old one (ensureMinterRole, then revokeRole), directly or
\* in one batch of the Safe.
MinterNeverMissing == \E i \in Issuers : Known(Has(Token, "MINTER", i))

\* Nor the vault without a redeemer that may withdraw collateral.
WithdrawerNeverMissing == \E r \in Redeemers : Known(Has(Vault, Withdrawer, r))

\* ensureDefaultAdminExistsAndRevokeFrom: whatever fails or is interrupted, a deployed contract
\* keeps an admin.
AdminNeverMissing ==
  \A c \in Governed : Known(Recorded(c)) =>
    Known(Has(c, "ADMIN", Deployer)) \/ Known(Has(c, "ADMIN", Governance))

\* Once a script of deploy/22 is recorded as done, the contracts it replaces have lost the
\* roles it is to take from them: the old issuer can mint no more, the old redeemers cannot
\* withdraw.
OldOnesRetired ==
  /\ "22_1_setup_issuerv2" \in migrations => ~Known(Has(Token, "MINTER", "Issuer"))
  /\ "22_2_setup_redeemerv2" \in migrations =>
       \A r \in Redeemers \ {"RedeemerV2"} : ~Known(Has(Vault, Withdrawer, r))

\* A script is done when it is recorded, except for 23/00: it returns nothing where it finds the
\* issuer deployed, which it does after a run that was killed behind the deployment.
Done(id) == id \in migrations \/ (id = "dUSD:IssuerV2_2" /\ Known(Recorded("IssuerV2_2")))

\* 23/02 has taken the deployer's admin role of the debt token before 23/01 has wired the
\* manager: 23/01 calls the debt token as its admin and throws, in every run to come.
Stuck ==
  /\ Known(Recorded(DebtToken)) /\ ~Known(Has(DebtToken, "ADMIN", Deployer))
  /\ ~Done("dUSD:AmoManagerV2")

\* In the end every script is done and governance is admin of every new contract, whatever call
\* failed and wherever a run was killed, if the operator runs the scripts again after the Safe
\* has executed what they queued: or the upgrade is stuck in the way above.
Complete ==
  /\ \A id \in Ids : Done(id)
  /\ \A c \in Governed : Known(Recorded(c)) => Known(Has(c, "ADMIN", Governance))
UpgradeCompletes == <>[](Complete \/ Stuck)

\* "Re-run the script after the Safe batch is executed to finalize." (deploy/23,
\* 01_deploy_amo_manager_v2.ts:126): the script that queued something is done in the end.
RerunFinalizes == <>Done("dUSD:AmoManagerV2")

(***************************************************************************)
(* What the theorems ask of a start besides the rules for the scripts.     *)
(* The scripts still to run know their keys; someone has the role; and no  *)
(* caller is an administrator of the contract, unless calls are mined at   *)
(* once and none fails to be sent.                                         *)
(***************************************************************************)
ScriptsLeft(recorded) == {i \in 1..Len(Scripts) : Scripts[i].id \notin recorded}
StepsLeft(recorded) == UNION {StepsOf(i) : i \in ScriptsLeft(recorded)}
NothingGoesWrong == AutoMine /\ MaxFaults = 0

KeysKnown(w, s) == \A f \in s.sets \cup s.skipIf \cup s.onlyIf : f[1] \in DOMAIN w
IsYes(w, key) == key \in DOMAIN w /\ w[key] = "yes"
Outsider(w, contract, by) ==
  /\ Role(contract, "ADMIN", by) \in DOMAIN w
  /\ w[Role(contract, "ADMIN", by)] # "yes" \/ NothingGoesWrong

ReadyToHandOver(start, contract, role, holders) ==
  /\ \E h \in 1..Len(holders) : IsYes(start.world, Role(contract, role, holders[h]))
  /\ \A s \in StepsLeft(start.recorded) :
       /\ KeysKnown(start.world, s)
       /\ s.auth = <<contract, "ADMIN">> => Outsider(start.world, contract, s.by)

HasAdmin(w, c) ==
  IsYes(w, Record(c)) => IsYes(w, Role(c, "ADMIN", Deployer)) \/ IsYes(w, Role(c, "ADMIN", Governance))
ReadyToMoveAdmin(start, c) ==
  /\ HasAdmin(start.world, c)
  /\ \A s \in StepsLeft(start.recorded) : KeysKnown(start.world, s)

\* For the roles of the old contracts, no caller is an administrator.
Stranger(w, contract, by) ==
  Role(contract, "ADMIN", by) \in DOMAIN w /\ w[Role(contract, "ADMIN", by)] # "yes"
Strangers(w, recorded, contract) == \A s \in StepsLeft(recorded) :
  KeysKnown(w, s) /\ (s.auth = <<contract, "ADMIN">> => Stranger(w, contract, s.by))

ReadyToRetire(start, id, contract, role, old, new) ==
  /\ IsYes(start.world, Role(contract, role, old)) =>
       /\ IsYes(start.world, Record(old)) /\ ~IsYes(start.world, Role(contract, role, new))
       /\ id \notin start.recorded
  /\ Strangers(start.world, start.recorded, contract)
=============================================================================
