--------------------------- MODULE DeployRefinement ---------------------------
(***************************************************************************)
(* The engine, with all that scripts do to the chain, implements the log   *)
(* hardhat-deploy keeps.                                                   *)
(***************************************************************************)
EXTENDS DeployEngine

Log == INSTANCE MigrationLog WITH
         IdOf <- [i \in 1..Len(Scripts) |-> Scripts[i].id],
         Recorded0 <- InitialMigrations,
         done <- migrations,
         current <- IF phase = "running" THEN at.script ELSE 0

\* Scripts run in order, never one that is recorded; a record is never lost; no script runs for
\* ever (.migrations.json and the loop of hardhat-deploy over the deploy scripts).
LogSpec == Log!Spec
LogSafety == Log!SafeSpec
=============================================================================
