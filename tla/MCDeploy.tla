------------------------------ MODULE MCDeploy ------------------------------
(***************************************************************************)
(* The whole deployment on a local network, killed and run again; and,     *)
(* uninterrupted, the deployments of testnet and mainnet.                  *)
(***************************************************************************)
EXTENDS DeployProperties

Local == INSTANCE DeployScripts WITH Network <- "local", NetworkTags <- {}
Testnet == INSTANCE DeployScripts WITH Network <- "testnet", NetworkTags <- {}
Mainnet == INSTANCE DeployScripts WITH Network <- "mainnet", NetworkTags <- {}

LocalScripts == LET order == Local!RunOrder IN [i \in DOMAIN order |-> order[i]]

AllIds == {LocalScripts[i].id : i \in DOMAIN LocalScripts}

(***************************************************************************)
(* Scripts a kill leaves in a state their next run does not repair: mints  *)
(* are repeated, initialize() is called a second time, a result saved to   *)
(* the deployment folder ends the next run early, or a contract's records  *)
(* exist and its roles are never granted.  They are not interrupted here.  *)
(***************************************************************************)
Fragile ==
  {"WETH9-mint", "DeployMint-TestDUSD", "DeployMint-TestFXS", "DeployMint-TestSFRAX",
   "DeployMint-TestSFRXETH", "DEXInitializePools", "Treasury", "L2PoolImplementations",
   "PoolConfigurator", "ReservesInit", "AddFXB20291231Reserve", "AdddTrinity-LendReserves202502",
   "AdddTrinity-LendReservesFXB20261231", "Incentives", "dUSD:CurveStableSwapNGAmoVault",
   "deploy_redeemer_with_fees", "ERC20VestingNFT", "dstake_dlend_rewards", "22_1_setup_issuerv2", "22_2_setup_redeemerv2",
   "dUSD:IssuerV2_2", "23_02_setup_issuer_v2_2"}
Robust == AllIds \ Fragile

(***************************************************************************)
(* On testnet and mainnet the scripts take other branches.  No script      *)
(* misses a record or a role there, and a second run of all changes        *)
(* nothing.  dUSD is not deployed by a script; on mainnet CurveHelper has  *)
(* a record from before its script was confined to networks with a DEX.    *)
(***************************************************************************)
Settles(scripts, facts, recorded) ==
  LET once == CleanRun(scripts, BeforeRuns(scripts, facts, recorded))
      twice == CleanRun(scripts, once)
  IN twice = once /\ ~twice.threw

\* The order of the scripts is the one their tags and dependencies call for, on every network.
ASSUME Ordered == Local!OrderIsComputed /\ Testnet!OrderIsComputed /\ Mainnet!OrderIsComputed

ASSUME TestnetSettles == Settles(Testnet!DeployOrder, {Has("dUSD", "ADMIN", "deployer")}, {})
ASSUME MainnetSettles ==
  Settles(Mainnet!DeployOrder, {Recorded("CurveHelper"), Has("dUSD", "ADMIN", Safe)},
          {"PointApi3UsdtOracleWrapper"})

(***************************************************************************)
(* The upgrades of mainnet keep the rules the theorems about them rest on. *)
(***************************************************************************)
Upgrade == INSTANCE DeployUpgrades WITH Network <- "mainnet", NetworkTags <- {}
Rules == INSTANCE UpgradeRules
UpgradeScripts == Upgrade!V2Scripts \o Upgrade!V2_2Scripts \o <<Upgrade!UpdateRateStrategy>> \o Upgrade!SecurityScripts

ASSUME RulesKept ==
  /\ Rules!HandsOver(UpgradeScripts, "dUSD", "MINTER", <<"Issuer", "IssuerV2", "IssuerV2_2">>)
  /\ Rules!HandsOver(UpgradeScripts, "CollateralHolderVault", "COLLATERAL_WITHDRAWER",
                     <<"Redeemer", "dUSD_RedeemerWithFees", "RedeemerV2">>)
  /\ \A c \in {"IssuerV2", "RedeemerV2", "IssuerV2_2", "AmoManagerV2", "AmoDebtToken"} :
       Rules!KeepsAdmin(UpgradeScripts, c, "safe", "deployer")
  /\ Rules!Retires(UpgradeScripts, "22_1_setup_issuerv2", "dUSD", "MINTER", "Issuer", "IssuerV2")
  /\ \A old \in {"Redeemer", "dUSD_RedeemerWithFees"} :
       Rules!Retires(UpgradeScripts, "22_2_setup_redeemerv2", "CollateralHolderVault",
                     "COLLATERAL_WITHDRAWER", old, "RedeemerV2")
=============================================================================
