\* The upgrades, each with a kill or a failed call and transactions that are mined late.
CONSTANTS
  Starts <- EachScript
  Network = "mainnet"
  NetworkTags = {}
  Scripts <- UpgradeScripts
  InitialFacts = {}
  InitialMigrations = {}
  MayFailIn <- AllIds
  MayCrashIn <- AllIds
  Safe = "safe"
  UseSafe = TRUE
  AutoMine = FALSE
  MaxCrashes = 1
  MaxFaults = 1
  MaxTroubles = 1
  MaxPending = 2
SPECIFICATION FairUpgradeSpec
INVARIANTS MinterNeverMissing WithdrawerNeverMissing AdminNeverMissing OldOnesRetired
PROPERTY UpgradeCompletes
