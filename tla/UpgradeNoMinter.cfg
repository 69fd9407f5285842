\* The V2 upgrade by a deployer who is still an admin of dUSD; one call fails.
CONSTANTS
  Starts <- V2ByAdmin
  MayFailIn <- AllIds
  Network = "mainnet"
  NetworkTags = {}
  Scripts <- UpgradeScripts
  InitialFacts = {}
  InitialMigrations = {}
  MayCrashIn <- AllIds
  Safe = "safe"
  UseSafe = TRUE
  AutoMine = FALSE
  MaxCrashes = 1
  MaxFaults = 1
  MaxTroubles = 2
  MaxPending = 1
SPECIFICATION UpgradeSpec
INVARIANT MinterNeverMissing
