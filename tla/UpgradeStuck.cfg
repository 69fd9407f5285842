\* The V2.2 upgrade by a deployer who may not set the price of the debt token.
CONSTANTS
  Starts <- V2_2Queued
  Network = "mainnet"
  NetworkTags = {}
  Scripts <- UpgradeScripts
  InitialFacts = {}
  InitialMigrations = {}
  MayFailIn <- AllIds
  MayCrashIn <- AllIds
  Safe = "safe"
  UseSafe = TRUE
  AutoMine = FALSE
  MaxCrashes = 0
  MaxFaults = 0
  MaxTroubles = 0
  MaxPending = 1
SPECIFICATION FairUpgradeSpec
PROPERTY RerunFinalizes
