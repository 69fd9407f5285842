\* The deployment to a local network, killed twice.
CONSTANTS
  Scripts <- LocalScripts
  InitialFacts = {}
  InitialMigrations = {}
  MayCrashIn <- Robust
  MayFailIn = {}
  Safe = "safe"
  UseSafe = FALSE
  AutoMine = TRUE
  MaxCrashes = 2
  MaxFaults = 0
  MaxTroubles = 2
  MaxPending = 0
SPECIFICATION FairSpec
INVARIANTS EngineTypeOK NeverThrows
PROPERTIES EventuallyClean RerunsAreHarmless LogSpec
