\* Every bot, each with the hazards it is exposed to.
CONSTANTS
  Users = {"u1", "u2", "u3"}
  Processes <- One
  Memories <- AllMemories
  IgnoreDuration <- Minutes
  Settings <- AllSettings
  MaxOdosFailureCount = 2
  MaxCurveFailureCount = 2
SPECIFICATION FairSpec
INVARIANTS BotTypeOK OneAtATime OwnFactor
PROPERTIES QuietAfterIgnore EventuallyLiquidated
