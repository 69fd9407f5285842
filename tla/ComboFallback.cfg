\* The combo script while the swaps of the Odos bot fail.
CONSTANTS
  Users = {"u1", "u2", "u3"}
  Processes <- One
  Memories <- AllMemories
  IgnoreDuration <- Minutes
  Settings <- OnlyNoFallback
  MaxOdosFailureCount = 2
  MaxCurveFailureCount = 2
SPECIFICATION FairSpec
PROPERTY FallsBackToCurve
