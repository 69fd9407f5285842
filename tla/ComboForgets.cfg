\* The two memories of the combo script write one file.
CONSTANTS
  Users = {"u1", "u2", "u3"}
  Processes <- One
  Memories <- AllMemories
  IgnoreDuration <- Minutes
  Settings <- OnlyBoth
  MaxOdosFailureCount = 2
  MaxCurveFailureCount = 2
SPECIFICATION Spec
PROPERTY RemembersWhatItSaved
