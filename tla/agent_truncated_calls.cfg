SPECIFICATION Spec
CONSTANTS
  MaxRounds = 2
  MaxQueue = 2
  MaxCalls = 2
  DoomThreshold = 2
  MaxPrompts = 1
  MaxTools = 1
  MaxItems = 2
  MaxCompactions = 0
INVARIANT TruncatedNeverRuns
CHECK_DEADLOCK FALSE
