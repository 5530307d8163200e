\* The model repeats an actionId in a later turn and the worker dies inside it.
SPECIFICATION Spec
CONSTANTS
  Worker = {w1}
  Action = {a1}
  NoCheckpoint = NoCheckpoint
  MaxIntents = 1
  MaxTurns = 3
  MaxActions = 3
  ReuseIds = TRUE
  MaxRuns = 2
CHECK_DEADLOCK FALSE
INVARIANT NoTurnOverOrphan
