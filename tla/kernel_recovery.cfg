\* One worker at a time, called again after every crash: three calls of run(),
\* the last of which does not die.
SPECIFICATION FairSpec
CONSTANTS
  Worker = {w1}
  Action = {a1, a2}
  NoCheckpoint = NoCheckpoint
  MaxIntents = 2
  MaxTurns = 2
  MaxActions = 2
  ReuseIds = FALSE
  MaxRuns = 3
CHECK_DEADLOCK FALSE
INVARIANTS
  TurnOverrunBounded
PROPERTY
  RunsAndTaskEnd
