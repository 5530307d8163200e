\* Two workers race for one task of one turn; three calls of run(), any of which but the
\* last may die at any step.
SPECIFICATION Spec
CONSTANTS
  Worker = {w1, w2}
  Action = {a1, a2}
  NoCheckpoint = NoCheckpoint
  MaxIntents = 2
  MaxTurns = 1
  MaxActions = 2
  ReuseIds = FALSE
  MaxRuns = 3
SYMMETRY Symmetry
CHECK_DEADLOCK FALSE
INVARIANTS
  WriteAhead
  RecoverySound
PROPERTY
  ImplementsLedger
