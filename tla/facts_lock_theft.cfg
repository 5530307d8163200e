SPECIFICATION Spec
CONSTANTS
  p1 = p1
  p2 = p2
  p3 = p3
  Process = {p1, p2, p3}
  NoLock = NoLock
  Garbage = Garbage
  NoCheckpoint = NoCheckpoint
  BatchSizes = {1}
  LoseNewline = FALSE
  SoloRecovery = FALSE
  MaxAttempts = 2
  MaxCalls = 3
  MaxCrashes = 2
INVARIANT LockExclusive
CHECK_DEADLOCK FALSE
