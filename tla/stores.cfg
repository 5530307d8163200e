SPECIFICATION StoresSpec
CONSTANTS
  p1 = p1
  p2 = p2
  p3 = p3
  Process = {p1, p2, p3}
  NoLock = NoLock
  Garbage = Garbage
  NoCheckpoint = NoCheckpoint
  BatchSizes = {1, 2}
  LoseNewline = FALSE
  SoloRecovery = TRUE
  MaxAttempts = 2
  MaxCalls = 3
  MaxCrashes = 2
  TreeAgent = {"a", "b"}
  InitialSessions <- MCInitialSessions
  MaxTrees = 3
  TreeBudgets <- MCTreeBudgets
  ShUser = {"u", "v"}
  ShRequest = {"x", "y"}
  ShCommand = {1, 2}
  ShSetups <- MCShSetups
  MaxNow = 1
  MaxShares = 1
  MaxShPosts = 3
  MaxShDeaths = 1
  FtCaller = {"a", "b"}
  FtOrder <- MCFtOrder
  FtSetups <- MCFtSetups
  MaxResults = 1
  MaxEntries = 2
  MaxFtDeaths = 1
INVARIANTS WritesGuarded SessionsRemember SharesSound FilesSound
PROPERTIES ImplementsFactPort CallReturns
CHECK_DEADLOCK FALSE
