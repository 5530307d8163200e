INIT PromisesInit
NEXT PromisesNext
CONSTANTS
  FactProcess = {"p", "q"}
  NoFactLock = NoFactLock
  Garbage = Garbage
  NoCheckpoint = NoCheckpoint
  SessionProc = {"p"}
  Nobody = Nobody
  LockAttempts = 2
  MaxMutations = 3
  MaxSessionDeaths = 1
  MaxOverstays = 0
  ActionTask = {"t1"}
  ActionLists <- MCActionLists
  Tool <- MCTool
  NoTool = NoTool
  ActionConfig <- MCActionConfig
  MaxObserved = 0
  ActionModes = {"kernel"}
  MaxSubmits = 2
  MaxDeaths = 1
  CfgJob = {"a", "b"}
  CfgCase <- MCCfgCase
  NoConfig = NoConfig
  TornFile = TornFile
  Bad = Bad
  SbCommand = {"c"}
  SbAsked <- MCSbAsked
  NoBox = NoBox
INVARIANT SomePromiseStands
CHECK_DEADLOCK FALSE
