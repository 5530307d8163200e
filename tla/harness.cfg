SPECIFICATION HarnessSpec
CONSTANTS
  ActionTask = {"t1", "t2"}
  ActionLists <- MCActionLists
  Tool <- MCTool
  NoTool = NoTool
  ActionConfig <- MCActionConfig
  MaxObserved = 3
  MaxSubmits = 1
  ActionModes = {"kernel", "ask", "full-auto"}
  MaxDeaths = 1
  TaskPlans <- MCTaskPlans
  MaxConcurrency = 2
  SessionProc = {"p", "q"}
  Nobody = Nobody
  LockAttempts = 2
  MaxMutations = 2
  MaxSessionDeaths = 1
  MaxOverstays = 1
  AuditProc = {"p", "q"}
  MaxEvents = 3
  MaxAuditFaults = 2
  WorkFile = {"a", "b"}
  MaxCheckpoints = 2
  MaxCaptures = 3
  MaxEdits = 1
  MaxCaptureFaults = 1
  MaxSpecs = 2
  CredJob = {"a", "b"}
  CredProcess = {"one", "two"}
  Placements <- MCPlacements
  Account = {"g"}
  NoFile = NoFile
  MaxTokens = 2
  MaxCredDeaths = 1
  ToolName = {"bash", "todo", "grep", "mcp_s_t", "mcp_s_t_1"}
  CommandName = {"go"}
  BaseTools = {"bash"}
  AgentTools = {"todo"}
  McpTools <- MCMcpTools
  ExtensionPaths <- MCExtensionPaths
  Scripts <- MCScripts
  MaxReloads = 1
  MaxCrashes = 1
  RpcCall = {"c1", "c2", "c3"}
  Call = {"m1", "m2", "m3"}
  LastLink = 2
  Threshold = 2
  Limit = 1
  MaxRequests = 4
  StreamClient = {"openai", "anthropic", "responses", "gemini"}
  StreamAnswer <- MCStreamAnswers
  StreamRetries = 1
  SbCommand = {"c", "d"}
  SbAsked <- MCSbAsked
  NoBox = NoBox
  CfgJob = {"a", "b", "c"}
  CfgCase <- MCCfgCase
  NoConfig = NoConfig
  TornFile = TornFile
  Bad = Bad
  ServerScripts <- MCServerScripts
  MaxStreams = 2
  MaxTurnEvents = 1
  LaunchCase <- MCLaunchCase
CHECK_DEADLOCK FALSE
INVARIANTS ActionsAccounted
  WritersExclusive CommittedUnderLock AckedVerifies UndoInOrder ConfirmedByItsOwnAnswer
  StoredTokenUsable AnswerIsItsOwn
  BreakerSound AnswerIsSent
  ContainersWatched ConfigSound
  ServedInTurn StreamIsItsTurn LaunchSound
PROPERTIES PlanKept OthersToolsKept GraphEnds CallsSettle ModelRequestsEnd CutMeansEnded
  RequestsAnswered LoopsEnd
