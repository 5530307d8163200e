SPECIFICATION ConversationSpec
CONSTANTS
  MaxRounds = 2
  MaxQueue = 2
  MaxCalls = 2
  DoomThreshold = 2
  MaxPrompts = 1
  MaxTools = 1
  MaxItems = 2
  MaxCompactions = 1
  EditorStarts <- MCEditorStarts
  PastedTexts <- MCPastedTexts
  UndoLimit = 2
  KillLimit = 2
  HistoryLimit = 2
  MaxKeys = 3
  UiModels <- MCUiModels
  UiPalette <- MCUiPalette
  Decisions = 2
  MaxUiKeys = 5
  MaxAgentEvents = 3
  MaxSessions = 3
  SiLogin = {"l", "m"}
  SiCase <- MCSiCase
  MaxSlow = 1
  MaxStray = 1
  DgFiles <- MCDgFiles
  MaxDgEdits = 2
  MaxOthersEdits = 1
  MaxPushes = 2
INVARIANTS TheModelIsTold ScreenTellsTheAgent SignInSound
PROPERTIES TurnsEnd NoTextLost SignInEnds
CHECK_DEADLOCK FALSE
