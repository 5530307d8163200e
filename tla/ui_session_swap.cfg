SPECIFICATION UiSpec
CONSTANTS
  UiModels <- MCUiModels
  UiPalette <- MCUiPalette
  Decisions = 2
  MaxUiKeys = 5
  MaxAgentEvents = 3
  MaxSessions = 3
INVARIANT TurnKeepsSession
CHECK_DEADLOCK FALSE
