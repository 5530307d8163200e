SPECIFICATION StreamSpec
CONSTANTS
  StreamClient = {"openai", "anthropic", "responses", "gemini"}
  StreamAnswer <- MCStreamAnswers
  StreamRetries = 1
PROPERTY AbortEnds
CHECK_DEADLOCK FALSE
