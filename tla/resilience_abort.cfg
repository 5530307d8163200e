SPECIFICATION Spec
CONSTANTS
  Call = {c1, c2, c3}
  LastLink = 2
  Threshold = 2
  Limit = 1
  MaxRequests = 4
PROPERTY AbortNeverCounts
CHECK_DEADLOCK FALSE
