SPECIFICATION Spec
CONSTANTS
  a = a
  b = b
  c1 = c1
  c2 = c2
  Ids <- MCOneId
  Calls <- MCCalls
  NoCall = NoCall
  HighWaterMark = 1
  CanPause = TRUE
  Trailing = FALSE
  Sends = {"sent"}
  Hook = "works"
  MaxItems = 2
  MaxInputs = 2
INVARIANTS
  PausedByInflight
CHECK_DEADLOCK FALSE
