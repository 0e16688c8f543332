SPECIFICATION Spec
CONSTANTS
  a = a
  b = b
  c1 = c1
  c2 = c2
  Ids <- MCOneId
  Calls <- MCCalls
  NoCall = NoCall
  HighWaterMark = 1
  CanPause = TRUE
  Trailing = FALSE
  Sends = {"sent", "drain"}
  Hook = "fails"
  MaxItems = 1
  MaxInputs = 0
INVARIANTS
  EveryEndIsAnswered
CHECK_DEADLOCK FALSE
