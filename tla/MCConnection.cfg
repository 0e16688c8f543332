SPECIFICATION FairSpec
CONSTANTS
  Ids <- MCIds
  Objects <- MCIds
  NoCall = NoCall
  HighWaterMark = 0
  CanPause = TRUE
  Trailing = FALSE
  ControlFits = TRUE
  Sends = {"sent", "drain", "oversize", "closes"}
  Hook = "works"
  MaxItems = 1
  MaxInputs = 2
  MaxSent = 2
  MaxBuffered = 2
INVARIANTS
  StreamsAreWhole
PROPERTIES
  CallsEnd
CHECK_DEADLOCK FALSE
