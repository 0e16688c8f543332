SPECIFICATION Spec
CONSTANTS
  c1 = c1
  c2 = c2
  Calls <- MCCalls
  HighWaterMark = 1
  CanPause = TRUE
  Trailing = TRUE
  ControlFits = FALSE
  Sends = {"sent", "drain", "oversize", "closes", "throws"}
  MaxSent = 1
  MaxBuffered = 2
SYMMETRY Symmetry
INVARIANTS
  NobodyHangs
  PausedByStream
PROPERTIES
  SilentWhenDone
CHECK_DEADLOCK FALSE
