SPECIFICATION Spec
CONSTANTS
  a = a
  b = b
  c1 = c1
  c2 = c2
  Ids <- MCIds
  Calls <- MCCalls
  NoCall = NoCall
  HighWaterMark = 1
  CanPause = TRUE
  Trailing = TRUE
  Sends = {"sent", "drain", "oversize", "stringify", "closes", "throws"}
  Hook = "fails"
  MaxItems = 2
  MaxInputs = 2
SYMMETRY Symmetry
INVARIANTS
  SenderOwnsId
  ProducerReleased
  PausedByOpenQueue
PROPERTIES
  AnsweredUnlessCancelled
  SilentAfterCancel
  ImplementsService
CHECK_DEADLOCK FALSE
