SPECIFICATION SessionSpec
CONSTANTS
  Roles = {"server"}
  HasHelloTimeout = TRUE
  Sends = {"sent", "closes"}
  MaxFrames = 5
INVARIANTS
  ClosedIsFinal
