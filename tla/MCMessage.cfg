SPECIFICATION FairSpec
CONSTANTS
  HighWaterMark = 3
  Sizes = {1, 2, 4}
  MaxPushed = 9
  HasDrainTimeout = TRUE
  MaxWaits = 4
  Roles = {"client", "server"}
  HasHelloTimeout = TRUE
  Sends = {"sent", "drain", "closes", "throws"}
  MaxFrames = 5
  MemoryMark = 1
  MaxTexts = 3
  WsMark = 1
  Callers = {c1, c2}
  MaxWsTexts = 3
  PeerText <- MCPeerText
  MaxFrameBytes = 1
  MaxStdioTexts = 2
  MaxPortTexts = 2
INVARIANTS
  NothingLost
  PausedCanResume
  DrainedIsOwn
  ClosedIsClean
  OneReply
  ParkedIsWoken
  LinesReassembled
PROPERTIES
  EveryWaitEnds
  PipesKeepOrder
CHECK_DEADLOCK FALSE
