SPECIFICATION Spec
CONSTANTS
  Pipelines <- MCPipelines
  Requests <- MCRequests
  MaxSends = 2
  Values <- MCValues
  Bodies <- MCBodies
  MaxFiles = 2
  MaxSize = 1
  MaxDepth = 3
  Items <- MCItems
  Newlines <- MCNewlines
  MaxTicks = 1
  MaxWire = 4
  MaxChunks = 2
  MaxSubs = 2
  MaxEvents = 3
INVARIANTS
  EveryErrorIsTold
  HeadersOnEveryAnswer
  CallerLearnsTheAnswer
  FilesArrive
  OutputIsFaithful
  
  SubscriptionData
CHECK_DEADLOCK FALSE
