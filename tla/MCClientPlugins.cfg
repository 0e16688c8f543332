SPECIFICATION ChainSpec
CONSTANTS
  c1 = c1
  c2 = c2
  Callers <- MCCallers
  Passes <- MCPasses
  CallerOf <- MCCallerOf
  Keys = {k1}
  NoKey = NoKey
  NoExec = NoExec
  Retries = 1
INVARIANTS
  OneExecution
  SharedFate
  RetryIsNew
PROPERTIES
  StoreInOrder
  AbortSettles
CHECK_DEADLOCK FALSE
