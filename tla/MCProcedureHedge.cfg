SPECIFICATION Spec
CONSTANTS
  Chains <- MCTwoAfter
  Hedgers = {"use"}
  MaxFrames = 5
  Leaves <- MCLeaves
  MaxNodes = 4
  MaxMiddleware = 2
  MaxTrees = 3
  ToolSpecs <- MCToolSpecs
  Tokens <- MCTokens
  MaxCalls = 0
  SdkCalls <- MCSdkCalls
  Contracts <- MCContracts
  AllCalls <- MCAllCalls
  HostKeys <- MCHostKeys
  Excludes <- MCExcludes
  MaxHosts = 0
INVARIANT UseAfterSeesParsed
CHECK_DEADLOCK FALSE
