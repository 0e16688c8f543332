SPECIFICATION Spec
CONSTANTS
  Chains <- MCChains
  Hedgers = {"interceptor"}
  MaxFrames = 5
  Leaves <- MCLeaves
  MaxNodes = 4
  MaxMiddleware = 2
  MaxTrees = 3
  ToolSpecs <- MCToolSpecs
  Tokens <- MCTokens
  MaxCalls = 2
  SdkCalls <- MCSdkCalls
  Contracts <- MCContracts
  AllCalls <- MCAllCalls
  HostKeys <- MCHostKeys
  Excludes <- MCExcludes
  MaxHosts = 2
INVARIANTS
  RunsAreIsolated
  InputIsChecked
  ErrorsAreFinal
  BuiltAsWritten
  HiddenIsUnknown
  ClientPerCall
  ResultsAreHonest
  EveryToolIsListed
CHECK_DEADLOCK FALSE
