SPECIFICATION WorkflowSpec
CONSTANTS
  a1 = a1
  a2 = a2
  Caller <- MCCaller
  Call <- MCCalls
  Arguments <- MCArguments
  NoArguments = NoArguments
  MaxRetries = 1
  MaxStops = 1
  MaxSharedCalls = 1
  SharedIntents = {"MAP_QUERY"}
SYMMETRY MCSymmetry
CHECK_DEADLOCK FALSE
CONSTRAINT MCFollowed
INVARIANTS
  TurnTypeOK
  ToolCallsClosed
  OneArgumentsPerCall
  EvidenceSurvivesAnswerFailure
  NoLeftovers
