SPECIFICATION QuotaSpec
CONSTANTS
  r1 = r1
  r2 = r2
  e1 = e1
  e2 = e2
  Run <- MCRun
  Execution <- MCExecution
  Spent <- MCSpent
  QueueLimit = 2
  ActiveLimit = 1
  RunTokens = 1
  DailyTokens = 2
  LastDay = 2
  MaxRetries = 1
  NoRun = NoRun
SYMMETRY MCSymmetry
CHECK_DEADLOCK FALSE
INVARIANTS
  QuotaTypeOK
  ActiveDriftsByExpiry
  QueueOvercountsByExpiry
  ReservedTokensAreHeld
  LeftoversAreExplained
