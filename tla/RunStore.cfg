SPECIFICATION Spec
CONSTANTS
  m1 = m1
  m2 = m2
  m3 = m3
  m4 = m4
  c1 = c1
  c2 = c2
  w1 = w1
  w2 = w2
  Message <- MCMessage
  Conversation <- MCConversation
  ConversationOf <- MCConversationOf
  Worker <- MCWorker
  ProgressEvent <- MCProgressEvent
  NoMessage = NoMessage
  NoWorker = NoWorker
  MaxRuns = 3
  MaxQueuedRuns = 3
  MemoryLimit = 1
  OneClock = TRUE
  MaxGeneration = 2
  MaxEvents = 1
SYMMETRY MCSymmetry
CHECK_DEADLOCK FALSE
INVARIANTS
  TypeOK
  OneRunPerMessage
  LeasedExactlyWhenRunning
  OverlapOnlyPastUnclaimedEnd
  ConversationCanMove
  CommitChain
  MemoryIsEndOfLedger
PROPERTIES
  LeaseIsExclusive
  ImplementsLedger
