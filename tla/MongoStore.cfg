SPECIFICATION MongoSpec
CONSTANTS
  m1 = m1
  m2 = m2
  c1 = c1
  a1 = a1
  a2 = a2
  w1 = w1
  w2 = w2
  Message <- MCMessage
  Conversation <- MCConversation
  ConversationOf <- MCConversationOf
  Client <- MCClient
  Worker <- MCWorker
  ProgressEvent <- MCProgressEvent
  NoMessage = NoMessage
  NoWorker = NoWorker
  MaxRuns = 3
  MaxQueuedRuns = 1
  MemoryLimit = 1
  OneClock = FALSE
  MaxGeneration = 2
  MaxEvents = 0
SYMMETRY MCSymmetry
CHECK_DEADLOCK FALSE
INVARIANTS
  MongoTypeOK
  CommitChain
  MongoConversationCanMove
  QueueOvershootIsBounded
PROPERTIES
  LeaseIsExclusive
  ImplementsLedger
