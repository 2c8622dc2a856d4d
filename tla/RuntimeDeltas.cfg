SPECIFICATION RuntimeSpec
CONSTANTS
  m1 = m1
  m2 = m2
  c1 = c1
  w1 = w1
  w2 = w2
  s1 = s1
  s2 = s2
  Message <- MCOneMessage
  Conversation <- MCConversation
  ConversationOf <- MCConversationOf
  Worker <- MCOneWorker
  Slot <- MCOneSlot
  ProcessOf <- MCOneProcessOf
  ProgressEvent <- MCProgressEvent
  Path <- MCPath
  NoMessage = NoMessage
  NoWorker = NoWorker
  NoSlot = NoSlot
  MaxRuns = 1
  MaxQueuedRuns = 1
  MemoryLimit = 1
  OneClock = TRUE
  MaxGeneration = 6
  MaxEvents = 12
  AnswerChunks = 1
  MaxCancels = 0
  MaxFaults = 1
CHECK_DEADLOCK FALSE
INVARIANT DeltasMakeTheAnswer
