SPECIFICATION FairStreamSpec
CONSTANTS
  MaxEvents = 3
  MaxPosition = 4
  MaxBreaks = 2
CHECK_DEADLOCK FALSE
INVARIANTS
  StreamTypeOK
  NoGapNoRepeat
  EndedClientHasItAll
PROPERTIES
  ImplementsFeed
  ClientLearnsTheEnd
