SPECIFICATION FairFeedSpec
CONSTANTS
  MaxTurns = 1
  MaxChunks = 3
  MaxFaults = 1
  Faults = {"ask", "cut", "drop", "overflow", "evict"}
INVARIANTS ShownTextIsPrefix
PROPERTIES PhoneCatchesUp
CHECK_DEADLOCK FALSE
