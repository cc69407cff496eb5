SPECIFICATION FairAQSpec
CONSTANTS
  c1 = c1
  c2 = c2
  Client <- Viewers
  Work = {"resize"}
  MaxChunks = 3
  MaxChain = 1
INVARIANTS
  ExactStream
PROPERTIES
  ImplementsLiveStream
CHECK_DEADLOCK FALSE
