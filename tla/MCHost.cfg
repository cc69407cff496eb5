SPECIFICATION FairHostSpec
CONSTANTS
  c1 = c1
  c2 = c2
  Client <- Viewers
  Columns = {1, 2}
  Rows = {1, 2}
  Work <- Sizes
  DefaultSize <- Large
  MaxChunks = 1
  MaxChain = 2
INVARIANTS
  LaidAsReceived
  SmallestWins
  NoDeadClient
PROPERTIES
  ViewerIsServed
CHECK_DEADLOCK FALSE
