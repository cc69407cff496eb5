SPECIFICATION FairPrSpec
CONSTANTS
  s1 = s1
  k1 = k1
  k2 = k2
  Session = {s1}
  Mine = s1
  Socket = {k1, k2}
  Period = 1
  Dead = 2
  Evict = 3
  MaxOut = 2
  MaxDelay = 1
INVARIANTS
  RegistryStaysClean
  SilenceIsBounded
PROPERTIES
  UnreadSurvivesBeats
  ListFollowsLife
CHECK_DEADLOCK FALSE
