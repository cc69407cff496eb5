SPECIFICATION FairRcSpec
CONSTANTS
  t1 = t1
  t2 = t2
  s1 = s1
  s2 = s2
  Ticket = {t1, t2}
  Socket = {s1, s2}
  NoTicket = NoTicket
  NoKey = NoKey
  NoSocket = NoSocket
  Lifetime = 1
  MaxSessions = 2
  MaxKeys = 2
  MaxFaults = 2
INVARIANTS
  TicketOpensOnce
  OneLiveSocket
  StopsForAReason
  KeyIsOfTheLastTap
PROPERTIES
  TicketGetsIn
CHECK_DEADLOCK FALSE
