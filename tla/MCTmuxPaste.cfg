SPECIFICATION FairTPSpec
CONSTANTS
  a = a
  b = b
  p1 = p1
  p2 = p2
  q1 = q1
  t1 = t1
  k1 = k1
  Conn = {a, b}
  Typed = {k1}
  Paste = {p1, p2, q1}
  Tap = {t1}
  From <- Sender
  Together <- Mixes
INVARIANTS
  AckedMeansDone
  PasteIsUndivided
  EachPastesItsOwn
PROPERTIES
  EveryPasteIsAnswered
CHECK_DEADLOCK FALSE
