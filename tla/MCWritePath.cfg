SPECIFICATION FairSpec
CONSTANTS
  m1 = m1
  m2 = m2
  m3 = m3
  Msgs = {m1, m2, m3}
  Size = 3
  SockCap = 2
INVARIANTS
  TypeOK
  NoLostWakeUp
PROPERTIES
  InOrder
  MessageArrives
CHECK_DEADLOCK FALSE
