CONSTANTS
  m1 = m1
  m2 = m2
  m3 = m3
  m4 = m4
  s1 = s1
  s2 = s2
  Messages = {m1, m2, m3, m4}
  Sets = {s1, s2}
  SetOf <- MCSetOf
  QueueSize = 0
  CyclesPerRequest = 2
SPECIFICATION FairSpec
INVARIANTS
  TypeOK
  EventIffWork
  NoAssert
  NoDuplicate
PROPERTIES
  NoLoss
  EveryMessageServed
CHECK_DEADLOCK FALSE
