CONSTANTS
  a1 = a1
  a2 = a2
  a3 = a3
  s1 = s1
  s2 = s2
  b1 = b1
  b2 = b2
  NumL1s = 2
  Banks = {b1}
  Addrs = {a1, a2}
  ThreadState = {}
  Sets = {s1, s2}
  L1SetOf <- OneSet
  L2SetOf <- OneSet
  BankOf <- OneBank
  L1Assoc = 1
  L2Assoc = 1
  L1Mshrs = 1
  L2Mshrs = 1
  L1Requests = 2
  L2Requests = 2
  L1WriteBacks = 1
  L2WriteBacks = 1
  L2ReadFwd = FALSE
  LinkBandwidth = FALSE
  Watched = {a1}
  MaxOutstanding = 1
SPECIFICATION Spec
INVARIANTS
  WrittenDataHeld
CHECK_DEADLOCK FALSE
