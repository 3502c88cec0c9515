SPECIFICATION FairSpec
CONSTANTS
  d1 = d1
  d2 = d2
  v1 = v1
  x1 = x1
  Fd = {d1, d2, v1, x1}
  Source <- Sources
  MaxPoll = 4
INVARIANTS
  ReadyHasData
PROPERTIES
  ReadyIsServed
CHECK_DEADLOCK FALSE
