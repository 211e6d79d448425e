SPECIFICATION Spec
CONSTANTS
  o1 = o1
  o2 = o2
  p1 = p1
  p2 = p2
  w1 = w1
  w2 = w2
  w3 = w3
  t1 = t1
  t2 = t2
  k1 = k1
  k2 = k2
  k3 = k3
  Nobody = Nobody
  Free = Free
CHECK_DEADLOCK FALSE
INVARIANTS
  ScanLosesNothing
  StreamIsTheFeed
  AllowanceIsKept
  CountsAddUp
  VersionsNeverReissued
