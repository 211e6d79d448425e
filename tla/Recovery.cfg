SPECIFICATION Spec
CONSTANTS
  a = a
  b = b
  u1 = u1
  u2 = u2
  NoNode = NoNode
  None = None
CHECK_DEADLOCK FALSE
INVARIANTS
  ReplayReproducesRecords
  EveryNodeReachable
  AckedSurvives
PROPERTIES
  UsersAreTheLog
