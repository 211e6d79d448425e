SPECIFICATION Spec
CONSTANTS
  c1 = c1
  c2 = c2
  c3 = c3
  n1 = n1
  n2 = n2
  seq = seq
  alice = alice
  root = root
  None = None
  Everyone = Everyone
  NoRow = NoRow
  Half = 2
  GramLen = 2
  MaxDepth = 4
  MaxNodes = 13
  MaxInSet = 2
CHECK_DEADLOCK FALSE
INVARIANTS
  LongLivesAreBounded
  InFlightFinish
PROPERTIES
  PermitComesBack
  StopsWhenAsked
  PagingEnds
  CopyConverges
