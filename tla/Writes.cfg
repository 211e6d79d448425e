SPECIFICATION Spec
CONSTANTS
  n1 = n1
  n2 = n2
  q = q
  alice = alice
  root = root
  None = None
  Everyone = Everyone
  Untouched = Untouched
CHECK_DEADLOCK FALSE
INVARIANTS
  RulesHold
  LoweredIsApplied
  ChecksAreAtomic
