SPECIFICATION Spec
CONSTANTS
  Addresses = {a, b}
  Contents <- MCContents
  IndexedKind = "k1"
  NoNode = NoNode
  MaxOps = 4
INVARIANTS ReplayReproducesIndexes
CHECK_DEADLOCK FALSE
