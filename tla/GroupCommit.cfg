SPECIFICATION Spec
CONSTANTS
  Writers = {w1, w2, w3}
  Start = 1
  FsyncFails = TRUE
  MaxAppends = 3
  MaxRotations = 2
INVARIANTS OkIsDurable NoLostWakeup
PROPERTY EveryCallReturns
CHECK_DEADLOCK FALSE
