SPECIFICATION Spec
CONSTANTS
  NTrees = 2
  CheckpointInterval = 2
  Faults = {"rotate_dirsync"}
  MaxSeq = 6
  MaxTx = 2
  MaxWrite = 3
INVARIANTS AckedRecoverable
