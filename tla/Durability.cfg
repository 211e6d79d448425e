SPECIFICATION Spec
CONSTANTS
  NTrees = 2
  CheckpointInterval = 2
  Faults = {"apply_framed", "flush"}
  MaxSeq = 6
  MaxTx = 2
  MaxWrite = 3
INVARIANTS TypeOK AckedRecoverable RecoveryNeverRefuses CheckpointReflected VisibleIsRecoverable
PROPERTY ImplementsDurableStore
