SPECIFICATION Spec
CONSTANTS
  NTrees = 2
  CheckpointInterval = 2
  Faults = {"append", "apply_framed", "flush", "rotate_dirsync", "power"}
  MaxSeq = 5
  MaxTx = 2
  MaxWrite = 2
INVARIANT NamedWritesSurvive
PROPERTY StoreUnlessPowerLoss
