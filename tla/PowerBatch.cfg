SPECIFICATION HistorySpec
CONSTANTS
  NTrees = 2
  CheckpointInterval = 2
  Faults = {"power"}
  MaxSeq = 6
  MaxTx = 2
  MaxWrite = 3
INVARIANTS BatchAtomic
