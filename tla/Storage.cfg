SPECIFICATION Spec
CONSTANTS
  None = None
  Error = Error
  r1 = r1
CHECK_DEADLOCK FALSE
INVARIANTS
  TreeIsSound
  RecoveredTreeIntact
  SnapshotStable
  CellsIntact
  LocationsResolve
  CheckpointedRecordsReadable
