SPECIFICATION Spec
CONSTANTS
  NoRow = NoRow
  NoValues = NoValues
  Half = 2
  GramLen = 2
  MaxDepth = 4
  MaxNodes = 13
  MaxInSet = 2
  Magnitudes = {0, 1, 3, 4, 7}
  Bytes = {0, 1, 3}
  MaxLen = 3
  NegativeZero = FALSE
  Versions = {0, 5, 15}
  Lowered = FALSE
  Compares = FALSE
CHECK_DEADLOCK FALSE
INVARIANTS
  KeysFollowValues
  NarrowingIsSound
  AnswerIsTheScan
  StableRowsPagedOnce
  AggregateIsTheFold
