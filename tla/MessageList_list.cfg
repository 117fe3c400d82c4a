SPECIFICATION Spec
CONSTANTS
  HistoryLimit = 4
  LastId = 6
  Height <- MCHeight
  Window = 1
  FollowDistance = 1
  ScrollStep = 2
INVARIANTS
  RowsShowHistory
PROPERTY
  ReaderKeepsPlace
CHECK_DEADLOCK FALSE
