CONSTANTS
  Period = 1
  SkipAfter = 1
  MaxValue = 3
  Second = 3
  MaxTime = 7
SPECIFICATION Spec
INVARIANTS
  RowsConserved
PROPERTIES
  StallIsRecorded
CHECK_DEADLOCK FALSE
