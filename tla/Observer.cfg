CONSTANTS
  Moving = {"user", "nice", "iowait"}
  Limit = 4
  MaxTime = 6
SPECIFICATION Spec
INVARIANTS
  IntervalsTile
PROPERTIES
  RowIsTrue
CHECK_DEADLOCK FALSE
