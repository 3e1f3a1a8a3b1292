CONSTANTS
  NCPU = 6
  MaxParts = 2
SPECIFICATION ListSpec
INVARIANTS
  ListIsSet
  VictimReadsTheSame
CHECK_DEADLOCK FALSE
