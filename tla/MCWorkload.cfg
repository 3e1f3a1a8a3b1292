CONSTANTS
  MaxN = 2
  MaxBursts = 2
  Loads <- MCLoads
SPECIFICATION FairSpec
INVARIANTS
  TypeOK
  ReturnedMeansQuiet
  FilesRemoved
PROPERTIES
  RunsReturn
  BurstLeavesNothing
CHECK_DEADLOCK FALSE
