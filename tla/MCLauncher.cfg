CONSTANTS
  observer = observer
  victim = victim
  worker = worker
  Order <- Three
  Stubborn <- AnyStubborn
SPECIFICATION FairSpec
INVARIANTS
  TypeOK
  ResultsComplete
  GraceIsGiven
PROPERTIES
  ComesDown
  Supervises
  AbortEnds
CHECK_DEADLOCK FALSE
