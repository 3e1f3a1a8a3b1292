CONSTANTS
  observer = observer
  victim = victim
  worker = worker
  Order <- Two
  Stubborn <- AllStubborn
SPECIFICATION FairSpec
PROPERTY TerminateReturns
CHECK_DEADLOCK FALSE
