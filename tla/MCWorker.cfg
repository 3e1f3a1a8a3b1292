CONSTANTS
  main_ = main_
  coordinator = coordinator
  observer = observer
  None = none
  Main = main_
  Coordinator = coordinator
  Sampler <- MCSampler
  Thread <- MCThread
  Event <- MCEvent
  ChanCap = 2
  BufCap = 1
  MaxEvents = 3
SPECIFICATION FairSpec
INVARIANTS
  TypeOK
  EmitsBeforeClose
  NothingOutOfOrder
  NoSilentLoss
  BurstsPaired
PROPERTIES
  CancelEnds
CHECK_DEADLOCK FALSE
