CONSTANTS
  w1 = w1
  w2 = w2
  Client <- One
  ChanCap = 1
  SockCap = 1
  MaxTriggers = 1
  Enders <- One
  Stallers <- NobodyStalls
  CloseWhenLive = FALSE
SPECIFICATION Spec
INVARIANT CloseStopsServing
CHECK_DEADLOCK FALSE
