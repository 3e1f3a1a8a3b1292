CONSTANTS
  w1 = w1
  w2 = w2
  Client <- Two
  ChanCap = 1
  SockCap = 2
  MaxTriggers = 2
  Enders <- One
  Stallers <- SecondStalls
  CloseWhenLive = TRUE
SPECIFICATION FairSpec
INVARIANTS
  TypeOK
  EveryBeatAccounted
PROPERTIES
  EveryBeatHandled
  GoneAreForgotten
  CallsReturn
CHECK_DEADLOCK FALSE
