CONSTANTS
  victim = victim
  w1 = w1
  w2 = w2
  Absent = Absent
  Unreadable = Unreadable
  Order <- MCOrder
  PlanOrder <- MCPlanOrder
  Victim = victim
  Online <- MCOnline
  Plans <- MCPlans
  Hosts <- MCHosts
  Units <- MCUnits
  MaxRuns = 2
SPECIFICATION Spec
INVARIANTS
  TypeOK
  VerifiedMeansConfined
  MemoryIsCapped
  IsolationIsReal
CHECK_DEADLOCK FALSE
