CONSTANTS
  a = a
  b = b
  Victim = victim
  Observer = observer
  Unset = unset
  VictimWidth = 2
  CPU <- MCCPU
  Names <- MCNames
  Profiles <- MCProfiles
  Workloads <- MCWorkloads
SPECIFICATION Spec
INVARIANTS
  TypeOK
  OverridesReserved
  CarvesPartitionPool
  VictimIsolated
  PoolsRespected
  ExclusiveMeansAlone
  LookupFindsOwn
  AcceptsExactlyWhatFits
CHECK_DEADLOCK FALSE
