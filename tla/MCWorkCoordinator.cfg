\* Three calls, nested and re-entrant ones included, for two slots.
SPECIFICATION FairSpec
CONSTANTS
  Calls = {c1, c2, c3}
  NoJob = NoJob
  i1 = i1
  i2 = i2
  t1 = t1
  t2 = t2
  t3 = t3
  Keys <- MCKeys
  TopKeys <- MCTopKeys
  NestedKeys <- MCNestedKeys
  GlobalMax = 2
  PerKeyMax = 1
INVARIANTS
  TypeOK
  CountersAgree
  ExclusiveAccess
  NoLostWakeup
  NoOvertaking
PROPERTIES
  ImplementsSemaphore
  EveryCallSettles
\* The coordinator rests when every call has settled.
CHECK_DEADLOCK FALSE
