\* Two requests about one instance, two job slots, one session slot.
SPECIFICATION FairSpec
CONSTANTS
  Instances = {i1}
  Targets = {A, B}
  Requests = {r1, r2}
  Ids = {1}
  NoJob = NoJob
  NoSession = NoSession
  NoRecord = NoRecord
  Unchanged = Unchanged
  GlobalMax = 2
PROPERTY EveryRequestEnds
\* Every request may be over.
CHECK_DEADLOCK FALSE
