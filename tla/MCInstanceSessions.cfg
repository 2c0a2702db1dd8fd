\* Two requests of any kind about one instance that may move between two
\* Pi-holes, each with two session slots.
SPECIFICATION Spec
CONSTANTS
  Instances = {i1}
  Targets = {A, B}
  Requests = {r1, r2}
  Ids = {0, 1}
  NoJob = NoJob
  NoSession = NoSession
  NoRecord = NoRecord
  Unchanged = Unchanged
  GlobalMax = 2
SYMMETRY Symmetry
INVARIANT
  SessionInv
PROPERTY SuccessMatchesTarget
\* Every request may be over.
CHECK_DEADLOCK FALSE
