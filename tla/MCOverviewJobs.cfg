\* An import and a deletion of one period of two pages at work at the same time:
\* failed, empty, wrong and repeated pages, a crash, retries and deletion of jobs.
SPECIFICATION Spec
CONSTANTS
  Jobs = {j1, d1}
  Deletions = {d1}
  Automatic = {j1}
  Key <- DistinctKeys
  Scope <- EveryInstance
  Instances = {a}
  Total = 2
  Chunk = 1
  MaxFailures = 1
  MaxRestarts = 1
  Tasks = {t1, t2}
  Requests = {u1}
  NoJob = NoJob
SYMMETRY Symmetry
INVARIANTS
  JobInv
  CheckpointBehindData
  SuccessIsComplete
\* Nothing is left to do once every job is over or skipped.
CHECK_DEADLOCK FALSE
