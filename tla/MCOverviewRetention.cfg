\* One import with one task: failed and empty pages, a crash, retries,
\* deletions and renewals by two users, over three mornings of which each may clean up.
SPECIFICATION RetentionFairSpec
CONSTANTS
  Jobs = {j1}
  Deletions = {}
  Automatic = {j1}
  Key <- DistinctKeys
  Scope <- EveryInstance
  Instances = {a}
  Total = 1
  Chunk = 1
  MaxFailures = 1
  MaxRestarts = 1
  Tasks = {t1}
  Requests = {u1, u2}
  NoJob = NoJob
  Retention = 1
  MaxDay = 2
  NoWindow = NoWindow
INVARIANT
  RetentionInv
PROPERTIES
  EveryJobEnds
  WindowKeepsEntries
\* Nothing is left to do once every job is over.
CHECK_DEADLOCK FALSE
