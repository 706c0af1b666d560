\* One request sent by two threads and again until it is answered, other users
\* who edit, lock, unlock and publish, one of them under the same key, and one
\* death of the process.
SPECIFICATION FairSpec
CONSTANTS
  Threads = {t1, t2}
  NoThread = NoThread
  LockIds = {l1, l2}
  NoLock = NoLock
  MaxRevision = 2
  MaxPlans = 2
  MaxRestarts = 1
INVARIANTS
  Consistent
  OnceEach
PROPERTIES
  PlannedOverSeenPlan
  EveryCommandEnds
CHECK_DEADLOCK FALSE
