\* Liveness and the command ledger: a replan and an optimization, both with a
\* key, compete for one thread; one stop of the process.
SPECIFICATION FairSpec
CONSTANTS
  Workers = {w1}
  NoWorker = NoWorker
  LeaseTicks = 1
  MaxAttempts = 2
  Jobs = {j1, j2}
  LongJobs = {j2}
  ReplanJobs = {j1}
  KeyedJobs = {j1, j2}
  NoJob = NoJob
  QueueLimit = 2
  LongLanes = 1
  MaxRestarts = 1
INVARIANT CommandsAgree
PROPERTIES EveryJobEnds CancelHonoured
