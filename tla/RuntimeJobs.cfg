\* Two long jobs, one of them keyed, on two threads but one long lane; one
\* stop, crash or shutdown, at any moment.
SPECIFICATION Spec
CONSTANTS
  Workers = {w1, w2}
  NoWorker = NoWorker
  LeaseTicks = 2
  MaxAttempts = 2
  Jobs = {j1, j2}
  LongJobs = {j1, j2}
  ReplanJobs = {}
  KeyedJobs = {j1}
  NoJob = NoJob
  QueueLimit = 2
  LongLanes = 1
  MaxRestarts = 1
SYMMETRY Threads
INVARIANTS
  TypeOK
  JobsBounded
  CompletedIffPublished
PROPERTY ContractKept
