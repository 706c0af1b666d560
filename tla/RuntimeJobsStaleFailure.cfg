\* One keyed job: a thread that lost its lease still writes the command's failure.
SPECIFICATION Spec
CONSTANTS
  Workers = {w1}
  NoWorker = NoWorker
  LeaseTicks = 1
  MaxAttempts = 2
  Jobs = {j1}
  LongJobs = {}
  ReplanJobs = {j1}
  KeyedJobs = {j1}
  NoJob = NoJob
  QueueLimit = 1
  LongLanes = 1
  MaxRestarts = 0
PROPERTY FailureWrittenByHolder
