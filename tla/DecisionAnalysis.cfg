\* An analysis, an exact retry and a synchronous request for the same input on
\* two threads; leases run out, jobs are cancelled, the service is stopped or
\* dies once and children of the dead process may go on.
SPECIFICATION FairSpec
CONSTANTS
  w1 = w1
  w2 = w2
  j1 = j1
  j2 = j2
  c1 = c1
  Workers = {w1, w2}
  NoWorker = NoWorker
  LeaseTicks = 1
  MaxAttempts = 2
  Jobs = {j1, j2}
  Callers = {c1}
  Retries = {j2}
  NoJob = NoJob
  MaxCalls = 1
  MaxExpiries = 1
  MaxRestarts = 1
INVARIANTS
  Consistent
  AnswersAgree
PROPERTIES
  OnlyOwnerInterrupts
  EveryJobEnds
CONSTRAINTS ThreadPerJob NotBoth
ACTION_CONSTRAINT EndsUndisturbed
CHECK_DEADLOCK FALSE
