\* Two intakes of the same order on two threads; the first job loses its lease
\* up to twice, the process is stopped or dies once, users edit, start, cancel
\* and delete.
SPECIFICATION FairSpec
CONSTANTS
  w1 = w1
  w2 = w2
  r1 = r1
  r2 = r2
  i1 = i1
  i2 = i2
  Workers = {w1, w2}
  NoWorker = NoWorker
  LeaseTicks = 1
  MaxAttempts = 2
  Requests = {r1, r2}
  IntakeKeys = {i1, i2}
  IntakeOf <- Keys
  ContentOf <- Described
  Reported = "reported"
  Edited = "edited"
  MaxRevision = 2
  MaxPlans = 2
  MaxRestarts = 1
INVARIANTS
  Consistent
  OneAnswer
  CancelledIsNotPlanned
PROPERTIES
  FirstConsumptionKept
  EveryJobEnds
CONSTRAINTS ThreadPerJob OneStalls
CHECK_DEADLOCK FALSE
