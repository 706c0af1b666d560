\* Two identical requests on two threads, two strategies each, leases that run
\* out, one stop of the process.
SPECIFICATION Spec
CONSTANTS
  Workers = {w1, w2}
  NoWorker = NoWorker
  LeaseTicks = 2
  MaxAttempts = 2
  Exps = {e1, e2}
  Fingerprint <- SameInputs
  NoExp = NoExp
  ExperimentLimit = 2
  Profiles = 2
  MaxRestarts = 1
SYMMETRY Interchangeable
INVARIANTS
  TypeOK
  RowsAgree
  OneLivePerFingerprint
PROPERTIES EndedStaysEnded RestartSettles
