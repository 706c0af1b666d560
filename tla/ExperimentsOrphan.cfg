\* One experiment, one thread, no restart: a failed job leaves its experiment.
SPECIFICATION Spec
CONSTANTS
  Workers = {w1}
  NoWorker = NoWorker
  LeaseTicks = 1
  MaxAttempts = 2
  Exps = {e1}
  Fingerprint <- SameInputs
  NoExp = NoExp
  ExperimentLimit = 1
  Profiles = 1
  MaxRestarts = 0
INVARIANT EndTogether
