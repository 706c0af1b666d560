\* Two keys of one request on two threads, three calls, analyses there before or
\* not, failed ones retried by others so that another becomes the newest, one
\* death.
SPECIFICATION CompareSpec
CONSTANTS
  k1 = k1
  k2 = k2
  Before = before
  After = after
  Keys = {k1, k2}
  Threads = {c1, c2}
  Others = Others
  Made <- Earlier
  MaxAsked = 3
  MaxAnalyses = 3
  MaxServiceRestarts = 1
SYMMETRY Interchangeable
INVARIANTS
  ComparisonsConsistent
  OneAnswerPerKey
PROPERTY CompletedStays
CONSTRAINT ThirdOfOnePlan
CHECK_DEADLOCK FALSE
