\* Three requests of any kind on one order and two data values, one key of each
\* kind, up to four revisions after the first.
SPECIFICATION Spec
CONSTANTS
  Requests = {r1, r2, r3}
  Orders = {o1}
  Data = {a, b}
  InitialData = a
  ActivateKeys = {ak}
  RestoreKeys = {rk}
  Exps = {e1}
  NoKey = NoKey
  Unchecked = Unchecked
  MaxRevision = 4
SYMMETRY AnyRequest
INVARIANTS
  TypeOK
  HistoryKept
  ActiveIsCurrent
  FactsKept
  OncePerKey
PROPERTY ActsAtOnce
