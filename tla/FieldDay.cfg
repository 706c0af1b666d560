\* Two technicians, three small days: services begin early, late and overrun,
\* and replans are asked for, solved and published meanwhile.
SPECIFICATION DaySpec
CONSTANTS
  Orders <- MCOrders
  Techs <- MCTechs
  Points <- MCPoints
  Scenarios <- MCScenarios
  None = 0
  NoPlan = NoPlan
  NoAsk = NoAsk
  Horizon = 4
  Estimates = {0, 1}
  Overrun = 1
  Patience = 0
  Times = {2}
INVARIANTS
  BookingKept
  WorkIsReachable
  SolvedStands
PROPERTY PlanFollowsWork
CHECK_DEADLOCK FALSE
