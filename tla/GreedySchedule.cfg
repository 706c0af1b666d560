\* Every order of deadlines, windows, locks and matrices of MCSchedules.
SPECIFICATION GreedySpec
CONSTANTS
  Orders <- MCOrders
  Techs <- MCTechs
  Points <- MCPoints
  Scenarios <- MCScenarios
  None = 0
INVARIANT LeftOutForEarlier
PROPERTY KeepsContract
CHECK_DEADLOCK FALSE
