SPECIFICATION Spec
CONSTANTS
  Goals <- MCGoals
  Orders <- MCOrders
  CancelAfters <- MCCancelAfters
  Servers = {"cpp", "py"}
  Clients = {"cpp", "py"}
  PoolThreads = 2
  MaxTerms = 4
INVARIANTS
  TypeOK
  OutcomeIsRight
PROPERTIES
  ClientEnds
CHECK_DEADLOCK FALSE
