SPECIFICATION Spec
CONSTANTS
  Users = {u1}
  Handlers = {h1}
  MaxContext = 2
  Faults = FALSE
  MaxConv = 1
  MaxTurn = 4
PROPERTIES
  EarlyMessagesSummarised
CHECK_DEADLOCK FALSE
