SPECIFICATION FairSpec
CONSTANTS
  MaxIter = 2
  MaxAttempts = 3
  MaxEmpty = 2
  MaxCalls = 2
INVARIANTS
  TypeOK
  CallsAnsweredInOrder
  EndsOnce
  ToolsRunOnce
  AnsweredOnce
PROPERTIES
  TurnEnds
CHECK_DEADLOCK FALSE
