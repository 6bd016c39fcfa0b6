SPECIFICATION Spec
CONSTANTS
  Users = {u1, u2}
  Handlers = {h1, h2}
  MaxContext = 2
  Faults = TRUE
  MaxConv = 2
  MaxTurn = 3
SYMMETRY Symmetric
INVARIANTS
  TypeOK
  QuestionBeforeAnswer
  CompleteTurnsStored
  ContextFollowsOn
  MessagesKeepTheirConversation
CHECK_DEADLOCK FALSE
