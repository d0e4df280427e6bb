SPECIFICATION ToolLoopSpec
CONSTANTS
  Tables = {t1}
  Pages = {p1}
  Plan = {p1}
  MaxIter = 4
  MaxContinuations = 2
  MaxRetries = 2
  Slots = 1
  TokenBudget = 5
  PriorTokens = 2
  Costs = {1, 3}
  MaxAnswer = 3
  Window = 3
  Slack = 1
  AnchorFloor = 1
  MaxCalls = 2
  MaxTotalCalls = 3
  MaxFaults = 1
INVARIANTS ToolLoopTypeOK GroupsInOrder BudgetHolds
PROPERTIES MarksAreEarned LoopEnds
CHECK_DEADLOCK FALSE
