SPECIFICATION FairSpec
CONSTANTS
  o1 = o1  o2 = o2  p1 = p1  returns = returns  None = None
  Order <- MCOrder
  Product = {p1}
  Policy = {returns}
  Revision = {1, 2}
  Sold <- MCSold
  MaxTokens = 7
  MaxToolCalls = 2
  TaskLimits <- MCLimits
  MaxCites = 1
  MaxTurns = 3
  MaxRepairs = 1
  CandidateLimit = 2
  ModelCosts = {1}
  JudgeCosts = {2}
  Call <- MCCall
  Operation <- MCOperation
  Change <- MCChange
  History <- MCHistory
INVARIANTS CardsMatchTasks NothingStale
PROPERTY OperationWithinBudget
PROPERTY OnlyRequestsTouchTasks
PROPERTY EvidenceCurrent
PROPERTY EveryTurnEnds
CHECK_DEADLOCK FALSE
