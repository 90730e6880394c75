CONSTANTS
  r1 = r1
  r2 = r2
  Requests = {r1, r2}
  Bodies <- MCBodies
  Limits = {0, 1, 2}
  MaxInflightRequests = 0
  PoolMax = 3
  MaxBatchSize = 2
  MaxProductsPerRequest = 3
  MaxProductQueriesPerRequest = 2
  MaxProductLimit = 2
  MaxQueryDepth = 3
  Queries <- MCQueries
  Refused <- MCRefused
SPECIFICATION FairSpec
INVARIANTS BudgetRespected NothingLost RepliesAreComplete ConnsWithinSlots RefusalIsExact
PROPERTIES OneExecutorPerRequest EveryRequestEnds ConnsComeBack
\* Every request ends and none follows.
CHECK_DEADLOCK FALSE
