SPECIFICATION PoolFairSpec
CONSTANTS
  T = 4
  MaxTasks = 3
INVARIANT TaskStable
INVARIANT SumExact
PROPERTY TaskCompletes
PROPERTY DestroyReturns
CHECK_DEADLOCK FALSE
