SPECIFICATION FairSpec
CONSTANTS
  N = 3
  MaxCollectives = 2
  MaxFailures = 1
INVARIANT TypeOK
INVARIANT ReduceScatterCorrect
INVARIANT FifoMatch
INVARIANT NoDmaRace
PROPERTY ReduceScatterReturns
CHECK_DEADLOCK FALSE
