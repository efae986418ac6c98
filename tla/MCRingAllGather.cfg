SPECIFICATION FairSpec
CONSTANTS
  N = 3
  Pieces = 2
  Settings <- MCSettings
  Uniform = TRUE
  MaxCollectives = 2
  MaxFailures = 1
INVARIANT TypeOK
INVARIANT AllGatherCorrect
INVARIANT FifoMatch
PROPERTY AllGatherReturns
CHECK_DEADLOCK FALSE
