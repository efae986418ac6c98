SPECIFICATION Spec
CONSTANTS
  N = 2
  Pieces = 1
  Settings <- MCSettings
  Uniform = TRUE
  MaxCollectives = 1
  MaxFailures = 1
INVARIANT ReturnMeansData
CHECK_DEADLOCK FALSE
