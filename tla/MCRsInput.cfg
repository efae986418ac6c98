SPECIFICATION Spec
CONSTANTS
  Params = {1, 2, 3, 4, 5}
  Numel <- MCNumel
  World = 3
  Rank = 2
  SubGroupSize = 3
  BucketSize = 8
  MaxReduceEvents = 1
  DpuThreshold = 0
  StepsPerEpoch = 1
  MaxIters = 4
  Orders <- MCOrders
  EarlyIters <- MCEarly
PROPERTY RsReadsGradients
CHECK_DEADLOCK FALSE
