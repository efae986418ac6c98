SPECIFICATION FairSpec
CONSTANTS
  Params = {1, 2, 3, 4, 5}
  Numel <- MCNumel
  World = 3
  Rank = 2
  SubGroupSize = 3
  BucketSize = 8
  MaxReduceEvents = 1
  DpuThreshold = 0
  StepsPerEpoch = 1
  MaxIters = 4
  Orders <- MCOrders
  EarlyIters <- MCEarlyOnce
INVARIANT TypeOK
INVARIANT LayoutRoundTrip
INVARIANT GradientsExact
INVARIANT DelayedByOne
PROPERTY ImplementsDelayedUpdate
PROPERTY TrainingEnds
CHECK_DEADLOCK FALSE
