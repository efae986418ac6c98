SPECIFICATION FairSpec
CONSTANTS
  N = 4
  MaxBarriers = 3
  MaxLost = 2
INVARIANT BarrierSafe
PROPERTY SlotMonotone
PROPERTY BarrierRefinement
PROPERTY BarrierCompletes
CHECK_DEADLOCK FALSE
