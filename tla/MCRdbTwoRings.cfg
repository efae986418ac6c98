SPECIFICATION Spec
CONSTANTS
  N = 2
  Rings = {0, 1}
  MaxCalls = 1
INVARIANT RingBarrierSafe
CHECK_DEADLOCK FALSE
