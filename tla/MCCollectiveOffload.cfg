CONSTANTS
  Kinds = {"ag", "agcpu"}
  InflightCap = 1
  MaxJobs = 3
  MaxHostFaults = 1
  RingModes = {FALSE}
  MsgCap = 3
  MaxDpuFaults = 1
SPECIFICATION Spec
INVARIANT TypeOK RefCounted CompletedMeansDone NeverDropped
CHECK_DEADLOCK FALSE
