CONSTANTS
  Kinds = {"agcpu", "rs"}
  InflightCap = 2
  MaxJobs = 2
  MaxHostFaults = 1
  RingModes = {FALSE, TRUE}
  MsgCap = 3
  MaxDpuFaults = 0
SPECIFICATION FairSpec
PROPERTY JobsComplete JobsExecuted ShutdownReturns
CHECK_DEADLOCK FALSE
