SPECIFICATION FairSpec
CONSTANTS
  Params <- MCParams
  Mods <- MCMods
  ParamsOf <- MCParamsOf
  Numel <- MCNumel
  Outputs <- MCOutputs
  NoGradIn <- MCNoGradIn
  Schedules <- MCSchedules
  NBlocks = 6
  PoolSize = 4
  MaxFetchEvents = 1
  PrefetchBucket = 2
  MaxLive = 3
  MaxReuse = 0
  MinFree = 3
INVARIANT TypeOK
INVARIANT KernelDataCorrect
INVARIANT FlagNotOvertaken
INVARIANT RegistrySound
INVARIANT ActiveAvailable
INVARIANT FaultOnlyIfModelChanged
INVARIANT LiveAccounted
PROPERTY UpdateWhenIdle
PROPERTY ImplementsLifecycle
PROPERTY TrainingEnds
CHECK_DEADLOCK FALSE
