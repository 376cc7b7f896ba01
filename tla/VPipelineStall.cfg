SPECIFICATION TimerSpec
CONSTANTS
  Configs <- MCOneWorker
  MaxWorkers = 3
  MaxTick = 6
  NodeTicks <- MCNodeTicks
  EpochStarts <- MCEpochStarts
  FallbackMin = 4
  FallbackSpan = 3
  Depth = 2
  MaxFailures = 2
  SkipInitial = 1
  SkipMax = 2
  Window = 2
  TxRange = 2
  MaxDrops = 1
  MaxMissed = 1
  MaxGarbled = 1
PROPERTY StalledReconnects
CHECK_DEADLOCK FALSE
