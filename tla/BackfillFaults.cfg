SPECIFICATION FairSpec
CONSTANTS
  Configs <- MCConfigs
  MaxWorkers = 3
  MaxTick = 6
  NodeTicks <- MCNodeTicks
  EpochStarts <- MCEpochStarts
  FallbackMin = 4
  FallbackSpan = 3
  Depth = 2
  MaxFailures = 2
  SkipInitial = 1
  SkipMax = 2
  Window = 1
  TxRange = 2
  MaxDrops = 1
  MaxMissed = 1
  MaxGarbled = 1
INVARIANT TypeOK
INVARIANT OneOwner
INVARIANT NoTickLost
INVARIANT RepeatsArePaid
INVARIANT LossesArePaid
INVARIANT WorkIsFlagged
PROPERTY BackfillEnds
CHECK_DEADLOCK FALSE
