SPECIFICATION DecoderSpec
CONSTANTS
  NumberOfComputors = 3
  LogTxPerTick = 3
  Base = 3
  Digits = 3
  FragmentLimit = 20
  ChecksumLimit = 50
  AllocLimit = 9
  K12 <- MCK12
  Initially <- MCInitially
  Feeds <- MCGarbledFeed
  Quorum = 2
  PruneInterval = 3
  KeepTicks = 2
  FireAndForget = TRUE
  Flaky = {"LOG"}
  PublishErrors = TRUE
  MaxRestarts = 1
INVARIANT SurvivesEveryPacket
CHECK_DEADLOCK FALSE
