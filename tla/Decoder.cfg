SPECIFICATION DecoderSpec
CONSTANTS
  NumberOfComputors = 3
  LogTxPerTick = 3
  Base = 3
  Digits = 3
  FragmentLimit = 20
  ChecksumLimit = 50
  AllocLimit = 9
  K12 <- MCK12
  Initially <- MCInitially
  Feeds <- MCFeeds
  Quorum = 2
  PruneInterval = 3
  KeepTicks = 2
  FireAndForget = TRUE
  Flaky = {"LOG"}
  PublishErrors = TRUE
  MaxRestarts = 1
INVARIANT QuorumBacked
INVARIANT OneQuorumWhileRemembered
INVARIANT QuorumAnnounced
INVARIANT PublishesExpected
INVARIANT PanicsOnlyUnchecked
PROPERTY RecentVotesKept
INVARIANT StreamsEnsured
CHECK_DEADLOCK FALSE
