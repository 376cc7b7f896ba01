SPECIFICATION IndexerSpec
CONSTANTS
  a = a
  b = b
  c = c
  alice = alice
  bob = bob
  Streams <- MCStreams
  Payloads <- MCPayloads
  CatchUp = FALSE
  BatchSize = 2
  Behind <- MCBehind
  MaxDeliver = 2
  IOErrors = TRUE
  MaxLog = 2
  MaxRestarts = 1
  MaxLost = 1
  TickMsgs <- MCFaultTicks
  Txs <- MCNoTxs
  TickOf <- MCTickOfNone
  Source <- MCSource
  Destination <- MCDestination
  MaxValidEpoch <- MCMaxValidEpoch
  Backfill <- MCBackfillTick
  OrderedFeed = FALSE
INVARIANT IndexerTypeOK
INVARIANT AckedIsStored
INVARIANT StatsCoverStore
INVARIANT MetaIsStored
INVARIANT IndexedEpochStored
PROPERTY ImplementsConsumer
CHECK_DEADLOCK FALSE
