SPECIFICATION IndexerSpec
CONSTANTS
  a = a
  b = b
  c = c
  alice = alice
  bob = bob
  Streams <- MCStreams
  Payloads <- MCPayloads
  CatchUp = TRUE
  BatchSize = 2
  Behind <- MCBehind
  MaxDeliver = 3
  IOErrors = FALSE
  MaxLog = 3
  MaxRestarts = 2
  MaxLost = 0
  TickMsgs <- MCBoundary
  Txs <- MCTxs
  TickOf <- MCTickOf
  Source <- MCSource
  Destination <- MCDestination
  MaxValidEpoch <- MCMaxValidEpoch
  Backfill <- MCNoBackfill
  OrderedFeed = TRUE
INVARIANT ArchiveHoldsTicks
INVARIANT IndexedIsQueryable
INVARIANT TickTxComplete
INVARIANT TxIndexSound
PROPERTY RegressOnlyOnReplay
CHECK_DEADLOCK FALSE
