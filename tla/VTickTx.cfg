SPECIFICATION IndexerSpec
CONSTANTS
  a = a
  b = b
  c = c
  alice = alice
  bob = bob
  Streams <- MCStreams
  Payloads <- MCPayloads
  CatchUp = TRUE
  BatchSize = 2
  Behind <- MCBehind
  MaxDeliver = 2
  IOErrors = FALSE
  MaxLog = 3
  MaxRestarts = 0
  MaxLost = 0
  TickMsgs <- MCOneTick
  Txs <- MCTxs
  TickOf <- MCTickOf
  Source <- MCSource
  Destination <- MCDestination
  MaxValidEpoch <- MCMaxValidEpoch
  Backfill <- MCNoBackfill
  OrderedFeed = FALSE
INVARIANT TickTxComplete
CHECK_DEADLOCK FALSE
