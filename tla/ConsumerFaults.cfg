SPECIFICATION FairSpec
CONSTANTS
  Streams <- MCStreams
  Payloads = {m}
  CatchUp = FALSE
  BatchSize = 1
  Behind <- MCBehind
  MaxDeliver = 2
  IOErrors = TRUE
  MaxLog = 3
  MaxRestarts = 2
  MaxLost = 1
INVARIANT TypeOK
INVARIANT AckedHandled
INVARIANT UnhandledDeliveriesAreFaults
PROPERTY EventuallyHandled
PROPERTY ImplementsDelivery
CHECK_DEADLOCK FALSE
