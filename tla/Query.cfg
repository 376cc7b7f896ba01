SPECIFICATION QuerySpec
CONSTANTS
  alice = alice
  bob = bob
  carol = carol
  x = x
  y = y
  z = z
  NoEntity = NoEntity
  Streams <- MCStreams
  Payloads = {}
  CatchUp = TRUE
  MaxValidEpoch = 8
  IOErrors = TRUE
  MaxAgain = 1
  MaxRestarts = 1
  ScanLimit = 2
  ListLimit = 2
  RecentLimit = 2
  MaxPage = 2
  Scenarios <- MCScenarios
INVARIANT SettledIsReadable
INVARIANT PagesSkipNothing
INVARIANT AnswersCohere
PROPERTY CustomMessagesKept
CHECK_DEADLOCK FALSE
