SPECIFICATION Spec
CONSTANTS
  buy = buy sell = sell again = again None = None
  Intents <- PairIntents
  Symbol <- PairSymbol
  Side <- PairSide
  Size <- PairSize
  SyncModes <- Asynchronous
  MayOverflow = TRUE
  MayReject = TRUE
  Answered <- FirstOrder
  MaxRetries = 2
  Throttling = TRUE
  MaxStops = 1
INVARIANTS RetriesAvoidDuplicates OrdersTracked
PROPERTIES OneRetryUntilReported
CHECK_DEADLOCK FALSE
