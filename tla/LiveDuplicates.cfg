SPECIFICATION Spec
CONSTANTS
  buy = buy sell = sell again = again None = None
  Intents <- SameIntents
  Symbol <- SameSymbol
  Side <- SameSide
  Size <- SameSize
  SyncModes <- Asynchronous
  MayOverflow = FALSE
  MayReject = TRUE
  Answered <- EveryOrder
  MaxRetries = 2
  Throttling = TRUE
  MaxStops = 0
INVARIANTS RetriesAvoidDuplicates
CHECK_DEADLOCK FALSE
