SPECIFICATION Spec
CONSTANTS
  market = market buyLimit = buyLimit sellLimit = sellLimit None = None
  Intents <- MixedIntents
  Symbol <- MixedSymbol
  Side <- MixedSide
  Size <- MixedSize
  OrderType <- MixedTypes
  Limit <- MixedLimit
  SyncModes <- BothModes
  MayOverflow = TRUE
  MaxRetries = 0
  Throttling = FALSE
  MaxStops = 1
  Direct <- LimitOrders
  Prices <- TwoPrices
  MaxQueued = 1
  MaxRestart = 1
INVARIANTS NothingDueWaits
PROPERTIES OrdersRunTheirCourse
CHECK_DEADLOCK FALSE
