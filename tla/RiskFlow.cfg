SPECIFICATION FlowSpec
CONSTANTS
  AAPL = AAPL SPY = SPY buy = buy sell = sell other = other
  Symbols = {AAPL, SPY}
  Prices <- TwoPrices
  Quantities = {1}
  Sides = {"BUY", "SELL"}
  InitialCapital <- Capital
  MayOverflow = FALSE
  RowsMayFail = FALSE
  MaxFills = 3
  MaxStops = 0
  Signals <- MCSignals
  Symbol <- MCSymbol
  Side <- MCSide
  Size <- MCSize
  MaxPositionSize = 1
  MaxDailyLoss <- LossLimit
  MaxLeverage = 2
  MaxConcurrent = 1
  MaxRetries = 1
  TickPrices <- OneTickPrice
  MaxQueue = 2
  MaxOrders = 3
  MaxEvents = 1
INVARIANTS ConcurrentWithinLimit HaltLetsOnlyQueuedThrough
 
CHECK_DEADLOCK FALSE
