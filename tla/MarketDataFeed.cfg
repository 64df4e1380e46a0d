SPECIFICATION FeedSpec
CONSTANTS
  None = None
  Symbols = {AAPL, SPY}
  Prices = {0, 1, 2}
  Steps = {1}
  BarSizes = {3}
  DefaultBarSize = 2
  Rates = {2, 3}
  HardLimit = 4
  MaxUpdates = 3
  MaxChanges = 4
SYMMETRY Alike
INVARIANTS EveryTickOnceInOrder BarsSummarizeTicks
CHECK_DEADLOCK FALSE
