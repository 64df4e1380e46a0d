SPECIFICATION Spec
CONSTANTS
  MaxEvents = 7
  MaxStops = 2
  Closes = {1, 2, 3}
  FastWindow = 2
  SlowWindow = 3
  Trades = {2, 3, 5}
  Volumes = {1, 2}
  Window = 2
  EntryPct = 25
  ExitPct = 10
  Changes = 2
  Oversold = 30
  Overbought = 70
  Bars = 3
  Deviations = 1
INVARIANTS LastSignalShowsTrend WindowsExact SideFollowsSignals
CHECK_DEADLOCK FALSE
