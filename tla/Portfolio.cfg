\* A position in AAPL, fills and ticks at two prices. Money is in multiples of
\* 360, which makes all divisions exact; the capital is small, so that the
\* equity falls by large parts of itself and a quarter of it pays for none or a
\* few shares.
SPECIFICATION BacktestSpec
CONSTANTS
  Symbols = {AAPL}
  Prices = {360, 1080}
  Quantities = {1, 2}
  Sides = {"BUY", "SELL"}
  InitialCapital = 4320
  MayOverflow = TRUE
  RowsMayFail = TRUE
  MaxFills = 3
  MaxStops = 1
  MaxPoints = 2
  Percent = 25
  Methods = {"fixed", "percent_equity", "volatility"}
  Suggested = {5}
INVARIANTS EquityLedger RowsUnlessUnsaved OpenedClosedMatch ReportFollowsLedger
  SizedWithinShare
CHECK_DEADLOCK FALSE
