SPECIFICATION AppSpec
CONSTANTS
  e1 = e1 e2 = e2 e3 = e3 bad = bad
  Events <- AllRows
  Time <- Times
  Garbled <- BadRows
  Files <- BothFiles
  Ranges <- WholeAndPart
  Speeds = {1, 2}
  Advances = {1}
  MaxLoads = 2
  MaxCalls = 4
  Environments <- AllEnvironments
  Signalling <- OneSignal
INVARIANTS PlayedInOrderOnce SyncWhileRunning ClockShowsEvent
  TrailShowsNesting WiredThroughout
PROPERTIES ReplayEnds ShutdownEnds
CHECK_DEADLOCK FALSE
