SPECIFICATION MonitoringSpec
CONSTANTS
  Types = {"broker_disconnected"}
  Cooldown = 3
  HeartbeatTimeout = 2
  CheckEvery = 1
  StartTime = 1
  MaxTime = 10
  MaxStops = 1
  SampleInterval = 1
  SampleLimit = 3
  SampleKeep = 2
  RateWindow = 2
  MaxStarts = 2
  MaxEvents = 2
  MetricsTime = 5
INVARIANTS OneAlertPerCooldown EachMissReportedOnce SnapshotTrue
CHECK_DEADLOCK FALSE
