SPECIFICATION FairSpec
CONSTANTS
  MaxAttempts = 2
  MaxDrops = 3
  MaxConnects = 2
INVARIANTS OneReconnectLoop NoPhantomConnection
PROPERTIES RepairedOrGivenUp
CHECK_DEADLOCK FALSE
