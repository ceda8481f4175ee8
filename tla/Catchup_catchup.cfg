SPECIFICATION FairSpec
CONSTANTS
  p1 = p1
  p2 = p2
  p3 = p3
  p4 = p4
  Peers = {p1, p2, p3, p4}
  Down = {p4}
  Ahead = {p1}
  Restarted = {}
  StartModes = {"starting", "participating"}
  OwnSize = 1
  PoolSize = 5
  MaxSize = 6
  MaxReconnects = 1
  MaxOvertakes = 1
CHECK_DEADLOCK FALSE
INVARIANTS LedgerVerified
PROPERTIES CaughtUpToPool EventuallyCaughtUp
