SPECIFICATION KeeperSpec
CONSTANTS
  Operators = {alice, bob}
  Visitors = {visitor}
  MaxTimers = 3
  MaxCalls = 1
  bob = bob
  Monitored <- MCMonitored
  Scores = {60}
  Threshold = 5
  MaxMeasured = 2
  Nobody = nobody
INVARIANTS
  ResumedKeeperIsScheduled
PROPERTIES
  EveryCallReturns
  PausedKeeperWindsDown
  NewerIsNotReplaced
  ChainsDoNotMultiply
