SPECIFICATION Spec
CONSTANTS
  MS = 6
  NS = 1
  HEARTBEAT_INTERVAL = 12
  WCDPING = 3
  BUSY = 3
  POLL = 0
  DELAY = 1
  LIVENESS = 2
  Clients = 2
  Start <- HalfPast
  MaxTime = 58
INVARIANT BrokerHeard
INVARIANT PongsHeard
INVARIANT DetectedInTime
INVARIANT GivesUpInTime
INVARIANT DeadlinesRight
CHECK_DEADLOCK FALSE
