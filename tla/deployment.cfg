SPECIFICATION FairSpec
CONSTANTS
  Service = {0, 1}
  num_copy_server = 2
  HEARTBEAT_LIVENESS = 2
  Failing <- BrokerAndCopy
INVARIANT HCTypeOK
INVARIANT Alternation
INVARIANT OwnPong
PROPERTY KilledOnlyIfPingLost
PROPERTY Replaced
