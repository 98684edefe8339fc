SPECIFICATION FairSpec

CONSTANTS
  MaxRequests = 2
  PingNonce = {1, 2}
  MaxServing = 1
  MaxTraffic = 2
  Threshold = 2

PROPERTIES
  AnsweringPeerIsKept
  LifetimeIsExact
  RequestsSettle
  SilentPeerIsDropped

CHECK_DEADLOCK FALSE
