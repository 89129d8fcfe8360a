SPECIFICATION FairSpec
CONSTANTS
  Data <- MCData
  Payload <- MCPayload
  Capacity = 1
INVARIANTS
  TypeOK
  UpstreamIntact
  DownstreamIntact
PROPERTIES
  ResponseComplete
  StopEndsRelay
  RemoteEndEndsRelay
CHECK_DEADLOCK FALSE
