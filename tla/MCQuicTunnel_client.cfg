SPECIFICATION Spec
CONSTANTS
  s1 = s1
  Streams <- OneStream
  Role = "client"
  INBOUND_CHANNEL_CAP = 1
  EGRESS_CHANNEL_CAP = 1
  RECV_CHUNK = 1
  COPY_BUF = 2
  RecvWindow = 1
  MaxDown = 4
  MaxUp = 2
  Failures = {"refusal", "reset", "stop", "close", "local"}
INVARIANTS
  
  OutboundInOrder
  ResetOnlyAfterFailure
PROPERTIES
  OutboundIsPipe
CHECK_DEADLOCK FALSE
