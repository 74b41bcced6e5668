SPECIFICATION Spec
CONSTANTS
  s1 = s1
  Streams <- OneStream
  Role = "server"
  INBOUND_CHANNEL_CAP = 1
  EGRESS_CHANNEL_CAP = 1
  RECV_CHUNK = 2
  COPY_BUF = 2
  RecvWindow = 2
  MaxDown = 3
  MaxUp = 1
  Failures = {"refusal", "reset", "stop", "close", "local"}
INVARIANTS
  TypeOK
  InboundInOrder
  
  NoLostWakeup
PROPERTIES
  InboundIsPipe
CHECK_DEADLOCK FALSE
