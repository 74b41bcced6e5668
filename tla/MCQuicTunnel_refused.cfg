SPECIFICATION Spec
CONSTANTS
  s1 = s1
  Streams <- OneStream
  Role = "client"
  INBOUND_CHANNEL_CAP = 1
  EGRESS_CHANNEL_CAP = 1
  RECV_CHUNK = 1
  COPY_BUF = 1
  RecvWindow = 1
  MaxDown = 0
  MaxUp = 1
  Failures = {"refusal"}
INVARIANTS
  RefusedIsTerminated
CHECK_DEADLOCK FALSE
