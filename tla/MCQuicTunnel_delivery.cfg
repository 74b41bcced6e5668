SPECIFICATION FairSpecPeerReads
CONSTANTS
  s1 = s1
  Streams <- OneStream
  Role = "client"
  INBOUND_CHANNEL_CAP = 1
  EGRESS_CHANNEL_CAP = 1
  RECV_CHUNK = 1
  COPY_BUF = 2
  RecvWindow = 1
  MaxDown = 3
  MaxUp = 1
  Failures = {"local"}
PROPERTIES
  InboundIsDelivered
  OutboundIsDelivered
  BridgeIsReaped
CHECK_DEADLOCK FALSE
