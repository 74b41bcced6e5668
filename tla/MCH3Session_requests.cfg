SPECIFICATION FairSpec
CONSTANTS
  r1 = r1
  r2 = r2
  r3 = r3
  Requests <- TwoRequests
  OPEN_CHANNEL_CAP = 2
  EGRESS_CHANNEL_CAP = 2
  PeerCredit = 1
  Failures = {"setup", "handshake", "request", "stream", "close", "idle", "udp"}
INVARIANTS
  TypeOK
  ServedInOrder
  NoCrossTalk
PROPERTIES
  RefusedOnlyByFailure
  
CHECK_DEADLOCK FALSE
