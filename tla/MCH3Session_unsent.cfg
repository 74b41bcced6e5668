SPECIFICATION Spec
CONSTANTS
  r1 = r1
  r2 = r2
  r3 = r3
  Requests <- TwoRequests
  OPEN_CHANNEL_CAP = 1
  EGRESS_CHANNEL_CAP = 1
  PeerCredit = 1
  Failures = {"idle"}
INVARIANTS
  ConnectIsSent
CHECK_DEADLOCK FALSE
