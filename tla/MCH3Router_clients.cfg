SPECIFICATION FairSpec
CONSTANTS
  c1 = c1
  c2 = c2
  c3 = c3
  Clients = {c1}
  EchClients = {}
  reject_non_ech = FALSE
  HelloParts = 2
  INBOUND_CHANNEL_CAP = 1
  EGRESS_CHANNEL_CAP = 1
  MaxConns = 2
  MaxUnread = 0
  NetCap = 4
  MaxFaults = 1
  Failures = {"client"}
PROPERTIES
  TunnelOpens
  NothingStays
CHECK_DEADLOCK FALSE
