SPECIFICATION Spec
CONSTANTS
  c1 = c1
  c2 = c2
  c3 = c3
  Clients = {c1, c2, c3}
  EchClients = {c1, c2}
  reject_non_ech = TRUE
  HelloParts = 1
  INBOUND_CHANNEL_CAP = 1
  EGRESS_CHANNEL_CAP = 1
  MaxConns = 2
  MaxUnread = 1
  NetCap = 1
  MaxFaults = 1
  Failures = {"config", "client", "idle"}
INVARIANTS
  OnlyEchIsTunnelled
  BridgesOfConns
  NoLostWakeup
CHECK_DEADLOCK FALSE
