SPECIFICATION FairSpec
CONSTANTS
  Hellos <- AllHellos
  ech = TRUE
  reject_non_ech = TRUE
  PEEK_CAP = 110
  COPY_BUF = 2
  NetCap = 1
  MaxBytes <- Bytes
  Failures = {"local", "dial", "client"}
INVARIANTS
  TypeOK
  VerdictStands
  OnlySignalledAreServed
  DropsHaveCause
  CutOnlyByHalfClose
PROPERTIES
  TunnelIsPipe
  ClientIsServed
  NothingIsStuck
CHECK_DEADLOCK FALSE
