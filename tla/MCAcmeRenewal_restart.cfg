SPECIFICATION Spec
CONSTANTS
  d1 = d1
  d2 = d2
  Domains <- OneDomain
  FaultKinds = {"crash"}
  MaxFaults = 1
  MaxDue = 1
INVARIANTS
  RestartServes
CHECK_DEADLOCK FALSE
