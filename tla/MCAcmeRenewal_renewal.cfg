SPECIFICATION FairSpec
CONSTANTS
  d1 = d1
  d2 = d2
  Domains <- TwoDomains
  FaultKinds = {"acme", "disk", "ech", "crash"}
  MaxFaults = 3
  MaxDue = 2
INVARIANTS
  TypeOK
  ValidatorFindsChallenge
  NoChallengeAfterIssue
  ListenersAgree
  GenerationNamesPair
  

  
CHECK_DEADLOCK FALSE
