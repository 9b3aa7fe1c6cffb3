SPECIFICATION FairSpec
CONSTANTS
  Replicas = {r1, r2}
  MaxRefs = 2
  MaxFaults = 3
INVARIANTS
  TypeOK
  OneAlertPerReference
  ClaimIsExclusive
PROPERTY
  StalenessReported
CHECK_DEADLOCK FALSE
