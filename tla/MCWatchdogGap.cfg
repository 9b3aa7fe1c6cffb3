SPECIFICATION FairSpec
CONSTANTS
  Replicas = {r1, r2}
  MaxRefs = 2
  MaxFaults = 2
PROPERTY
  OnlyCrashesSilence
CHECK_DEADLOCK FALSE
