SPECIFICATION LimiterSpec
CONSTANTS
  Clients = {c1, c2, c3}
  Nobody = Nobody
  Calls = {q1, q2}
  Cost = 2
  MaxTokens = 1
  MaxBuckets = 2
  BucketTTL = 3
  MaxStall = 1
INVARIANTS
  LimiterTypeOK
  AdmittedAsConfigured
SYMMETRY MCSymmetry
