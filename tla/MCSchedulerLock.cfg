SPECIFICATION FairSpec
CONSTANTS
  r1 = r1
  r2 = r2
  Replicas = {r1, r2}
  Holders = {h1, h2, h3}
  Nobody = Nobody
  TTL = 3
  Interval = 2
  Skew <- MCSkew
  MaxFaults = 2
INVARIANTS
  TypeOK
  LeaseCoversIngestion
PROPERTIES
  OneIngester
  LeaseNotStolen
  IngestionContinues
