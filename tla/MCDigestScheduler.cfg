SPECIFICATION DigestSpec
CONSTANTS
  Floods = {f1, f2, f3}
  DayLength = 3
  Hour = 1
  MaxLimit = 2
  DefaultLimit = 1
  LastDay = 1
  MaxJumps = 1
  MaxWrites = 3
SYMMETRY MCSymmetry
INVARIANTS
  DigestTypeOK
  DailyCadence
  MailIsItsDay
