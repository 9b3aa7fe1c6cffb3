SPECIFICATION Spec
CONSTANTS
  Countries = {NG, GH}
  MaxRuns = 3
  MaxFaults = 2
INVARIANTS
  TypeOK
  AlertTimesAreDeliveries
  NoSilentStreak
  AlertedOncePerStreak
  NilErrorMeansRecorded
PROPERTY
  FailureStaysVisible
CHECK_DEADLOCK FALSE
SYMMETRY MCSymmetry
