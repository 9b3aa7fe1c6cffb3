SPECIFICATION Spec
CONSTANTS
  MaxGeometries = 0
  MaxSources = 0
  MaxCommits = 0
  Dates = {}
  MaxHoles = 2
INVARIANT
  PlacedInside
CHECK_DEADLOCK FALSE
