SPECIFICATION Spec
CONSTANTS
  MaxGeometries = 3
  MaxSources = 2
  MaxCommits = 3
  Dates = {0, 1}
  MaxHoles = 1
INVARIANTS
  PolygonsPlausible
  PlacedInside
  LocationDisclosed
  AnswerIsTheQuerys
  BypassIsCurrent
PROPERTIES
  RevisionsForward
CHECK_DEADLOCK FALSE
