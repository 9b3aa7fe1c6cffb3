SPECIFICATION PagesSpec
CONSTANTS
  Keys = {0, 1}
  Requests = {w, u}
  Walker = w
  TTL = 1
  MaxEntries = 1
  MaxCompute = 1
  Events = {1, 2}
  Dates = {0, 1}
  PageSize = 1
  MaxWrites = 1
INVARIANTS
  PagesTypeOK
  ServedFresh
  ListMatchesMap
  WalkBound
