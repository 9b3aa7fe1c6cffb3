SPECIFICATION Spec
CONSTANTS
  Events = {"e1", "e2", "e3"}
  Urls = {"u"}
  NoUrl = "no url"
  Rings = {"a", "b", "c"}
  Url <- MCUrl
  Vertices <- MCSharedVertices
  Match <- MCMatch
  Wanted <- MCWanted
  Publications <- MCPublications
  MaxRequests = 4
  MaxEpisodes = 2
INVARIANT
  PlacedRight
CHECK_DEADLOCK FALSE
