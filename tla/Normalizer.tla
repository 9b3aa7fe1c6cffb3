----------------------------- MODULE Normalizer -----------------------------
(***************************************************************************)
(* normalizer.Normalize: what VigilAfrica makes of one EONET event.        *)
(*                                                                         *)
(* A date is a natural number, or Undated when it is missing or malformed. *)
(* Coordinates are JSON trees of numbers, other values and arrays. A       *)
(* source is [url, allowed, gdacs]: its URL, whether it is an https URL    *)
(* of an allowed host, whether that host is gdacs.org or below it.         *)
(***************************************************************************)
EXTENDS Integers, Sequences, FiniteSets

Undated == -1
NoURL == 0
Nothing == [kind |-> "nothing"]

Number(v) == [kind |-> "number", value |-> v]
Other == [kind |-> "other"]
Array(items) == [kind |-> "array", items |-> items]

\* Faulty variant: the last geometry, whatever its date.
SelectedLast(geometries) == geometries[Len(geometries)]

\* selectMostRecentGeometry: the last geometry, unless an earlier one is dated
\* later, or dated when it is not; then the first of the latest of those.
Selected(geometries) ==
  LET n == Len(geometries)
      later == {i \in 1..n - 1 : geometries[i].date > geometries[n].date}
      Latest(i) == \A j \in later :
        geometries[i].date >= geometries[j].date
          /\ (geometries[i].date = geometries[j].date => i <= j)
  IN IF later = {} THEN geometries[n] ELSE geometries[CHOOSE i \in later : Latest(i)]

ValidLonLat(lon, lat) == lon \in -180..180 /\ lat \in -90..90

\* A flat array of at least two numbers, the first two within bounds.
IsPosition(items) ==
  /\ Len(items) >= 2 /\ \A i \in DOMAIN items : items[i].kind = "number"
  /\ ValidLonLat(items[1].value, items[2].value)

maxCoordinateNesting == 8

\* walkCoordinates, of one array: it is a position, or holds no number in front.
WellFormed(tree) ==
  /\ tree.kind = "array" /\ tree.items # <<>>
  /\ tree.items[1].kind = "number" => IsPosition(tree.items)

\* Faulty variant: the opening vertex speaks for the polygon.
WalksIntoFirst(tree) ==
  IF tree.kind = "array" /\ tree.items # <<>> /\ tree.items[1].kind # "number"
  THEN {tree.items[1]} ELSE {}

\* The items it walks into: all of an array that does not begin with a number.
WalksInto(tree) ==
  IF tree.kind = "array" /\ tree.items # <<>> /\ tree.items[1].kind # "number"
  THEN {tree.items[i] : i \in DOMAIN tree.items} ELSE {}

\* The trees it meets at each depth.
Met(tree) ==
  LET met[depth \in 0..maxCoordinateNesting + 1] ==
        IF depth = 0 THEN {tree} ELSE UNION {WalksInto(t) : t \in met[depth - 1]}
  IN met

\* A well formed tree holds a position, so the count of positions adds nothing.
PolygonCoordinatesPlausible(tree) ==
  /\ \A depth \in 0..maxCoordinateNesting : \A t \in Met(tree)[depth] : WellFormed(t)
  /\ Met(tree)[maxCoordinateNesting + 1] = {}

\* The GDACS source wherever it stands, or else the first that is allowed.
SourceURL(sources) ==
  LET allowed == {i \in DOMAIN sources : sources[i].allowed}
      gdacs == {i \in allowed : sources[i].gdacs}
      First(s) == CHOOSE i \in s : \A j \in s : i <= j
  IN IF allowed = {} THEN NoURL
     ELSE sources[First(IF gdacs = {} THEN allowed ELSE gdacs)].url

\* What is stored of a geometry: an empty geometry is stored without a place.
GeoJSON(g) ==
  CASE g.type = "Point" ->
         IF Len(g.coordinates.items) = 2 /\ IsPosition(g.coordinates.items)
         THEN g.coordinates ELSE Nothing
    [] g.type = "Polygon" ->
         IF PolygonCoordinatesPlausible(g.coordinates) THEN g.coordinates ELSE Nothing
    [] OTHER -> Nothing

\* A MultiPolygon is refused by name.
Normalize(raw) ==
  LET located == raw.geometries # <<>>
      g == Selected(raw.geometries)
  IN [refused  |-> located /\ g.type = "MultiPolygon",
      category |-> IF "wildfires" \in raw.categories THEN "wildfires" ELSE "floods",
      status   |-> IF raw.closed THEN "closed" ELSE "open",
      source   |-> SourceURL(raw.sources),
      date     |-> IF located THEN g.date ELSE Undated,
      geometry |-> IF located THEN GeoJSON(g) ELSE Nothing]

(***************************************************************************)
(* Properties.                                                             *)
(***************************************************************************)

\* What EONET appends to an event never takes it back in time: its date never
\* decreases, a geometry older than the one in use (or undated) does not replace
\* it unless two geometries share the newest date, and the GDACS source, once
\* there, stays the one that geometry is resolved from.
IsForward(raw, grown) ==
  LET old == Normalize(raw)
      new == Normalize(grown)
      dates == {i \in DOMAIN raw.geometries : raw.geometries[i].date = old.date}
  IN /\ new.date >= old.date
     /\ Cardinality(dates) = 1 /\ old.date # Undated /\ new.date = old.date
          /\ grown.geometries[Len(grown.geometries)].date < old.date
        => new.geometry = old.geometry /\ new.refused = old.refused
     /\ \A i \in DOMAIN raw.sources :
          old.source = raw.sources[i].url /\ raw.sources[i].gdacs => new.source = old.source

\* The trees in an array that holds nothing else.
Inside(tree) ==
  IF tree.kind = "array" /\ \A i \in DOMAIN tree.items : tree.items[i].kind = "array"
  THEN {tree.items[i] : i \in DOMAIN tree.items} ELSE {}

Levels(tree) ==
  LET level[depth \in 0..maxCoordinateNesting + 1] ==
        IF depth = 0 THEN {tree} ELSE UNION {Inside(t) : t \in level[depth - 1]}
  IN level

Subtrees(tree) == UNION {Levels(tree)[depth] : depth \in 0..maxCoordinateNesting + 1}

IsRing(tree) ==
  /\ tree.kind = "array" /\ tree.items # <<>>
  /\ \A i \in DOMAIN tree.items : tree.items[i].kind = "array" /\ IsPosition(tree.items[i].items)

\* The guard on polygons never rejects the coordinates of a polygon, and a tree it
\* lets through is made of positions that lie on the globe: no vertex is taken on
\* the strength of another, whatever else the tree holds.
EachVertexCounts(tree) ==
  /\ tree.items # <<>> /\ (\A i \in DOMAIN tree.items : IsRing(tree.items[i]))
       => PolygonCoordinatesPlausible(tree)
  /\ PolygonCoordinatesPlausible(tree) =>
       \A t \in Subtrees(tree) :
         /\ t.kind = "array" /\ t.items # <<>>
         /\ (\E i \in DOMAIN t.items : t.items[i].kind # "array") => IsPosition(t.items)
=============================================================================
