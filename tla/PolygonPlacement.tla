-------------------------- MODULE PolygonPlacement --------------------------
(***************************************************************************)
(* The geometry of a flood resolved at GDACS (ingestor/gdacs.go): whether  *)
(* its outline is the one EONET published, the point that stands for it on *)
(* the map, and whether it reaches a country.                              *)
(*                                                                         *)
(* A position is [x, y] with integers. A polygon is the sequence of its    *)
(* rings, the outline first, and every ring ends where it starts.          *)
(***************************************************************************)
EXTENDS Integers, Sequences, FiniteSets, FiniteSetsExt, SequencesExt

\* Coordinates are in units of half of gdacsCoordToleranceDeg.
Near(a, b) == a - b \in {-1, 0, 1}

\* collectPositions: the rings one after the other.
CollectPositions(rings) == FlattenSeq(rings)

\* positionsCorrespond: all vertices in the order published, or all transposed.
PositionsCorrespond(eonet, gdacs) ==
  /\ eonet # <<>> /\ Len(eonet) = Len(gdacs)
  /\ \/ \A i \in DOMAIN eonet : Near(eonet[i].x, gdacs[i].x) /\ Near(eonet[i].y, gdacs[i].y)
     \/ \A i \in DOMAIN eonet : Near(eonet[i].y, gdacs[i].x) /\ Near(eonet[i].x, gdacs[i].y)

\* positionsBBox.
BBox(p) ==
  LET xs == {p[i].x : i \in DOMAIN p}
      ys == {p[i].y : i \in DOMAIN p}
  IN [west |-> Min(xs), south |-> Min(ys), east |-> Max(xs), north |-> Max(ys)]

EnvelopesOverlap(a, b) ==
  /\ a.west <= b.east /\ b.west <= a.east
  /\ a.south <= b.north /\ b.south <= a.north

WithinBBox(box, q) == q.x \in box.west..box.east /\ q.y \in box.south..box.north

(***************************************************************************)
(* representativePoint. Its results are in units of 1/Scale, which makes   *)
(* them whole for edges at most six high.                                  *)
(***************************************************************************)
Scale == 4 * 60

\* Where the line at height middle / 2 meets the edge from each position to the
\* next, an endpoint on it counting as below, in units of 2 / Scale.
Crossings(p, middle) ==
  LET After(i) == p[IF i = Len(p) THEN 1 ELSE i + 1]
      Low(i) == IF p[i].y < After(i).y THEN p[i] ELSE After(i)
      High(i) == IF p[i].y < After(i).y THEN After(i) ELSE p[i]
  IN [i \in {i \in DOMAIN p : (2 * p[i].y <= middle) # (2 * After(i).y <= middle)} |->
        (Scale \div 2) * Low(i).x
          + ((middle - 2 * Low(i).y) * (High(i).x - Low(i).x) * (Scale \div 4))
              \div (High(i).y - Low(i).y)]

\* The crossings that sort.Float64s puts before i.
LeftOf(at, i) == {j \in DOMAIN at : at[j] < at[i] \/ (at[j] = at[i] /\ j < i)}

\* From the first to the second, from the third to the fourth, and so on.
Spans(at) ==
  {s \in (DOMAIN at) \X (DOMAIN at) :
     Cardinality(LeftOf(at, s[1])) % 2 = 0 /\ LeftOf(at, s[2]) = LeftOf(at, s[1]) \cup {s[1]}}

\* The first of the widest.
BestSpan(at) ==
  LET Width(s) == at[s[2]] - at[s[1]]
  IN CHOOSE s \in Spans(at) : \A t \in Spans(at) :
       Width(s) > Width(t) \/ (Width(s) = Width(t) /\ at[s[1]] <= at[t[1]])

\* For an outline the line does not cross. Elsewhere it may lie outside.
MiddleOfBox(p) ==
  [x |-> (BBox(p).west + BBox(p).east) * (Scale \div 2),
   y |-> (BBox(p).south + BBox(p).north) * (Scale \div 2)]

MiddleCrossings(p) == Crossings(p, BBox(p).south + BBox(p).north)

RepresentativePoint(p) ==
  LET at == MiddleCrossings(p)
      best == BestSpan(at)
  IN IF Spans(at) = {} THEN MiddleOfBox(p)
     ELSE [x |-> at[best[1]] + at[best[2]], y |-> MiddleOfBox(p).y]

(***************************************************************************)
(* Properties.                                                             *)
(***************************************************************************)
At(x, y) == [x |-> x, y |-> y]
Times(q, n) == At(n * q.x, n * q.y)
Transpose(q) == At(q.y, q.x)

\* The outline EONET publishes is recognised in either order of its axes, rounding
\* apart, and is not when only some of its positions are transposed. (Nine units
\* apart, two coordinates are not the same one rounded.)
RecognisedEitherWay(p) ==
  LET Mixed(s) == [i \in DOMAIN p |-> Times(IF i \in s THEN Transpose(p[i]) ELSE p[i], 9)]
      Rounded(r) == [i \in DOMAIN r |-> At(r[i].x + 1, r[i].y - 1)]
  IN \A s \in SUBSET DOMAIN p :
       PositionsCorrespond(Rounded(Mixed(s)), Mixed({})) <=> Mixed(s) \in {Mixed({}), Mixed(DOMAIN p)}

\* An event marked in a country is never dropped as outside it.
KeptWhereMarked(c, p) ==
  WithinBBox(c, RepresentativePoint(p))
    => EnvelopesOverlap(c, BBox([i \in DOMAIN p |-> Times(p[i], Scale)]))

\* Going from the west to the mark of a polygon that is not flat, one crosses its
\* edges an odd number of times, unless the mark is on one of them.
MarkedBetweenEdges(p) ==
  LET at == MiddleCrossings(p)
      mark == RepresentativePoint(p)
  IN BBox(p).south < BBox(p).north =>
       \/ \E i \in DOMAIN at : 2 * at[i] = mark.x
       \/ Cardinality({i \in DOMAIN at : 2 * at[i] < mark.x}) % 2 = 1
=============================================================================
