---------------------------- MODULE MCPureParts ----------------------------
(***************************************************************************)
(* The parts of the system that compute an answer from their inputs,       *)
(* checked over bounded inputs: one input for each kind of question, and   *)
(* histories of one event and of one branch that grow step by step.        *)
(***************************************************************************)
EXTENDS Normalizer, PolygonPlacement, SentinelAudit, VisitorContext, EventsQuery

CONSTANTS
  MaxGeometries,  \* bound: geometries of an event
  MaxSources,     \* bound: sources of an event
  MaxCommits,     \* bound: commits on a branch
  Dates,          \* dates of geometries
  MaxHoles        \* bound: holes of a polygon

ASSUME PureAssumption ==
  /\ MaxGeometries \in Nat /\ MaxSources \in Nat /\ MaxCommits \in Nat
  /\ Dates \subseteq Nat /\ MaxHoles \in Nat

VARIABLES
  part,    \* which question
  input    \* its input

vars == <<part, input>>

(***************************************************************************)
(* An event as EONET publishes it: geometries and sources are appended,    *)
(* and it is closed.                                                       *)
(***************************************************************************)
Position(lon, lat) == Array(<<Number(lon), Number(lat)>>)

\* Numbered by where it stands in the history, so that two are never equal.
Geometry(i, type, date) ==
  [type |-> type, date |-> date, coordinates |->
     IF type = "Point" THEN Position(i, 0) ELSE Array(<<Array(<<Position(i, 0)>>)>>)]

Source(i, allowed, gdacs) == [url |-> i, allowed |-> allowed, gdacs |-> gdacs]

Event(categories, closed, sources, geometries) ==
  [categories |-> categories, closed |-> closed, sources |-> sources, geometries |-> geometries]

AppendGeometry ==
  /\ part = "event" /\ Len(input.geometries) < MaxGeometries
  /\ \E type \in {"Point", "Polygon", "MultiPolygon"}, date \in Dates \cup {Undated} :
       input' = Event(input.categories, input.closed, input.sources,
                      Append(input.geometries, Geometry(Len(input.geometries) + 1, type, date)))

AppendSource ==
  /\ part = "event" /\ Len(input.sources) < MaxSources
  /\ \E allowed, gdacs \in BOOLEAN :
       input' = Event(input.categories, input.closed,
                      Append(input.sources, Source(Len(input.sources) + 1, allowed, gdacs)),
                      input.geometries)

Close ==
  /\ part = "event" /\ ~input.closed
  /\ \E c \in SUBSET {"floods", "wildfires"} :
       input' = Event(c, TRUE, input.sources, input.geometries)

(***************************************************************************)
(* A branch.                                                               *)
(***************************************************************************)
Commit == [token : {"line", "prose", "none"}, subject : {"own"}, parents : {1, 2},
           files : {{p} : p \in Paths} \cup {{}}]

AddCommit ==
  /\ part = "branch" /\ Len(input) < MaxCommits
  /\ \E c \in Commit : input' = Append(input, c)

(***************************************************************************)
(* Coordinates, and requests for a context.                                *)
(***************************************************************************)
Leaves == {Number(10), Number(100), Other}
Lists(s) == {Array(<<>>)} \cup {Array(<<a>>) : a \in s} \cup {Array(<<a, b>>) : a \in s, b \in s}
Trees == LET one == Lists(Leaves) IN LET two == Lists(one \cup Leaves) IN
  two \cup {Array(<<a>>) : a \in two} \cup {Array(<<Array(<<Position(10, 10)>>), a>>) : a \in two}

(***************************************************************************)
(* Polygons: an outline of up to five corners, or a square with holes.     *)
(***************************************************************************)
\* Twice the area of the triangle a, b, c: positive when c lies to the left.
Side(a, b, c) == (b.x - a.x) * (c.y - a.y) - (b.y - a.y) * (c.x - a.x)

OnEdge(a, b, q) == Side(a, b, q) = 0 /\ WithinBBox(BBox(<<a, b>>), q)

Crossing(a, b, c, d) == Side(a, b, c) * Side(a, b, d) < 0 /\ Side(c, d, a) * Side(c, d, b) < 0

Edges(ring) == 1..Len(ring) - 1

Simple(ring) ==
  /\ \A i, j \in Edges(ring) :
       /\ ring[j] \notin {ring[i], ring[i + 1]} => ~OnEdge(ring[i], ring[i + 1], ring[j])
       /\ ~Crossing(ring[i], ring[i + 1], ring[j], ring[j + 1])
  /\ \E i \in Edges(ring) : Side(ring[1], ring[2], ring[i]) # 0

\* Of the rings with the same corners in the same order, the one that starts at
\* the least of them.
SimpleRings(corners, n) ==
  LET Least(s) == \A i \in 2..n : s[1].y < s[i].y \/ (s[1].y = s[i].y /\ s[1].x < s[i].x)
      Distinct(s) == \A i, j \in 1..n : i # j => s[i] # s[j]
  IN {r \in {Append(s, s[1]) : s \in {s \in [1..n -> corners] : Least(s) /\ Distinct(s)}} : Simple(r)}

\* A rectangle, from any of its corners.
Rectangle(w, s, e, n, from) ==
  LET c == <<At(w, s), At(e, s), At(e, n), At(w, n)>> IN [i \in 1..5 |-> c[((i + from) % 4) + 1]]

Holes ==
  {<<>>} \cup {<<h>> : h \in SimpleRings([x : 1..3, y : 1..3], 3) \cup SimpleRings([x : 1..3, y : 1..3], 4)}
  \cup {<<Rectangle(1, 1, e, 4, i), Rectangle(5, 1, 6, n, j)>> : e \in {2, 4}, n \in {4, 5}, i, j \in 0..3}

Polygons ==
  {<<r>> : r \in UNION {SimpleRings([x : 0..2, y : 0..3], n) : n \in 3..5}}
  \cup {<<Rectangle(0, 0, 7, 6, 0)>> \o h : h \in {h \in Holes : Len(h) <= MaxHoles}}

Gate == <<1, 2>>
Visitor == <<3, 4>>
Developer == <<5, 6>>
Here == [lat |-> 0, lng |-> 0]
There == [lat |-> 80, lng |-> 100]

Params == {Absent, Text, NaN, Inf, 0, 100}
Routes == {<<>>, <<[destination |-> <<0, 0>>, gateway |-> <<2, 1>>]>>,
           <<[destination |-> <<9, 9>>, gateway |-> <<0, 0>>],
             [destination |-> <<0, 0>>, gateway |-> <<2, 1>>]>>}

ContextInput ==
  [request : [lat : Params, lng : Params, peer : {Gate, Visitor},
              forwarded : {<<>>, <<Visitor>>, <<Visitor, Developer>>},
              realIP : {NoAddress, Developer}],
   config : [trusted : {{}, {Gate}}, forceLagos : BOOLEAN,
             overrideIP : {NoAddress, Developer}],
   geo : {[a \in {} |-> Here], [a \in {Visitor} |-> There],
          [a \in {Visitor, Developer} |-> IF a = Visitor THEN Here ELSE There]},
   routes : Routes, down : BOOLEAN]

Stored == [e1 |-> Here, e2 |-> There, e3 |-> [lat |-> 1, lng |-> 0], e4 |-> NoPlace]

Pairs ==
  {<<"category", "floods">>, <<"country", "nigeria">>, <<"country", "Ghana">>,
   <<"country_code", "ng">>, <<"country_code", "XX">>, <<"state", "Lagos">>,
   <<"state", "Volta">>, <<"status", "open">>, <<"limit", "0">>, <<"limit", "200">>,
   <<"limit", "201">>, <<"limit", "ten">>, <<"offset", "50">>, <<"offset", "-1">>}

Queries == {<<>>} \cup {<<p>> : p \in Pairs} \cup {<<p, r>> : p, r \in Pairs}

Rows ==
  {[category |-> "floods", country |-> "Nigeria", state |-> "Lagos", status |-> "open"],
   [category |-> "wildfires", country |-> "Ghana", state |-> "Volta", status |-> "closed"],
   [category |-> "floods", country |-> "Ghana", state |-> Empty, status |-> "open"]}

Init ==
  \/ part = "queries" /\ input \in Queries \X Queries
  \/ part = "event" /\ input = Event({}, FALSE, <<>>, <<>>)
  \/ part = "branch" /\ input = <<>>
  \/ part = "tree" /\ input \in Trees
  \/ part = "polygon" /\ input \in Polygons
  \/ part = "context" /\ input \in ContextInput

Next ==
  \/ AppendGeometry /\ UNCHANGED part
  \/ AppendSource /\ UNCHANGED part
  \/ Close /\ UNCHANGED part
  \/ AddCommit /\ UNCHANGED part

Spec == Init /\ [][Next]_vars

(***************************************************************************)
(* Properties.                                                             *)
(***************************************************************************)

\* An event that EONET adds to never goes back in time (IsForward).
RevisionsForward == [][part = "event" => IsForward(input, input')]_vars

\* No vertex of a polygon is taken on the strength of another (EachVertexCounts).
PolygonsPlausible == part = "tree" => EachVertexCounts(input)

Countries ==
  {[west |-> x * Scale, south |-> y * Scale, east |-> (x + 1) * Scale, north |-> (y + 1) * Scale] :
     x \in -1..7, y \in -1..6}

On(ring, q) ==
  \E i \in Edges(ring) : OnEdge(Times(ring[i], Scale), Times(ring[i + 1], Scale), q)

\* Whether an odd number of edges passes above q.
In(ring, q) ==
  LET Above(i) == LET a == Times(ring[i], Scale)
                      b == Times(ring[i + 1], Scale)
                  IN \/ a.x <= q.x /\ q.x < b.x /\ Side(a, b, q) < 0
                     \/ b.x <= q.x /\ q.x < a.x /\ Side(b, a, q) < 0
  IN Cardinality({i \in Edges(ring) : Above(i)}) % 2 = 1

\* The mark of a flood stands inside its polygon or on its edge, and never in its
\* hole; and KeptWhereMarked, MarkedBetweenEdges and RecognisedEitherWay.
PlacedInside ==
  part = "polygon" =>
    LET p == CollectPositions(input)
        mark == RepresentativePoint(p)
    IN /\ On(input[1], mark) \/ In(input[1], mark)
       /\ \A h \in 2..Len(input) : On(input[h], mark) \/ ~In(input[h], mark)
       /\ \A c \in Countries : KeptWhereMarked(c, p)
       /\ MarkedBetweenEdges(p)
       /\ Len(input) = 1 => RecognisedEitherWay(p)

\* A caller is answered about the coordinates given, or else about the place of the
\* overriding, forwarded or peer address that is the caller's (AnsweredAsAsked), and
\* the check at startup says whether the gateway may forward one (GatewayProven).
LocationDisclosed ==
  part = "context" =>
    /\ AnsweredAsAsked(input.request, input.config, input.geo, Stored, input.down)
    /\ GatewayProven(input.routes, input.config, Gate, Visitor)

\* A query is answered for what it asks, from the cache too (AnswersWhatIsAsked).
AnswerIsTheQuerys ==
  part = "queries" => AnswersWhatIsAsked(input[1], input[2], Rows)

\* A branch bypasses the audit by its last commit only (JudgedByItsTip).
BypassIsCurrent == part = "branch" /\ input # <<>> => JudgedByItsTip(input)
=============================================================================
