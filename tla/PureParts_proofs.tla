-------------------------- MODULE PureParts_proofs --------------------------
(***************************************************************************)
(* Proofs about the parts that compute an answer from their inputs, for    *)
(* all inputs; and about MCPureParts, whose inputs are among them.         *)
(***************************************************************************)
EXTENDS MCPureParts, FiniteSetTheorems, WellFoundedInduction, TLAPS

(***************************************************************************)
(* Least and greatest elements.                                            *)
(***************************************************************************)

LEMMA LeastOf ==
  ASSUME NEW T \in SUBSET Nat, T # {}
  PROVE  \E m \in T : \A n \in T : m <= n
<1> DEFINE R == {s \in Nat \X Nat : s[1] < s[2]}
<1>1. IsWellFoundedOn(R, Nat)
  BY NatLessThanWellFounded DEF OpToRel
<1>2. PICK m \in T : \A n \in T : <<n, m>> \notin R
  <2> HIDE DEF R
  <2> QED BY <1>1, WFMin
<1>3. ASSUME NEW n \in T PROVE m <= n
  <2>1. <<n, m>> \notin R
    BY <1>2
  <2>2. <<n, m>> \in Nat \X Nat
    OBVIOUS
  <2>3. ~(n < m)
    BY <2>1, <2>2
  <2> QED
    BY <2>3
<1> QED
  BY <1>3

\* The element above which there are the fewest has none above it.
LEMMA GreatestOf ==
  ASSUME NEW S, IsFiniteSet(S), S # {}, NEW f \in [S -> Int]
  PROVE  \E i \in S : \A j \in S : f[j] <= f[i]
<1> DEFINE Above(i) == {j \in S : f[j] > f[i]}
           T == {Cardinality(Above(i)) : i \in S}
<1>1. \A i \in S : IsFiniteSet(Above(i)) /\ Cardinality(Above(i)) \in Nat
  BY FS_Subset, FS_CardinalityType
<1>2. T \in SUBSET Nat /\ T # {}
  BY <1>1
<1>3. PICK m \in T : \A n \in T : m <= n
  <2> HIDE DEF T
  <2> QED BY <1>2, LeastOf
<1>4. PICK i \in S : m = Cardinality(Above(i))
  BY <1>3
<1>5. ASSUME NEW j \in S, f[j] > f[i] PROVE FALSE
  <2>1. Above(j) \in SUBSET Above(i) /\ j \in Above(i) /\ j \notin Above(j)
    BY <1>5
  <2>2. Cardinality(Above(j)) <= Cardinality(Above(i)) /\ Cardinality(Above(i)) # Cardinality(Above(j))
    <3> HIDE DEF Above
    <3> QED BY <1>1, <2>1, FS_Subset
  <2>3. Cardinality(Above(i)) <= Cardinality(Above(j))
    BY <1>3, <1>4
  <2>4. Cardinality(Above(i)) \in Nat /\ Cardinality(Above(j)) \in Nat
    BY <1>1
  <2> HIDE DEF Above
  <2> QED
    BY <2>2, <2>3, <2>4
<1> QED
  BY <1>5

(***************************************************************************)
(* The governance audit.                                                   *)
(***************************************************************************)

\* Any branch with a commit passes the audit in a pull request exactly when it does
\* by hand, and without the token in its last commit only with a governance record.
THEOREM BypassNeedsItsTip ==
  ASSUME NEW branch, branch # <<>>
  PROVE  JudgedByItsTip(branch)
<1>1. AuditCommit(branch, "pull_request") = Tip(branch)
  BY DEF AuditCommit, CheckedOut
<1>2. AuditCommit(branch, "local") = Tip(branch)
  BY DEF AuditCommit, CheckedOut
<1>3. DiffFiles(branch, "pull_request") = DiffFiles(branch, "local")
  BY DEF DiffFiles
<1>4. Passes(branch, "pull_request") = Passes(branch, "local")
  BY <1>1, <1>2, <1>3 DEF Passes, Trivial
<1>5. ASSUME Passes(branch, "local"), Tip(branch).token # "line",
             NEW i \in DOMAIN branch, branch[i].files \cap criticalPaths # {}
      PROVE  \E j \in DOMAIN branch : branch[j].files \cap records # {}
  <2>1. CriticalChanges(DiffFiles(branch, "local")) # {}
    BY <1>5 DEF CriticalChanges, DiffFiles, criticalPaths, allowList
  <2>2. GovernanceRecords(DiffFiles(branch, "local")) # {}
    BY <1>2, <1>5, <2>1 DEF Passes, Trivial
  <2> QED
    BY <2>2 DEF GovernanceRecords, DiffFiles
<1> QED
  BY <1>4, <1>5 DEF JudgedByItsTip

(***************************************************************************)
(* Queries.                                                                *)
(***************************************************************************)

\* Any two queries with one cache key ask for the same events, a valid query gets
\* the page it names, and a state offered for a country is one of its rows'.
THEOREM QueriesAnswered ==
  ASSUME NEW q, NEW other, NEW rows
  PROVE  AnswersWhatIsAsked(q, other, rows)
<1> DEFINE f == Filters(q)
           Chosen(s) == [category |-> Empty, country |-> f.country, state |-> s, status |-> Empty]
<1>1. ASSUME CacheKey(q) = CacheKey(other)
      PROVE  f = Filters(other)
  <2>1. \A p \in Parameters : Values(q, p) = Values(other, p)
    BY <1>1, \A p \in Parameters : CacheKey(q)[p] = Values(q, p) /\ CacheKey(other)[p] = Values(other, p)
    DEF CacheKey
  <2>2. \A p \in Parameters : Get(q, p) = Get(other, p)
    BY <2>1 DEF Get
  <2>3. ResolveCountry(q) = ResolveCountry(other)
    BY <2>2 DEF ResolveCountry, Parameters
  <2> QED
    BY <2>2, <2>3 DEF Filters, Parameters
<1>2. Valid(f) => LimitUsed(f) = f.limit /\ OffsetUsed(f) = f.offset
  <2>1. f.offset \in Int
    BY DEF Filters, Atoi, Number10, NotANumber
  <2> QED
    BY <2>1 DEF Valid, LimitUsed, OffsetUsed
<1>3. ASSUME f.country # UnknownCountry, NEW s \in DistinctStates(q, rows)
      PROVE  \E row \in rows : Selects(Chosen(s), row)
  <2>1. PICK row \in rows : /\ s = row.state /\ row.state # Empty
                            /\ ResolveCountry(q) = Empty \/ row.country = ResolveCountry(q)
    BY <1>3 DEF DistinctStates
  <2>2. /\ Chosen(s)["category"] = Empty /\ Chosen(s)["status"] = Empty
        /\ Chosen(s)["state"] = s /\ Chosen(s)["country"] = ResolveCountry(q)
    BY DEF Filters
  <2>3. Selects(Chosen(s), row)
    BY <2>1, <2>2 DEF Selects
  <2> QED
    BY <2>3
<1> QED
  BY <1>1, <1>2, <1>3 DEF AnswersWhatIsAsked

(***************************************************************************)
(* The place of a caller.                                                  *)
(***************************************************************************)

IsCoordinates(p) == p.lat \in -90..90 /\ p.lng \in -180..180

\* There are nearest events, for every finite set of stored ones.
LEMMA NearbyExists ==
  ASSUME NEW place, place.lat \in Int, place.lng \in Int,
         NEW db, IsFiniteSet(DOMAIN db), \A e \in DOMAIN db : db[e].lat \in Int /\ db[e].lng \in Int
  PROVE  \E s \in SUBSET DOMAIN db : IsNearby(s, place, db)
<1> DEFINE near == {e \in DOMAIN db : db[e] # NoPlace /\ Distance(db[e], place) <= Radius}
<1>1. IsFiniteSet(near) /\ Cardinality(near) \in Nat
  BY FS_Subset, FS_CardinalityType
<1>2. \A e \in DOMAIN db : Distance(db[e], place) \in Int
  BY DEF Distance, Away
<1>3. CASE near = {}
  <2>1. Cardinality({}) = 0
    BY FS_EmptySet
  <2>2. Min({MaxNearby, 0}) = 0
    BY DEF Min, MaxNearby
  <2>3. IsNearby({}, place, db)
    BY <1>3, <2>1, <2>2 DEF IsNearby
  <2> QED
    BY <2>3
<1>4. CASE near # {}
  <2> DEFINE f == [e \in near |-> -Distance(db[e], place)]
  <2>1. f \in [near -> Int]
    BY <1>2
  <2>2. PICK i \in near : \A j \in near : f[j] <= f[i]
    <3> HIDE DEF near, f
    <3> QED BY <1>1, <1>4, <2>1, GreatestOf
  <2>3. \A j \in near : Distance(db[i], place) <= Distance(db[j], place)
    BY <1>2, <2>2
  <2>4. Cardinality({i}) = 1 /\ Cardinality(near) # 0
    BY <1>1, <1>4, FS_Singleton, FS_EmptySet
  <2>5. Min({MaxNearby, Cardinality(near)}) = 1
    <3> HIDE DEF near
    <3> QED BY <1>1, <2>4 DEF Min, MaxNearby
  <2>6. IsNearby({i}, place, db)
    BY <2>3, <2>4, <2>5 DEF IsNearby
  <2> QED
    BY <2>6
<1> QED
  BY <1>3, <1>4

\* A response about what a lookup returned, or the refusal of an outage after a
\* lookup that succeeded, is an answer about the address looked up.
LEMMA LookupAnswers ==
  ASSUME NEW address, NEW source, NEW geo, NEW a,
         \/ /\ a.status = 200
            /\ a.place = LookedUp(address, source, geo).place
            /\ a.source = LookedUp(address, source, geo).source
         \/ a.status = 500 /\ LookedUp(address, source, geo).place # NoPlace
  PROVE  AboutAddress(a, address, source, geo)
<1>1. CASE address \in DOMAIN geo
  BY <1>1 DEF LookedUp, AboutAddress
<1>2. CASE address \notin DOMAIN geo
  BY <1>2 DEF LookedUp, Unavailable, AboutAddress
<1> QED
  BY <1>1, <1>2

\* The address looked up is the caller's own, a forwarded one only if the peer is
\* trusted, or the one that overrides it.
LEMMA CallersPlace ==
  ASSUME NEW r, NEW config, NEW geo, NEW a, ~HasExplicit(r),
         \/ /\ a.status = 200
            /\ a.place = Located(r, config, geo).place
            /\ a.source = Located(r, config, geo).source
         \/ a.status = 500 /\ Located(r, config, geo).place # NoPlace
  PROVE  AboutCaller(a, r, config, geo)
<1> DEFINE direct == r.peer \notin config.trusted \/ (r.forwarded = <<>> /\ r.realIP = NoAddress)
           overridden == config.overrideIP # NoAddress
           source == IF overridden THEN "dev_override" ELSE "ip"
<1>1. CASE config.forceLagos
  <2>1. Located(r, config, geo) = [place |-> Lagos, source |-> "dev_override"]
    BY <1>1 DEF Located
  <2> QED
    BY <1>1, <2>1 DEF AboutCaller
<1>2. CASE ~config.forceLagos
  <2>1. Located(r, config, geo) = LookedUp(LookupAddress(r, config), source, geo)
    BY <1>2 DEF Located
  <2>2. AboutAddress(a, LookupAddress(r, config), source, geo)
    <3> HIDE DEF source
    <3> QED BY <2>1, LookupAnswers
  <2>3. CASE overridden
    <3>1. LookupAddress(r, config) = config.overrideIP /\ source = "dev_override"
      BY <2>3 DEF LookupAddress
    <3>2. AboutAddress(a, config.overrideIP, "dev_override", geo)
      BY <2>2, <3>1
    <3> QED
      BY <1>2, <2>3, <3>2 DEF AboutCaller
  <2>4. CASE ~overridden
    <3>1. LookupAddress(r, config) = ClientIP(r, config) /\ source = "ip"
      BY <2>4 DEF LookupAddress
    <3>2. AboutAddress(a, ClientIP(r, config), "ip", geo)
      BY <2>2, <3>1
    <3>3. /\ direct => ClientIP(r, config) = r.peer
          /\ ~direct /\ r.forwarded # <<>> => ClientIP(r, config) = r.forwarded[1]
          /\ ~direct /\ r.forwarded = <<>> => ClientIP(r, config) = r.realIP
      BY DEF ClientIP, IsTrustedProxy
    <3>4. /\ direct => AboutAddress(a, r.peer, "ip", geo)
          /\ ~direct /\ r.forwarded # <<>> => AboutAddress(a, r.forwarded[1], "ip", geo)
          /\ ~direct /\ r.forwarded = <<>> => AboutAddress(a, r.realIP, "ip", geo)
      <4> HIDE DEF direct
      <4> QED BY <3>2, <3>3
    <3> QED
      BY <1>2, <2>4, <3>4 DEF AboutCaller
  <2> QED
    BY <2>3, <2>4
<1> QED
  BY <1>1, <1>2

\* A caller who gives coordinates is answered about them or told that they are none;
\* any other about the place of the address that the overrides, the trusted networks
\* and the headers say is the caller's, with the source it was found by, or about no
\* place; with events near the place only, over any finite set of events and any
\* GeoIP database whose places are on the globe.
THEOREM CallerAnswered ==
  ASSUME NEW r, r.lat \in Int, r.lng \in Int,
         NEW config,
         NEW geo, \A a \in DOMAIN geo : geo[a] = [lat |-> geo[a].lat, lng |-> geo[a].lng]
                                       /\ IsCoordinates(geo[a]),
         NEW db, IsFiniteSet(DOMAIN db), \A e \in DOMAIN db : db[e].lat \in Int /\ db[e].lng \in Int,
         NEW down
  PROVE  AnsweredAsAsked(r, config, geo, db, down)
<1> DEFINE valid == IsCoordinates(r)
           at == Located(r, config, geo)
           answers == Responses(r, config, geo, db, down)
           Fits(a) == /\ HasExplicit(r) /\ valid =>
                           \/ a.status = 500
                           \/ a.status = 200 /\ a.source = "explicit"
                                /\ a.place = [lat |-> r.lat, lng |-> r.lng]
                      /\ HasExplicit(r) /\ ~valid => a.status = 400
                      /\ ~HasExplicit(r) => AboutCaller(a, r, config, geo)
                      /\ a.status = 500 => down
                      /\ a.place = NoPlace => a.events = {}
                      /\ \A e \in a.events : Distance(db[e], a.place) <= Radius
<1>1. ExplicitOK(r) <=> valid
  BY DEF ExplicitOK, CoordinateOK, OutOfRange, IsFinite, IsCoordinates, Absent, Text, NaN, Inf
<1>2. HasExplicit(r) => at.place = [lat |-> r.lat, lng |-> r.lng] /\ at.source = "explicit"
  BY DEF Located
<1>3. ~HasExplicit(r) => at.place = NoPlace \/ IsCoordinates(at.place)
  <2> SUFFICES ASSUME ~HasExplicit(r) PROVE at.place = NoPlace \/ IsCoordinates(at.place)
    OBVIOUS
  <2>1. CASE config.forceLagos
    BY <2>1 DEF Located, Lagos, IsCoordinates
  <2>2. CASE ~config.forceLagos
    BY <2>2 DEF Located, LookedUp, Unavailable
  <2> QED
    BY <2>1, <2>2
<1>4. answers # {} /\ (\A a \in answers : Fits(a)) => AnsweredAsAsked(r, config, geo, db, down)
  BY DEF AnsweredAsAsked, IsCoordinates
<1>5. CASE HasExplicit(r) /\ ~valid
  <2>1. answers = {Refused(400)}
    BY <1>1, <1>5 DEF Responses
  <2>2. Fits(Refused(400))
    BY <1>5 DEF Refused, Response, Unavailable
  <2> QED
    BY <1>4, <2>1, <2>2
<1>6. CASE ~HasExplicit(r) /\ at.place = NoPlace
  <2> DEFINE a == Response(200, at, {})
  <2>1. answers = {a}
    BY <1>6 DEF Responses
  <2>2. a.status = 200 /\ a.place = at.place /\ a.source = at.source /\ a.events = {}
    BY DEF Response
  <2> HIDE DEF a
  <2>3. AboutCaller(a, r, config, geo)
    BY <1>6, <2>2, CallersPlace
  <2>4. Fits(a)
    <3> HIDE DEF at
    <3> QED BY <1>6, <2>2, <2>3
  <2> QED
    BY <1>4, <2>1, <2>4
<1>7. CASE /\ HasExplicit(r) => valid
           /\ ~HasExplicit(r) => at.place # NoPlace
  <2>1. IsCoordinates(at.place)
    <3> HIDE DEF at
    <3>1. CASE HasExplicit(r)
      <4>1. at.place.lat = r.lat /\ at.place.lng = r.lng
        BY <1>2, <3>1
      <4> QED
        BY <1>7, <3>1, <4>1 DEF IsCoordinates
    <3>2. CASE ~HasExplicit(r)
      BY <1>3, <1>7, <3>2
    <3> QED
      BY <3>1, <3>2
  <2>2. /\ at.place # NoPlace /\ IsFinite(at.place.lat) /\ IsFinite(at.place.lng)
        /\ at.place.lat \in Int /\ at.place.lng \in Int
    <3> DEFINE p == at.place
    <3>1. IsCoordinates(p)
      BY <2>1
    <3> HIDE DEF p
    <3>2. p # NoPlace /\ IsFinite(p.lat) /\ IsFinite(p.lng) /\ p.lat \in Int /\ p.lng \in Int
      BY <3>1 DEF IsCoordinates, NoPlace, Absent, IsFinite, NaN, Inf
    <3> QED
      BY <3>2 DEF p
  <2>3. CASE down
    <3> DEFINE a == Refused(500)
    <3>1. answers = {a}
      BY <1>1, <1>7, <2>2, <2>3 DEF Responses
    <3>2. a.status = 500 /\ a.events = {}
      BY DEF Refused, Response
    <3> HIDE DEF a
    <3>3. ASSUME ~HasExplicit(r) PROVE AboutCaller(a, r, config, geo)
      <4>1. Located(r, config, geo).place # NoPlace
        BY <1>7, <3>3
      <4> QED
        BY <3>2, <3>3, <4>1, CallersPlace
    <3>4. Fits(a)
      <4> HIDE DEF at
      <4> QED BY <1>7, <2>3, <3>2, <3>3
    <3> QED
      BY <1>4, <3>1, <3>4
  <2>4. CASE ~down
    <3>1. answers = {Response(200, at, s) : s \in {s \in SUBSET DOMAIN db : IsNearby(s, at.place, db)}}
      BY <1>1, <1>7, <2>2, <2>4 DEF Responses
    <3>2. answers # {}
      <4> HIDE DEF at
      <4> QED BY <2>2, <3>1, NearbyExists
    <3>3. ASSUME NEW a \in answers PROVE Fits(a)
      <4>1. PICK s \in SUBSET DOMAIN db : IsNearby(s, at.place, db) /\ a = Response(200, at, s)
        BY <3>1
      <4>2. a.status = 200 /\ a.place = at.place /\ a.source = at.source /\ a.events = s
        BY <4>1 DEF Response
      <4>3. \A e \in s : Distance(db[e], at.place) <= Radius
        BY <4>1 DEF IsNearby
      <4>4. ~HasExplicit(r) => AboutCaller(a, r, config, geo)
        BY <4>2, CallersPlace
      <4> HIDE DEF at
      <4> QED
        BY <1>2, <1>7, <2>2, <4>2, <4>3, <4>4
    <3> QED
      BY <1>4, <3>2, <3>3
  <2> QED
    BY <2>3, <2>4
<1> QED
  BY <1>5, <1>6, <1>7

\* For any routes and trusted networks, the check at startup passes exactly when
\* a visitor's address is taken from a request that comes through the gateway.
THEOREM GatewayChecked ==
  ASSUME NEW routes, NEW config, NEW visitor, visitor # DefaultGateway(routes)
  PROVE  GatewayProven(routes, config, DefaultGateway(routes), visitor)
<1> DEFINE r == [peer |-> DefaultGateway(routes), forwarded |-> <<visitor>>, realIP |-> NoAddress]
<1>1. r.forwarded # <<>> /\ r.forwarded[1] = visitor /\ r.peer = DefaultGateway(routes)
  OBVIOUS
<1>2. ClientIP(r, config) = IF IsTrustedProxy(DefaultGateway(routes), config) THEN visitor
                            ELSE DefaultGateway(routes)
  BY <1>1 DEF ClientIP
<1>3. ClientIP(r, config) = visitor <=> IsTrustedProxy(DefaultGateway(routes), config)
  BY <1>2
<1> QED
  BY <1>3 DEF GatewayProven, VerifyGatewayTrusted

(***************************************************************************)
(* Coordinate trees.                                                       *)
(***************************************************************************)

\* A set of JSON trees that holds the items of its arrays.
IsJson(trees) == \A t \in trees : t.kind = "array" => t.items \in Seq(trees)

\* A function may be iterated any number of times.
LEMMA Iterates ==
  ASSUME NEW n \in Nat, NEW X, NEW first \in X, NEW step \in [X -> X]
  PROVE  \E g \in [0..n -> X] : g[0] = first /\ \A d \in 1..n : g[d] = step[g[d - 1]]
<1> DEFINE Upto(m) == \E g \in [0..m -> X] : g[0] = first /\ \A d \in 1..m : g[d] = step[g[d - 1]]
           Without == {m \in Nat : ~Upto(m)}
<1>1. CASE Without = {}
  BY <1>1
<1>2. CASE Without # {}
  <2>1. PICK m \in Without : \A k \in Without : m <= k
    <3>1. Without \in SUBSET Nat
      OBVIOUS
    <3> HIDE DEF Without
    <3> QED BY <1>2, <3>1, LeastOf
  <2>2. Upto(0)
    <3> DEFINE g == [d \in 0..0 |-> first]
    <3>1. g \in [0..0 -> X] /\ g[0] = first /\ 1..0 = {}
      OBVIOUS
    <3> HIDE DEF g
    <3> QED BY <3>1
  <2>3. m \in Nat /\ m # 0 /\ ~Upto(m)
    BY <2>2
  <2>4. Upto(m - 1)
    <3>1. m - 1 \in Nat /\ ~(m <= m - 1)
      BY <2>3
    <3> QED
      BY <2>1, <3>1
  <2>5. PICK g \in [0..m - 1 -> X] : g[0] = first /\ \A d \in 1..m - 1 : g[d] = step[g[d - 1]]
    BY <2>4
  <2> DEFINE h == [d \in 0..m |-> IF d = m THEN step[g[m - 1]] ELSE g[d]]
  <2>6. /\ m - 1 \in 0..m - 1 /\ 0 \in 0..m /\ m # 0
        /\ \A d \in 0..m : d # m => d \in 0..m - 1
        /\ \A d \in 1..m : d - 1 \in 0..m /\ d - 1 # m /\ d \in 0..m /\ (d # m => d \in 1..m - 1)
    BY <2>3
  <2>7. h \in [0..m -> X]
    BY <2>5, <2>6
  <2>8. h[0] = first
    BY <2>5, <2>6
  <2>9. ASSUME NEW d \in 1..m
        PROVE  h[d] = step[h[d - 1]]
    <3>1. h[d - 1] = g[d - 1]
      BY <2>6
    <3>2. CASE d = m
      BY <2>6, <3>1, <3>2
    <3>3. CASE d # m
      <4>1. h[d] = g[d] /\ g[d] = step[g[d - 1]]
        BY <2>5, <2>6, <3>3
      <4> QED
        BY <3>1, <4>1
    <3> QED
      BY <3>2, <3>3
  <2>10. Upto(m)
    <3> HIDE DEF h
    <3> QED
      BY <2>7, <2>8, <2>9
  <2> QED
    BY <2>3, <2>10
<1> QED
  BY <1>1, <1>2

\* The equations of the two walks over a tree, which are defined by recursion.
LEMMA MetAtEachDepth ==
  ASSUME NEW trees, IsJson(trees), NEW tree \in trees
  PROVE  Met(tree) = [depth \in 0..maxCoordinateNesting + 1 |->
                        IF depth = 0 THEN {tree}
                        ELSE UNION {WalksInto(t) : t \in Met(tree)[depth - 1]}]
<1> DEFINE n == maxCoordinateNesting + 1
           X == SUBSET trees
           step == [s \in X |-> UNION {WalksInto(t) : t \in s}]
           first == {tree}
<1>1. n \in Nat
  BY DEF maxCoordinateNesting
<1>2. step \in [X -> X]
  BY DEF WalksInto, IsJson
<1>3. first \in X
  OBVIOUS
<1>4. PICK g \in [0..n -> X] : g[0] = first /\ \A d \in 1..n : g[d] = step[g[d - 1]]
  <2> HIDE DEF step, n, X, first
  <2> QED
    BY <1>1, <1>2, <1>3, Iterates, SMTT(30)
<1>5. ASSUME NEW d \in 0..n
      PROVE  g[d] = IF d = 0 THEN {tree} ELSE UNION {WalksInto(t) : t \in g[d - 1]}
  <2>1. CASE d = 0
    BY <1>4, <2>1
  <2>2. CASE d # 0
    <3>1. d \in 1..n /\ d - 1 \in 0..n
      BY <1>1, <2>2
    <3>2. g[d] = step[g[d - 1]]
      <4> HIDE DEF step, n, X
      <4> QED BY <1>4, <3>1
    <3>3. g[d - 1] \in X
      <4> HIDE DEF step, n, X
      <4> QED BY <3>1
    <3>4. step[g[d - 1]] = UNION {WalksInto(t) : t \in g[d - 1]}
      <4> HIDE DEF n
      <4> QED BY <3>3
    <3> QED
      BY <2>2, <3>2, <3>4
  <2> QED
    BY <2>1, <2>2
<1>6. g = [d \in 0..n |-> IF d = 0 THEN {tree} ELSE UNION {WalksInto(t) : t \in g[d - 1]}]
  <2> HIDE DEF step, n, X
  <2> QED
    BY <1>4, <1>5
<1> QED
  BY <1>6 DEF Met

LEMMA LevelAtEachDepth ==
  ASSUME NEW trees, IsJson(trees), NEW tree \in trees
  PROVE  Levels(tree) = [depth \in 0..maxCoordinateNesting + 1 |->
                           IF depth = 0 THEN {tree}
                           ELSE UNION {Inside(t) : t \in Levels(tree)[depth - 1]}]
<1> DEFINE n == maxCoordinateNesting + 1
           X == SUBSET trees
           step == [s \in X |-> UNION {Inside(t) : t \in s}]
           first == {tree}
<1>1. n \in Nat
  BY DEF maxCoordinateNesting
<1>2. step \in [X -> X]
  BY DEF Inside, IsJson
<1>3. first \in X
  OBVIOUS
<1>4. PICK g \in [0..n -> X] : g[0] = first /\ \A d \in 1..n : g[d] = step[g[d - 1]]
  <2> HIDE DEF step, n, X, first
  <2> QED
    BY <1>1, <1>2, <1>3, Iterates, SMTT(30)
<1>5. ASSUME NEW d \in 0..n
      PROVE  g[d] = IF d = 0 THEN {tree} ELSE UNION {Inside(t) : t \in g[d - 1]}
  <2>1. CASE d = 0
    BY <1>4, <2>1
  <2>2. CASE d # 0
    <3>1. d \in 1..n /\ d - 1 \in 0..n
      BY <1>1, <2>2
    <3>2. g[d] = step[g[d - 1]]
      <4> HIDE DEF step, n, X
      <4> QED BY <1>4, <3>1
    <3>3. g[d - 1] \in X
      <4> HIDE DEF step, n, X
      <4> QED BY <3>1
    <3>4. step[g[d - 1]] = UNION {Inside(t) : t \in g[d - 1]}
      <4> HIDE DEF n
      <4> QED BY <3>3
    <3> QED
      BY <2>2, <3>2, <3>4
  <2> QED
    BY <2>1, <2>2
<1>6. g = [d \in 0..n |-> IF d = 0 THEN {tree} ELSE UNION {Inside(t) : t \in g[d - 1]}]
  <2> HIDE DEF step, n, X
  <2> QED
    BY <1>4, <1>5
<1> QED
  BY <1>6 DEF Levels

\* What the walk meets: a tree holds no array of arrays it does not walk into.
LEMMA MetInOrder ==
  ASSUME NEW trees, IsJson(trees), NEW tree \in trees
  PROVE  /\ Met(tree)[0] = {tree}
         /\ \A d \in 0..maxCoordinateNesting :
              Met(tree)[d + 1] = UNION {WalksInto(t) : t \in Met(tree)[d]}
<1> DEFINE n == maxCoordinateNesting + 1
           met == Met(tree)
<1>1. met = [d \in 0..n |-> IF d = 0 THEN {tree} ELSE UNION {WalksInto(t) : t \in met[d - 1]}]
  BY MetAtEachDepth
<1>2. 0 \in 0..n /\ \A d \in 0..n - 1 : d + 1 \in 0..n /\ d + 1 # 0 /\ (d + 1) - 1 = d
  BY DEF maxCoordinateNesting
<1> HIDE DEF met, n
<1>3. met[0] = {tree}
  BY <1>1, <1>2
<1>4. ASSUME NEW d \in 0..n - 1
      PROVE  met[d + 1] = UNION {WalksInto(t) : t \in met[d]}
  <2>1. met[d + 1] = UNION {WalksInto(t) : t \in met[(d + 1) - 1]}
    BY <1>1, <1>2
  <2> QED
    BY <1>2, <2>1
<1>5. 0..maxCoordinateNesting = 0..n - 1
  BY DEF n, maxCoordinateNesting
<1> QED
  BY <1>3, <1>4, <1>5 DEF met

LEMMA LevelsInOrder ==
  ASSUME NEW trees, IsJson(trees), NEW tree \in trees
  PROVE  /\ Levels(tree)[0] = {tree}
         /\ \A d \in 0..maxCoordinateNesting :
              Levels(tree)[d + 1] = UNION {Inside(t) : t \in Levels(tree)[d]}
<1> DEFINE n == maxCoordinateNesting + 1
           level == Levels(tree)
<1>1. level = [d \in 0..n |-> IF d = 0 THEN {tree} ELSE UNION {Inside(t) : t \in level[d - 1]}]
  BY LevelAtEachDepth
<1>2. 0 \in 0..n /\ \A d \in 0..n - 1 : d + 1 \in 0..n /\ d + 1 # 0 /\ (d + 1) - 1 = d
  BY DEF maxCoordinateNesting
<1> HIDE DEF level, n
<1>3. level[0] = {tree}
  BY <1>1, <1>2
<1>4. ASSUME NEW d \in 0..n - 1
      PROVE  level[d + 1] = UNION {Inside(t) : t \in level[d]}
  <2>1. level[d + 1] = UNION {Inside(t) : t \in level[(d + 1) - 1]}
    BY <1>1, <1>2
  <2> QED
    BY <1>2, <2>1
<1>5. 0..maxCoordinateNesting = 0..n - 1
  BY DEF n, maxCoordinateNesting
<1> QED
  BY <1>3, <1>4, <1>5 DEF level

\* A property of 0 that goes from a number to the next one below n holds up to n.
LEMMA Upwards ==
  ASSUME NEW n \in Nat, NEW S, 0 \in S, \A d \in 0..n - 1 : d \in S => d + 1 \in S
  PROVE  \A d \in 0..n : d \in S
<1> DEFINE Out == {d \in 0..n : d \notin S}
<1>1. CASE Out = {}
  BY <1>1
<1>2. CASE Out # {}
  <2>1. PICK m \in Out : \A k \in Out : m <= k
    <3>1. Out \in SUBSET Nat
      OBVIOUS
    <3> HIDE DEF Out
    <3> QED BY <1>2, <3>1, LeastOf
  <2>2. m \in 0..n /\ m # 0
    OBVIOUS
  <2>3. m - 1 \in 0..n - 1 /\ m - 1 \in 0..n /\ ~(m <= m - 1) /\ (m - 1) + 1 = m
    BY <2>2
  <2>4. m - 1 \in S
    BY <2>1, <2>3
  <2> QED
    BY <2>3, <2>4
<1> QED
  BY <1>1, <1>2

LEMMA SubtreesAreMet ==
  ASSUME NEW trees, IsJson(trees), NEW tree \in trees, NEW d \in 0..maxCoordinateNesting + 1
  PROVE  Levels(tree)[d] \subseteq Met(tree)[d] /\ Met(tree)[d] \subseteq trees
<1> DEFINE n == maxCoordinateNesting + 1
           S == {k \in 0..n : Levels(tree)[k] \subseteq Met(tree)[k] /\ Met(tree)[k] \subseteq trees}
<1>1. n \in Nat /\ 0..maxCoordinateNesting = 0..n - 1 /\ 0 \in 0..n
  BY DEF maxCoordinateNesting
<1>2. 0 \in S
  BY <1>1, MetInOrder, LevelsInOrder
<1>3. ASSUME NEW k \in 0..n - 1, k \in S PROVE k + 1 \in S
  <2>1. k + 1 \in 0..n
    BY <1>1
  <2>2. /\ Met(tree)[k + 1] = UNION {WalksInto(t) : t \in Met(tree)[k]}
        /\ Levels(tree)[k + 1] = UNION {Inside(t) : t \in Levels(tree)[k]}
    BY <1>1, MetInOrder, LevelsInOrder, ZenonT(60)
  <2>3. ASSUME NEW t \in trees
        PROVE  Inside(t) \subseteq WalksInto(t) /\ WalksInto(t) \subseteq trees
    <3>1. t.kind = "array" => t.items \in Seq(trees)
      BY DEF IsJson
    <3>2. ASSUME NEW u \in Inside(t) PROVE u \in WalksInto(t)
      <4>1. t.kind = "array" /\ \A i \in DOMAIN t.items : t.items[i].kind = "array"
        BY <3>2 DEF Inside
      <4>2. PICK i \in DOMAIN t.items : u = t.items[i]
        BY <3>2, <4>1 DEF Inside
      <4>3. t.items # <<>> /\ 1 \in DOMAIN t.items
        BY <3>1, <4>1, <4>2
      <4> QED
        BY <4>1, <4>2, <4>3 DEF WalksInto
    <3> QED
      BY <3>1, <3>2 DEF WalksInto
  <2>4. Levels(tree)[k] \subseteq Met(tree)[k] /\ Met(tree)[k] \subseteq trees
    BY <1>3
  <2>5. Levels(tree)[k + 1] \subseteq Met(tree)[k + 1]
    BY <2>2, <2>3, <2>4
  <2>6. Met(tree)[k + 1] \subseteq trees
    BY <2>2, <2>3, <2>4
  <2> QED
    BY <2>1, <2>5, <2>6
<1> HIDE DEF S, n
<1>4. \A k \in 0..n : k \in S
  BY <1>1, <1>2, <1>3, Upwards
<1> QED
  BY <1>4 DEF S, n

\* Of any JSON array, the guard on polygons checks every vertex, and lets the
\* coordinates of any polygon through.
THEOREM VerticesChecked ==
  ASSUME NEW trees, IsJson(trees), NEW tree \in trees, tree.kind = "array"
  PROVE  EachVertexCounts(tree)
<1> DEFINE n == maxCoordinateNesting
           met == Met(tree)
<1>1. n = 8 /\ n + 1 = 9
  BY DEF maxCoordinateNesting
<1>2. met[0] = {tree} /\ \A d \in 0..n : met[d + 1] = UNION {WalksInto(t) : t \in met[d]}
  BY MetInOrder
<1>3. tree.items \in Seq(trees)
  BY DEF IsJson
<1>4. ASSUME tree.items # <<>>, \A i \in DOMAIN tree.items : IsRing(tree.items[i])
      PROVE  PolygonCoordinatesPlausible(tree)
  <2>1. 1 \in DOMAIN tree.items
    BY <1>3, <1>4
  <2>2. WellFormed(tree) /\ WalksInto(tree) = {tree.items[i] : i \in DOMAIN tree.items}
    <3>1. tree.items[1].kind # "number"
      BY <1>4, <2>1 DEF IsRing
    <3> QED
      BY <1>4, <3>1 DEF WellFormed, WalksInto
  <2>3. \A t \in met[1] : t \in trees /\ IsRing(t)
    <3>1. met[0 + 1] = UNION {WalksInto(t) : t \in met[0]}
      BY <1>1, <1>2
    <3>2. met[1] = WalksInto(tree)
      BY <1>2, <3>1
    <3> QED
      BY <1>3, <1>4, <2>2, <3>2
  <2>4. ASSUME NEW t \in met[1]
        PROVE  /\ WellFormed(t)
               /\ \A u \in WalksInto(t) : u \in trees /\ u.kind = "array" /\ IsPosition(u.items)
    <3>1. t \in trees /\ t.kind = "array" /\ t.items # <<>> /\ t.items \in Seq(trees)
      BY <2>3 DEF IsRing, IsJson
    <3>2. \A i \in DOMAIN t.items : t.items[i].kind = "array" /\ IsPosition(t.items[i].items)
      BY <2>3 DEF IsRing
    <3>3. 1 \in DOMAIN t.items
      BY <3>1
    <3> QED
      BY <3>1, <3>2, <3>3 DEF WellFormed, WalksInto
  <2>5. met[2] = UNION {WalksInto(t) : t \in met[1]}
    BY <1>1, <1>2
  <2>6. ASSUME NEW t \in met[2]
        PROVE  WellFormed(t) /\ WalksInto(t) = {}
    <3>1. t \in trees /\ t.kind = "array" /\ IsPosition(t.items)
      BY <2>4, <2>5
    <3>2. t.items \in Seq(trees) /\ Len(t.items) >= 2
      BY <3>1 DEF IsJson, IsPosition
    <3>3. t.items # <<>> /\ 1 \in DOMAIN t.items
      BY <3>2
    <3> QED
      BY <3>1, <3>3 DEF WellFormed, WalksInto, IsPosition
  <2>7. met[3] = {}
    BY <1>1, <1>2, <2>6
  <2>8. met[4] = {}
    BY <1>1, <1>2, <2>7
  <2>9. met[5] = {}
    BY <1>1, <1>2, <2>8
  <2>10. met[6] = {}
    BY <1>1, <1>2, <2>9
  <2>11. met[7] = {}
    BY <1>1, <1>2, <2>10
  <2>12. met[8] = {}
    BY <1>1, <1>2, <2>11
  <2>13. met[9] = {}
    BY <1>1, <1>2, <2>12
  <2> HIDE DEF met
  <2>14. ASSUME NEW d \in 0..n, NEW t \in met[d] PROVE WellFormed(t)
    <3>1. d \in {0, 1, 2, 3, 4, 5, 6, 7, 8}
      BY <1>1
    <3> QED
      BY <1>2, <2>2, <2>4, <2>6, <2>7, <2>8, <2>9, <2>10, <2>11, <2>12, <3>1
  <2> QED
    BY <1>1, <2>13, <2>14 DEF PolygonCoordinatesPlausible, met
<1>5. ASSUME PolygonCoordinatesPlausible(tree), NEW t \in Subtrees(tree)
      PROVE  /\ t.kind = "array" /\ t.items # <<>>
             /\ (\E i \in DOMAIN t.items : t.items[i].kind # "array") => IsPosition(t.items)
  <2>1. PICK d \in 0..n + 1 : t \in Levels(tree)[d]
    BY <1>5 DEF Subtrees
  <2>2. t \in met[d] /\ t \in trees
    BY <2>1, SubtreesAreMet
  <2>3. d \in 0..n
    BY <1>1, <1>5, <2>2 DEF PolygonCoordinatesPlausible
  <2>4. WellFormed(t) /\ t.items \in Seq(trees)
    BY <1>5, <2>2, <2>3 DEF PolygonCoordinatesPlausible, IsJson, WellFormed
  <2>5. ASSUME NEW i \in DOMAIN t.items, t.items[i].kind # "array", ~IsPosition(t.items)
        PROVE  FALSE
    <3>1. t.items[i] \in WalksInto(t)
      BY <2>4, <2>5 DEF WellFormed, WalksInto
    <3>2. t.items[i] \in met[d + 1]
      BY <1>2, <2>2, <2>3, <3>1
    <3>3. CASE d = n
      BY <1>5, <3>2, <3>3 DEF PolygonCoordinatesPlausible
    <3>4. CASE d # n
      <4>1. d + 1 \in 0..n
        BY <1>1, <2>3, <3>4
      <4>2. WellFormed(t.items[i])
        BY <1>5, <3>2, <4>1 DEF PolygonCoordinatesPlausible
      <4> QED
        BY <2>5, <4>2 DEF WellFormed
    <3> QED
      BY <3>3, <3>4
  <2> QED
    BY <2>4, <2>5 DEF WellFormed
<1> QED
  BY <1>4, <1>5 DEF EachVertexCounts

(***************************************************************************)
(* Events that grow.                                                       *)
(***************************************************************************)

\* The geometry in use has the latest date there is.
LEMMA SelectedIsLatest ==
  ASSUME NEW Geometries, \A g \in Geometries : g.date \in Int,
         NEW s \in Seq(Geometries), s # <<>>
  PROVE  \E i \in 1..Len(s) : Selected(s) = s[i] /\ \A j \in 1..Len(s) : s[j].date <= s[i].date
<1> DEFINE n == Len(s)
           later == {i \in 1..n - 1 : s[i].date > s[n].date}
           Latest(i) == \A j \in later :
             s[i].date >= s[j].date /\ (s[i].date = s[j].date => i <= j)
<1>1. n \in Nat /\ n >= 1 /\ \A i \in 1..n : s[i].date \in Int
  OBVIOUS
<1>2. Selected(s) = IF later = {} THEN s[n] ELSE s[CHOOSE i \in later : Latest(i)]
  BY DEF Selected
<1>3. CASE later = {}
  <2>1. \A j \in 1..n : s[j].date <= s[n].date
    <3>1. ASSUME NEW j \in 1..n PROVE s[j].date <= s[n].date
      <4>1. j = n \/ j \in 1..n - 1
        BY <1>1
      <4>2. j \in 1..n - 1 => ~(s[j].date > s[n].date)
        BY <1>3
      <4> QED
        BY <1>1, <4>1, <4>2
    <3> QED
      BY <3>1
  <2>2. n \in 1..n /\ Selected(s) = s[n]
    BY <1>1, <1>2, <1>3
  <2> QED
    BY <2>1, <2>2
<1>4. CASE later # {}
  <2> DEFINE f == [i \in later |-> s[i].date]
  <2>1. IsFiniteSet(later) /\ later \in SUBSET (1..n)
    <3>1. IsFiniteSet(1..n - 1)
      BY <1>1, FS_Interval
    <3>2. later \in SUBSET (1..n - 1)
      OBVIOUS
    <3>3. 1..n - 1 \subseteq 1..n
      BY <1>1
    <3> HIDE DEF later, n
    <3> QED
      BY <3>1, <3>2, <3>3, FS_Subset
  <2>2. \A i \in later : i \in 1..n /\ i \in Nat /\ s[i].date \in Int /\ s[i].date > s[n].date
    BY <1>1, <2>1
  <2>3. f \in [later -> Int] /\ \A i \in later : f[i] = s[i].date
    BY <2>2
  <2> HIDE DEF f
  <2>4. PICK m \in later : \A j \in later : s[j].date <= s[m].date
    <3> HIDE DEF later
    <3>1. PICK m \in later : \A j \in later : f[j] <= f[m]
      BY <1>4, <2>1, <2>3, GreatestOf
    <3> QED
      BY <2>3, <3>1
  <2> DEFINE T == {i \in later : s[i].date = s[m].date}
  <2>5. PICK k \in T : \A i \in T : k <= i
    <3>1. T \in SUBSET Nat /\ m \in T
      BY <2>2
    <3> HIDE DEF T
    <3> QED BY <3>1, LeastOf
  <2>6. k \in later /\ Latest(k)
    <3>1. k \in later /\ s[k].date = s[m].date
      BY <2>5
    <3>2. ASSUME NEW j \in later
          PROVE  s[k].date >= s[j].date /\ (s[k].date = s[j].date => k <= j)
      <4>1. s[j].date <= s[m].date /\ s[j].date \in Int /\ s[m].date \in Int
        BY <2>2, <2>4
      <4>2. s[k].date = s[j].date => j \in T
        BY <3>1
      <4> HIDE DEF T, later
      <4> QED
        BY <2>5, <3>1, <4>1, <4>2
    <3> QED
      BY <3>1, <3>2
  <2> DEFINE i == CHOOSE i \in later : Latest(i)
  <2>7. i \in later /\ Latest(i)
    <3> HIDE DEF later, Latest
    <3> QED BY <2>6
  <2>8. Selected(s) = s[i]
    BY <1>2, <1>4
  <2> HIDE DEF i
  <2>9. ASSUME NEW j \in 1..n PROVE s[j].date <= s[i].date
    <3>1. s[i].date > s[n].date /\ s[i].date \in Int /\ s[j].date \in Int /\ s[n].date \in Int
      BY <1>1, <2>2, <2>7
    <3>2. CASE j \in later
      BY <2>7, <3>1, <3>2
    <3>3. CASE j \notin later
      <4>1. j = n \/ j \in 1..n - 1
        BY <1>1
      <4>2. j \in 1..n - 1 => ~(s[j].date > s[n].date)
        BY <3>3
      <4>3. s[j].date <= s[n].date
        BY <3>1, <4>1, <4>2
      <4> QED
        BY <3>1, <4>3
    <3> QED
      BY <3>2, <3>3
  <2> QED
    BY <2>2, <2>7, <2>8, <2>9
<1> QED
  BY <1>3, <1>4

\* Where a geometry may be added, the latest date does not fall, and a geometry
\* that alone has the latest date stays in use if the added one is older.
LEMMA SelectedGrows ==
  ASSUME NEW Geometries, \A g \in Geometries : g.date \in Int,
         NEW s \in Seq(Geometries), s # <<>>, NEW g \in Geometries
  PROVE  LET new == Append(s, g) IN
         /\ Selected(new).date >= Selected(s).date
         /\ g.date < Selected(s).date
              /\ Cardinality({i \in DOMAIN s : s[i].date = Selected(s).date}) = 1
            => Selected(new) = Selected(s)
<1> DEFINE new == Append(s, g)
           n == Len(s)
<1>1. /\ n \in Nat /\ new \in Seq(Geometries) /\ new # <<>> /\ Len(new) = n + 1
      /\ new[n + 1] = g /\ \A i \in 1..n : new[i] = s[i] /\ i \in 1..n + 1
      /\ DOMAIN s = 1..n /\ \A i \in 1..n : s[i].date \in Int
  OBVIOUS
<1>2. PICK i \in 1..n : Selected(s) = s[i] /\ \A j \in 1..n : s[j].date <= s[i].date
  BY SelectedIsLatest
<1>3. PICK k \in 1..n + 1 : Selected(new) = new[k] /\ \A j \in 1..n + 1 : new[j].date <= new[k].date
  <2> HIDE DEF new
  <2> QED BY <1>1, SelectedIsLatest
<1> HIDE DEF new, n
<1>4. Selected(new).date >= Selected(s).date
  <2>1. new[i].date <= new[k].date /\ new[i] = s[i]
    BY <1>1, <1>3
  <2>2. new[k].date \in Int
    BY <1>1, <1>3
  <2> QED
    BY <1>1, <1>2, <1>3, <2>1, <2>2
<1>5. ASSUME g.date < s[i].date, Cardinality({j \in DOMAIN s : s[j].date = s[i].date}) = 1
      PROVE  Selected(new) = Selected(s)
  <2> DEFINE D == {j \in DOMAIN s : s[j].date = s[i].date}
  <2>1. k \in 1..n
    <3>1. ASSUME k = n + 1 PROVE FALSE
      <4>1. new[i].date <= new[k].date /\ new[i] = s[i] /\ new[k] = g
        BY <1>1, <1>3, <3>1
      <4> QED
        BY <1>1, <1>5, <4>1
    <3> QED
      BY <1>1, <3>1
  <2>2. s[k].date = s[i].date
    <3>1. s[i].date <= s[k].date /\ s[k].date <= s[i].date
      BY <1>1, <1>2, <1>3, <2>1
    <3> QED
      BY <1>1, <2>1, <3>1
  <2>3. IsFiniteSet(D) /\ i \in D /\ k \in D
    <3>1. D \in SUBSET (1..n) /\ IsFiniteSet(1..n)
      BY <1>1, FS_Interval
    <3>2. i \in D /\ k \in D
      BY <1>1, <2>1, <2>2
    <3> HIDE DEF D
    <3> QED
      BY <3>1, <3>2, FS_Subset
  <2>4. i = k
    <3>1. Cardinality(D) = 1
      BY <1>5
    <3> HIDE DEF D
    <3>2. \E x : D = {x}
      BY <2>3, <3>1, FS_Singleton
    <3> QED
      BY <2>3, <3>2
  <2> QED
    BY <1>1, <1>2, <1>3, <2>1, <2>4
<1> QED
  BY <1>2, <1>4, <1>5 DEF new

\* The source in use: the first that is of GDACS, or else the first.
LEMMA SourceIsFirst ==
  ASSUME NEW Sources, NEW s \in Seq(Sources)
  PROVE  LET allowed == {i \in DOMAIN s : s[i].allowed}
             gdacs == {i \in allowed : s[i].gdacs}
         IN /\ allowed = {} => SourceURL(s) = NoURL
            /\ allowed # {} => \E i \in allowed :
                 /\ SourceURL(s) = s[i].url
                 /\ gdacs # {} => i \in gdacs /\ \A j \in gdacs : i <= j
<1> DEFINE allowed == {i \in DOMAIN s : s[i].allowed}
           gdacs == {i \in allowed : s[i].gdacs}
           of == IF gdacs = {} THEN allowed ELSE gdacs
           First(d) == CHOOSE i \in d : \A j \in d : i <= j
<1>1. SourceURL(s) = IF allowed = {} THEN NoURL ELSE s[First(of)].url
  BY DEF SourceURL
<1>2. ASSUME allowed # {} PROVE First(of) \in of /\ \A j \in of : First(of) <= j
  <2>1. of # {} /\ of \in SUBSET Nat
    BY <1>2
  <2>2. \E i \in of : \A j \in of : i <= j
    <3> HIDE DEF of
    <3> QED BY <2>1, LeastOf
  <2> HIDE DEF of
  <2> QED
    BY <2>2
<1>3. gdacs \subseteq allowed /\ of \subseteq allowed /\ (gdacs # {} => of = gdacs)
  OBVIOUS
<1> HIDE DEF of, First
<1>4. ASSUME allowed # {}
      PROVE  \E i \in allowed :
               /\ SourceURL(s) = s[i].url
               /\ gdacs # {} => i \in gdacs /\ \A j \in gdacs : i <= j
  <2> HIDE DEF allowed, gdacs
  <2> QED
    BY <1>1, <1>2, <1>3, <1>4
<1> QED
  BY <1>1, <1>4

\* Whether a URL is allowed, and whether it is one of GDACS, depends on the URL.
JudgedByURL(s) ==
  \A i, j \in DOMAIN s : s[i].url = s[j].url => s[i].allowed = s[j].allowed /\ s[i].gdacs = s[j].gdacs

LEMMA SourceStays ==
  ASSUME NEW Sources, \A x \in Sources : x.url # NoURL /\ x.allowed \in BOOLEAN /\ x.gdacs \in BOOLEAN,
         NEW s \in Seq(Sources), NEW x \in Sources, JudgedByURL(s),
         NEW i \in DOMAIN s, SourceURL(s) = s[i].url, s[i].gdacs
  PROVE  SourceURL(Append(s, x)) = SourceURL(s)
<1> DEFINE Allowed(t) == {j \in DOMAIN t : t[j].allowed}
           Gdacs(t) == {j \in Allowed(t) : t[j].gdacs}
           new == Append(s, x)
           n == Len(s)
<1>1. /\ n \in Nat /\ DOMAIN s = 1..n /\ new \in Seq(Sources) /\ DOMAIN new = 1..n + 1
      /\ \A j \in 1..n : new[j] = s[j] /\ j \in 1..n + 1 /\ s[j] \in Sources
      /\ \A j \in 1..n + 1 : j \notin 1..n => j = n + 1
  OBVIOUS
<1>2. Allowed(s) # {}
  BY <1>1, SourceIsFirst
<1>3. PICK k \in Allowed(s) :
        /\ SourceURL(s) = s[k].url
        /\ Gdacs(s) # {} => k \in Gdacs(s) /\ \A j \in Gdacs(s) : k <= j
  BY <1>2, SourceIsFirst
<1>4. k \in Gdacs(s) /\ k \in 1..n /\ \A j \in Gdacs(s) : k <= j
  <2>1. k \in Gdacs(s)
    BY <1>1, <1>3 DEF JudgedByURL
  <2> QED
    BY <1>1, <1>3, <2>1
<1> HIDE DEF new, n
<1>5. k \in Gdacs(new) /\ Allowed(new) # {}
  BY <1>1, <1>4
<1>6. PICK m \in Allowed(new) :
        /\ SourceURL(new) = new[m].url
        /\ m \in Gdacs(new) /\ \A j \in Gdacs(new) : m <= j
  BY <1>1, <1>5, SourceIsFirst
<1>7. m <= k /\ m \in 1..n + 1
  BY <1>1, <1>5, <1>6
<1>8. m \in 1..n
  BY <1>1, <1>4, <1>7
<1>9. m \in Gdacs(s)
  BY <1>1, <1>6, <1>8
<1>10. m = k
  BY <1>1, <1>4, <1>7, <1>8, <1>9
<1> QED
  BY <1>1, <1>3, <1>6, <1>8, <1>10 DEF new

\* What EONET may make of an event: at most one geometry and one source more, and
\* any status and categories.
Grows(raw, grown, Geometries, Sources) ==
  /\ \/ grown.geometries = raw.geometries
     \/ \E g \in Geometries : grown.geometries = Append(raw.geometries, g)
  /\ \/ grown.sources = raw.sources
     \/ \E x \in Sources : grown.sources = Append(raw.sources, x)

\* However an event grows by at most one geometry and one source, in whatever order
\* and with whatever dates, what is stored of it does not go back in time.
THEOREM NeverBackInTime ==
  ASSUME NEW Geometries, \A g \in Geometries : g.date \in Nat \cup {Undated},
         NEW Sources, \A x \in Sources : x.url # NoURL /\ x.allowed \in BOOLEAN /\ x.gdacs \in BOOLEAN,
         NEW raw, raw.geometries \in Seq(Geometries), raw.sources \in Seq(Sources),
         JudgedByURL(raw.sources),
         NEW grown, Grows(raw, grown, Geometries, Sources)
  PROVE  IsForward(raw, grown)
<1> DEFINE old == Normalize(raw)
           new == Normalize(grown)
           s == raw.geometries
           dates == {i \in DOMAIN s : s[i].date = old.date}
<1>0. \A g \in Geometries : g.date \in Int /\ g.date >= Undated
  BY DEF Undated
<1>a. Undated \in Int
  BY DEF Undated
<1>1. /\ old.date = IF s # <<>> THEN Selected(s).date ELSE Undated
      /\ old.source = SourceURL(raw.sources) /\ new.source = SourceURL(grown.sources)
      /\ s # <<>> => old.geometry = GeoJSON(Selected(s))
      /\ s # <<>> => (old.refused <=> Selected(s).type = "MultiPolygon")
      /\ new.date = IF grown.geometries # <<>> THEN Selected(grown.geometries).date ELSE Undated
      /\ grown.geometries # <<>> => new.geometry = GeoJSON(Selected(grown.geometries))
      /\ grown.geometries # <<>> => (new.refused <=> Selected(grown.geometries).type = "MultiPolygon")
      /\ old.refused \in BOOLEAN /\ new.refused \in BOOLEAN
  BY DEF Normalize
<1>2. ASSUME NEW t \in Seq(Geometries), t # <<>>
      PROVE  Selected(t).date \in Int /\ Selected(t).date >= Undated
  <2>1. PICK i \in 1..Len(t) : Selected(t) = t[i]
    BY <1>0, <1>2, SelectedIsLatest
  <2> QED
    BY <1>0, <2>1
<1> HIDE DEF old, new
<1> DEFINE Kept == Cardinality(dates) = 1 /\ old.date # Undated /\ new.date = old.date
                     /\ grown.geometries[Len(grown.geometries)].date < old.date
                   => new.geometry = old.geometry /\ new.refused = old.refused
<1>3. ASSUME grown.geometries = s PROVE new.date >= old.date /\ Kept
  <2>1. new.date = old.date /\ old.date \in Int
    BY <1>1, <1>2, <1>3, <1>a
  <2>2. old.date # Undated => new.geometry = old.geometry /\ new.refused = old.refused
    BY <1>1, <1>3
  <2>3. new.date >= old.date
    BY <2>1
  <2> QED
    BY <2>2, <2>3
<1>4. ASSUME NEW g \in Geometries, grown.geometries = Append(s, g)
      PROVE  new.date >= old.date /\ Kept
  <2>1. /\ Append(s, g) \in Seq(Geometries) /\ Append(s, g) # <<>>
        /\ Append(s, g)[Len(Append(s, g))] = g
    OBVIOUS
  <2>2. new.date = Selected(Append(s, g)).date /\ new.date \in Int /\ new.date >= Undated
    BY <1>1, <1>2, <1>4, <2>1
  <2>3. CASE s = <<>>
    <3>1. old.date = Undated
      BY <1>1, <2>3
    <3> QED
      BY <2>2, <3>1
  <2>4. CASE s # <<>>
    <3>1. old.date = Selected(s).date
      BY <1>1, <2>4
    <3>2. new.date >= old.date
      BY <1>0, <2>2, <2>4, <3>1, SelectedGrows
    <3>3. ASSUME Cardinality(dates) = 1, g.date < old.date
          PROVE  Selected(Append(s, g)) = Selected(s)
      BY <1>0, <2>4, <3>1, <3>3, SelectedGrows
    <3>4. Kept
      <4> SUFFICES ASSUME Cardinality(dates) = 1, g.date < old.date
                   PROVE  new.geometry = old.geometry /\ new.refused = old.refused
        BY <1>4, <2>1
      <4>1. Selected(Append(s, g)) = Selected(s)
        BY <3>3
      <4> QED
        BY <1>1, <1>4, <2>1, <2>4, <4>1
    <3> QED
      BY <3>2, <3>4
  <2> QED
    BY <2>3, <2>4
<1>5. ASSUME NEW i \in DOMAIN raw.sources, old.source = raw.sources[i].url, raw.sources[i].gdacs
      PROVE  new.source = old.source
  <2>1. CASE grown.sources = raw.sources
    BY <1>1, <2>1
  <2>2. ASSUME NEW x \in Sources, grown.sources = Append(raw.sources, x)
        PROVE  new.source = old.source
    <3>1. SourceURL(raw.sources) = raw.sources[i].url
      BY <1>1, <1>5
    <3>2. SourceURL(Append(raw.sources, x)) = SourceURL(raw.sources)
      BY <1>5, <3>1, SourceStays
    <3> QED
      BY <1>1, <2>2, <3>2
  <2> QED
    BY <2>1, <2>2 DEF Grows
<1>6. new.date >= old.date /\ Kept
  BY <1>3, <1>4 DEF Grows
<1> QED
  BY <1>5, <1>6 DEF IsForward, old, new

(***************************************************************************)
(* The place of a polygon: of any outline of integer positions, without a  *)
(* bound on its corners or its size.                                       *)
(***************************************************************************)
Positions == [x : Int, y : Int]

\* At least one element of a finite set has the least value of a function.
LEMMA LowestOf ==
  ASSUME NEW S, IsFiniteSet(S), S # {}, NEW f \in [S -> Int]
  PROVE  \E i \in S : \A j \in S : f[i] <= f[j]
<1> DEFINE g == [i \in S |-> 0 - f[i]]
<1>1. g \in [S -> Int]
  OBVIOUS
<1>2. PICK i \in S : \A j \in S : g[j] <= g[i]
  <2> HIDE DEF g
  <2> QED BY <1>1, GreatestOf
<1>3. ASSUME NEW j \in S PROVE f[i] <= f[j]
  <2>1. 0 - f[j] <= 0 - f[i] /\ f[i] \in Int /\ f[j] \in Int
    BY <1>2
  <2> QED
    BY <2>1
<1> QED
  BY <1>3

\* The bounds of a finite set of values are among them.
LEMMA MinMax ==
  ASSUME NEW S, IsFiniteSet(S), S # {}, NEW f \in [S -> Int],
         NEW values, \A i \in S : f[i] \in values, \A v \in values : \E i \in S : v = f[i]
  PROVE  /\ \E i \in S : Min(values) = f[i]
         /\ \E i \in S : Max(values) = f[i]
         /\ \A i \in S : Min(values) <= f[i] /\ f[i] <= Max(values)
         /\ Min(values) \in Int /\ Max(values) \in Int
<1>1. \E v \in values : \A w \in values : v <= w
  BY LowestOf
<1>2. \E v \in values : \A w \in values : v >= w
  <2>1. PICK i \in S : \A j \in S : f[j] <= f[i]
    BY GreatestOf
  <2>2. \A j \in S : f[j] \in Int
    OBVIOUS
  <2> QED
    BY <2>1, <2>2
<1>3. values \subseteq Int
  OBVIOUS
<1>4. Min(values) \in values /\ \A w \in values : Min(values) <= w
  BY <1>1 DEF Min
<1>5. Max(values) \in values /\ \A w \in values : Max(values) >= w
  BY <1>2 DEF Max
<1>6. \A i \in S : Min(values) <= f[i] /\ f[i] <= Max(values)
  BY <1>3, <1>4, <1>5
<1> QED
  BY <1>3, <1>4, <1>5, <1>6

\* A bounding box holds every position and touches some on each side.
LEMMA BoxOf ==
  ASSUME NEW p \in Seq(Positions), p # <<>>
  PROVE  LET b == BBox(p) IN
         /\ b.west \in Int /\ b.south \in Int /\ b.east \in Int /\ b.north \in Int
         /\ \A i \in DOMAIN p : /\ b.west <= p[i].x /\ p[i].x <= b.east
                                /\ b.south <= p[i].y /\ p[i].y <= b.north
         /\ \E i \in DOMAIN p : p[i].x = b.west
         /\ \E i \in DOMAIN p : p[i].x = b.east
         /\ \E i \in DOMAIN p : p[i].y = b.south
         /\ \E i \in DOMAIN p : p[i].y = b.north
<1> DEFINE D == DOMAIN p
           X == [i \in D |-> p[i].x]
           Y == [i \in D |-> p[i].y]
           xs == {p[i].x : i \in D}
           ys == {p[i].y : i \in D}
<1>1. IsFiniteSet(D) /\ D # {}
  <2>1. D = 1..Len(p) /\ Len(p) \in Nat
    OBVIOUS
  <2>2. Len(p) # 0
    OBVIOUS
  <2>3. IsFiniteSet(1..Len(p)) /\ 1 \in 1..Len(p)
    BY <2>1, <2>2, FS_Interval
  <2> QED
    BY <2>1, <2>3
<1>2. \A i \in D : p[i].x \in Int /\ p[i].y \in Int
  <2>1. \A i \in D : p[i] \in Positions
    OBVIOUS
  <2> QED
    BY <2>1 DEF Positions
<1>3. X \in [D -> Int] /\ (\A i \in D : X[i] = p[i].x /\ X[i] \in xs) /\ \A v \in xs : \E i \in D : v = X[i]
  BY <1>2
<1>4. Y \in [D -> Int] /\ (\A i \in D : Y[i] = p[i].y /\ Y[i] \in ys) /\ \A v \in ys : \E i \in D : v = Y[i]
  BY <1>2
<1>5. BBox(p) = [west |-> Min(xs), south |-> Min(ys), east |-> Max(xs), north |-> Max(ys)]
  BY DEF BBox
<1> HIDE DEF D, X, Y, xs, ys
<1>6. /\ Min(xs) \in Int /\ Max(xs) \in Int
      /\ \A i \in D : Min(xs) <= X[i] /\ X[i] <= Max(xs)
      /\ \E i \in D : Min(xs) = X[i]
      /\ \E i \in D : Max(xs) = X[i]
  BY <1>1, <1>3, MinMax
<1>7. /\ Min(ys) \in Int /\ Max(ys) \in Int
      /\ \A i \in D : Min(ys) <= Y[i] /\ Y[i] <= Max(ys)
      /\ \E i \in D : Min(ys) = Y[i]
      /\ \E i \in D : Max(ys) = Y[i]
  BY <1>1, <1>4, MinMax
<1>8. /\ \A i \in D : Min(xs) <= p[i].x /\ p[i].x <= Max(xs)
      /\ \A i \in D : Min(ys) <= p[i].y /\ p[i].y <= Max(ys)
      /\ \E i \in D : p[i].x = Min(xs)
      /\ \E i \in D : p[i].x = Max(xs)
      /\ \E i \in D : p[i].y = Min(ys)
      /\ \E i \in D : p[i].y = Max(ys)
  <2>1. (\A i \in D : X[i] = p[i].x) /\ (\A i \in D : Y[i] = p[i].y)
    BY <1>3, <1>4
  <2>2. /\ \A i \in D : Min(xs) <= X[i] /\ X[i] <= Max(xs)
        /\ \E i \in D : Min(xs) = X[i]
        /\ \E i \in D : Max(xs) = X[i]
    BY <1>6
  <2>3. /\ \A i \in D : Min(ys) <= Y[i] /\ Y[i] <= Max(ys)
        /\ \E i \in D : Min(ys) = Y[i]
        /\ \E i \in D : Max(ys) = Y[i]
    BY <1>7
  <2>4. /\ \A i \in D : Min(xs) <= p[i].x /\ p[i].x <= Max(xs)
        /\ \E i \in D : p[i].x = Min(xs)
        /\ \E i \in D : p[i].x = Max(xs)
    BY <2>1, <2>2
  <2>5. /\ \A i \in D : Min(ys) <= p[i].y /\ p[i].y <= Max(ys)
        /\ \E i \in D : p[i].y = Min(ys)
        /\ \E i \in D : p[i].y = Max(ys)
    BY <2>1, <2>3
  <2> QED
    BY <2>4, <2>5
<1> QED
  BY <1>5, <1>6, <1>7, <1>8 DEF D

\* The arithmetic of rounding a quotient down, and of a positive factor.
LEMMA Quotient ==
  ASSUME NEW a \in Int, NEW d \in Int, d > 0
  PROVE  a \div d \in Int /\ d * (a \div d) <= a /\ a < d * (a \div d) + d
OBVIOUS

LEMMA Product ==
  ASSUME NEW a \in Int, NEW b \in Int, NEW c \in Int, c >= 0, a <= b
  PROVE  c * a <= c * b
OBVIOUS

LEMMA Cancelled ==
  ASSUME NEW a \in Int, NEW b \in Int, NEW c \in Int, c > 0, c * a < c * b
  PROVE  a < b
OBVIOUS

\* Where a line meets an edge is between its ends, rounded down too.
LEMMA BetweenTheEnds ==
  ASSUME NEW l \in Int, NEW h \in Int, NEW d \in Int, d > 0, NEW m \in Int, 0 <= m, m <= 2 * d,
         NEW q, q = (m * (h - l) * 60) \div d
  PROVE  q \in Int /\ \/ 0 <= q /\ q <= 120 * (h - l)
                      \/ 120 * (h - l) <= q /\ q <= 0
<1> DEFINE e == h - l
           a == m * e * 60
<1>1. e \in Int /\ m * e \in Int /\ a \in Int
  OBVIOUS
<1>2. q \in Int /\ d * q <= a /\ a < d * q + d
  <2>1. q = a \div d
    OBVIOUS
  <2> HIDE DEF a, e
  <2> QED
    BY <1>1, <2>1, Quotient
<1>3. CASE e >= 0
  <2>1. 0 <= m * e /\ m * e <= (2 * d) * e
    <3> HIDE DEF e
    <3>1. e * 0 <= e * m /\ e * m <= e * (2 * d)
      BY <1>1, <1>3, Product
    <3> QED
      BY <1>1, <3>1
  <2>2. 0 <= a /\ a <= d * (120 * e)
    <3> HIDE DEF e
    <3> QED BY <1>1, <2>1
  <2> HIDE DEF a, e
  <2>3. d * q < d * (120 * e + 1) /\ d * (0 - 1) < d * q
    BY <1>1, <1>2, <2>2
  <2>4. q < 120 * e + 1 /\ 0 - 1 < q
    BY <1>1, <1>2, <2>3, Cancelled
  <2>5. 0 <= q /\ q <= 120 * e
    BY <1>1, <1>2, <2>4
  <2> QED
    BY <1>2, <2>5 DEF e
<1>4. CASE e < 0
  <2>1. m * e <= 0 /\ (2 * d) * e <= m * e
    <3> HIDE DEF e
    <3> DEFINE f == 0 - e
    <3>1. f \in Int /\ f >= 0
      BY <1>1, <1>4
    <3>2. f * 0 <= f * m /\ f * m <= f * (2 * d)
      <4> HIDE DEF f
      <4> QED BY <3>1, Product
    <3> QED
      BY <1>1, <3>2
  <2>2. a <= 0 /\ d * (120 * e) <= a
    <3> HIDE DEF e
    <3> QED BY <1>1, <2>1
  <2> HIDE DEF a, e
  <2>3. d * q < d * 1 /\ d * (120 * e - 1) < d * q
    BY <1>1, <1>2, <2>2
  <2>4. q < 1 /\ 120 * e - 1 < q
    BY <1>1, <1>2, <2>3, Cancelled
  <2>5. 120 * e <= q /\ q <= 0
    BY <1>1, <1>2, <2>4
  <2> QED
    BY <1>2, <2>5 DEF e
<1> QED
  BY <1>1, <1>3, <1>4

\* The corner after corner i, the first after the last.
Following(p, i) == IF i = Len(p) THEN 1 ELSE i + 1
IsBelow(p, middle, i) == 2 * p[i].y <= middle

\* The domain of Crossings, and where they are.
LEMMA CrossingsOf ==
  ASSUME NEW p \in Seq(Positions), p # <<>>, NEW middle \in Int,
         NEW at, at = Crossings(p, middle)
  PROVE  /\ DOMAIN at = {i \in DOMAIN p : IsBelow(p, middle, i) # IsBelow(p, middle, Following(p, i))}
         /\ at \in [DOMAIN at -> Int]
         /\ \A i \in DOMAIN at : 120 * BBox(p).west <= at[i] /\ at[i] <= 120 * BBox(p).east
<1> DEFINE After(i) == p[Following(p, i)]
           Low(i) == IF p[i].y < After(i).y THEN p[i] ELSE After(i)
           High(i) == IF p[i].y < After(i).y THEN After(i) ELSE p[i]
           X(i) == 120 * Low(i).x + ((middle - 2 * Low(i).y) * (High(i).x - Low(i).x) * 60)
                                       \div (High(i).y - Low(i).y)
           D == {i \in DOMAIN p : IsBelow(p, middle, i) # IsBelow(p, middle, Following(p, i))}
<1>1. Scale \div 2 = 120 /\ Scale \div 4 = 60
  BY DEF Scale
<1>2. at = [i \in D |-> X(i)]
  BY <1>1, ZenonT(60) DEF Crossings, Following, IsBelow
<1>3. ASSUME NEW i \in D
      PROVE  X(i) \in Int /\ 120 * BBox(p).west <= X(i) /\ X(i) <= 120 * BBox(p).east
  <2>1. i \in DOMAIN p /\ Following(p, i) \in DOMAIN p
    <3>1. DOMAIN p = 1..Len(p) /\ Len(p) \in Nat /\ i \in 1..Len(p)
      OBVIOUS
    <3>2. Following(p, i) \in 1..Len(p)
      BY <3>1 DEF Following
    <3> QED
      BY <3>1, <3>2
  <2>2. \A j \in DOMAIN p : p[j].x \in Int /\ p[j].y \in Int
    <3>1. \A j \in DOMAIN p : p[j] \in Positions
      OBVIOUS
    <3> QED
      BY <3>1 DEF Positions
  <2>3. \A j \in DOMAIN p : BBox(p).west <= p[j].x /\ p[j].x <= BBox(p).east
    BY BoxOf
  <2>4. BBox(p).west \in Int /\ BBox(p).east \in Int
    BY BoxOf
  <2> DEFINE l == Low(i).x
             h == High(i).x
             d == High(i).y - Low(i).y
             m == middle - 2 * Low(i).y
             q == (m * (h - l) * 60) \div d
  <2>5. /\ l \in Int /\ h \in Int /\ BBox(p).west <= l /\ l <= BBox(p).east
        /\ BBox(p).west <= h /\ h <= BBox(p).east
    BY <2>1, <2>2, <2>3
  <2>6. d \in Int /\ d > 0 /\ m \in Int /\ 0 <= m /\ m <= 2 * d
    <3> DEFINE ly == Low(i).y
               hy == High(i).y
    <3>1. ly \in Int /\ hy \in Int /\ 2 * ly <= middle /\ ~(2 * hy <= middle)
      <4>1. p[i].y \in Int /\ After(i).y \in Int /\ (2 * p[i].y <= middle) # (2 * After(i).y <= middle)
        BY <2>1, <2>2 DEF IsBelow
      <4> QED
        BY <4>1
    <3> HIDE DEF ly, hy
    <3>2. hy - ly \in Int /\ hy - ly > 0 /\ middle - 2 * ly \in Int
          /\ 0 <= middle - 2 * ly /\ middle - 2 * ly <= 2 * (hy - ly)
      BY <3>1
    <3> QED
      BY <3>2 DEF ly, hy
  <2>7. X(i) = 120 * l + q
    OBVIOUS
  <2> HIDE DEF l, h, d, m
  <2>8. q \in Int /\ \/ 0 <= q /\ q <= 120 * (h - l)
                     \/ 120 * (h - l) <= q /\ q <= 0
    BY <2>5, <2>6, BetweenTheEnds
  <2> HIDE DEF q, X
  <2> DEFINE w == BBox(p).west
             e == BBox(p).east
  <2>9. w \in Int /\ e \in Int /\ w <= l /\ l <= e /\ w <= h /\ h <= e
    BY <2>4, <2>5
  <2> HIDE DEF w, e
  <2>10. 120 * l + q \in Int /\ 120 * w <= 120 * l + q /\ 120 * l + q <= 120 * e
    BY <2>5, <2>8, <2>9
  <2> QED
    BY <2>7, <2>10 DEF w, e
<1>4. DOMAIN at = D /\ \A i \in D : at[i] = X(i)
  BY <1>2
<1> HIDE DEF X
<1>5. at \in [D -> Int]
  BY <1>2, <1>3
<1> QED
  BY <1>3, <1>4, <1>5

\* The order of sort.Float64s on the crossings.
Before(at, j, i) == at[j] < at[i] \/ (at[j] = at[i] /\ j < i)

\* Of the crossings in any set one comes first.
LEMMA FirstOf ==
  ASSUME NEW D \in SUBSET Int, IsFiniteSet(D), NEW at \in [D -> Int],
         NEW T \in SUBSET D, T # {}
  PROVE  \E i \in T : \A j \in T : j = i \/ Before(at, i, j)
<1> DEFINE f == [i \in T |-> at[i]]
<1>1. f \in [T -> Int] /\ IsFiniteSet(T) /\ \A i \in T : f[i] = at[i]
  BY FS_Subset
<1>2. PICK m \in T : \A j \in T : f[m] <= f[j]
  <2> HIDE DEF f
  <2> QED BY <1>1, LowestOf
<1> DEFINE U == {i \in T : at[i] = at[m]}
           g == [i \in U |-> i]
<1>3. U \in SUBSET T /\ m \in U /\ IsFiniteSet(U)
  BY <1>1, FS_Subset
<1>4. g \in [U -> Int] /\ \A i \in U : g[i] = i
  BY <1>3
<1>5. PICK i \in U : \A j \in U : g[i] <= g[j]
  <2> HIDE DEF g, U
  <2> QED BY <1>3, <1>4, LowestOf
<1>6. ASSUME NEW j \in T, j # i PROVE Before(at, i, j)
  <2>1. at[i] = at[m] /\ i \in T /\ at[i] \in Int /\ at[j] \in Int /\ i \in Int /\ j \in Int
    BY <1>3
  <2>2. at[m] <= at[j]
    BY <1>1, <1>2
  <2>3. at[j] = at[m] => i <= j
    BY <1>4, <1>5
  <2> HIDE DEF f, g, U
  <2> QED
    BY <1>6, <2>1, <2>2, <2>3 DEF Before
<1> QED
  BY <1>3, <1>6

\* Two crossings bound a span.
LEMMA SpanExists ==
  ASSUME NEW D \in SUBSET Int, IsFiniteSet(D), NEW at \in [D -> Int],
         NEW i \in D, NEW j \in D, i # j
  PROVE  Spans(at) # {}
<1> DEFINE Of(k) == {l \in D : Before(at, l, k)}
<1>1. DOMAIN at = D
  OBVIOUS
<1>2. \A k \in D : LeftOf(at, k) = Of(k)
  BY <1>1 DEF LeftOf, Before
<1>3. PICK a \in D : \A l \in D : l = a \/ Before(at, a, l)
  BY FirstOf
<1>4. PICK b \in D \ {a} : \A l \in D \ {a} : l = b \/ Before(at, b, l)
  <2>1. D \ {a} \in SUBSET D /\ D \ {a} # {}
    OBVIOUS
  <2> QED
    BY <2>1, FirstOf
<1>5. \A k, l \in D : ~(Before(at, k, l) /\ Before(at, l, k)) /\ ~Before(at, k, k)
  <2> SUFFICES ASSUME NEW k \in D, NEW l \in D
               PROVE  ~(Before(at, k, l) /\ Before(at, l, k)) /\ ~Before(at, k, k)
    OBVIOUS
  <2>1. at[k] \in Int /\ at[l] \in Int /\ k \in Int /\ l \in Int
    OBVIOUS
  <2> QED
    BY <2>1 DEF Before
<1>6. Of(a) = {}
  BY <1>3, <1>5
<1>7. Of(b) = {a}
  BY <1>3, <1>4, <1>5
<1>8. Cardinality(LeftOf(at, a)) % 2 = 0
  BY <1>2, <1>6, FS_EmptySet
<1>9. LeftOf(at, b) = LeftOf(at, a) \cup {a}
  BY <1>2, <1>4, <1>6, <1>7
<1>10. <<a, b>> \in D \X D
  BY <1>4
<1> HIDE DEF Of
<1>11. <<a, b>> \in Spans(at)
  BY <1>1, <1>8, <1>9, <1>10 DEF Spans
<1> QED
  BY <1>11

\* One of the spans is chosen.
LEMMA BestIsASpan ==
  ASSUME NEW D \in SUBSET Int, IsFiniteSet(D), NEW at \in [D -> Int], Spans(at) # {}
  PROVE  BestSpan(at) \in Spans(at)
<1> DEFINE S == Spans(at)
           Width(s) == at[s[2]] - at[s[1]]
           w == [s \in S |-> Width(s)]
<1>1. S \subseteq D \X D
  BY DEF Spans
<1>2. IsFiniteSet(S)
  <2>1. IsFiniteSet(D \X D)
    BY FS_Product
  <2> QED
    BY <1>1, <2>1, FS_Subset
<1>3. \A s \in S : s[1] \in D /\ s[2] \in D
  BY <1>1
<1>4. ASSUME NEW s \in S PROVE at[s[1]] \in Int /\ at[s[2]] \in Int /\ Width(s) \in Int
  <2>1. s[1] \in D /\ s[2] \in D
    BY <1>3
  <2>2. at[s[1]] \in Int /\ at[s[2]] \in Int
    BY <2>1
  <2> QED
    BY <2>2
<1>5. w \in [S -> Int] /\ \A s \in S : w[s] = Width(s)
  BY <1>4
<1>6. PICK m \in S : \A t \in S : w[t] <= w[m]
  <2>1. w \in [S -> Int]
    BY <1>5
  <2>2. S # {}
    OBVIOUS
  <2> HIDE DEF w, S
  <2> QED BY <1>2, <2>1, <2>2, GreatestOf
<1> DEFINE U == {s \in S : Width(s) = Width(m)}
           left == [s \in U |-> at[s[1]]]
<1>7. U \in SUBSET S /\ m \in U /\ IsFiniteSet(U)
  BY <1>2, FS_Subset
<1>8. left \in [U -> Int] /\ \A s \in U : left[s] = at[s[1]]
  BY <1>4, <1>7
<1>9. PICK s \in U : \A t \in U : left[s] <= left[t]
  <2> HIDE DEF left, U
  <2> QED BY <1>7, <1>8, LowestOf
<1>10. ASSUME NEW t \in S PROVE Width(s) > Width(t) \/ (Width(s) = Width(t) /\ at[s[1]] <= at[t[1]])
  <2>1. Width(t) <= Width(m) /\ Width(s) = Width(m)
    BY <1>5, <1>6
  <2>2. Width(t) = Width(m) => at[s[1]] <= at[t[1]]
    BY <1>8, <1>9
  <2>3. Width(t) \in Int /\ Width(m) \in Int
    BY <1>4
  <2> HIDE DEF Width, S, U, left, w
  <2> QED
    BY <2>1, <2>2, <2>3
<1> QED
  <2>1. s \in S
    BY <1>7
  <2> HIDE DEF U, left, w
  <2> QED
    BY <1>10, <2>1 DEF BestSpan

\* An odd number of crossings is left of the middle of a span.
LEMMA MiddleOfSpan ==
  ASSUME NEW D \in SUBSET Int, IsFiniteSet(D), NEW at \in [D -> Int], NEW s \in Spans(at)
  PROVE  /\ s[1] \in D /\ s[2] \in D
         /\ \/ at[s[1]] = at[s[2]]
            \/ Cardinality({k \in D : 2 * at[k] < at[s[1]] + at[s[2]]}) % 2 = 1
<1> DEFINE a == s[1]
           b == s[2]
           T == {k \in D : 2 * at[k] < at[a] + at[b]}
<1>1. /\ a \in D /\ b \in D
      /\ Cardinality(LeftOf(at, a)) % 2 = 0 /\ LeftOf(at, b) = LeftOf(at, a) \cup {a}
  BY DEF Spans
<1>2. \A k, l \in D : k \in LeftOf(at, l) <=> Before(at, k, l)
  BY DEF LeftOf, Before
<1>3. LeftOf(at, a) \in SUBSET D /\ LeftOf(at, b) \in SUBSET D
  BY DEF LeftOf
<1>4. \A k \in D : at[k] \in Int /\ k \in Int
  OBVIOUS
<1> HIDE DEF a, b
<1>5. a \notin LeftOf(at, a)
  BY <1>1, <1>2, <1>4 DEF Before
<1>6. at[a] <= at[b]
  BY <1>1, <1>2, <1>4 DEF Before
<1>7. ASSUME at[a] < at[b]
      PROVE  T = LeftOf(at, a) \cup {a}
  <2>1. ASSUME NEW k \in T PROVE k \in LeftOf(at, a) \cup {a}
    <3>1. k \in D /\ at[k] < at[b]
      BY <1>1, <1>4, <1>7
    <3> QED
      BY <1>1, <1>2, <3>1 DEF Before
  <2>2. ASSUME NEW k \in LeftOf(at, a) \cup {a} PROVE k \in T
    <3>1. k \in D /\ at[k] <= at[a]
      <4>1. CASE k = a
        BY <1>1, <1>4, <4>1
      <4>2. CASE k \in LeftOf(at, a)
        <5>1. k \in D /\ Before(at, k, a)
          BY <1>1, <1>2, <1>3, <4>2
        <5> QED
          BY <1>1, <1>4, <5>1 DEF Before
      <4> QED
        BY <4>1, <4>2
    <3> QED
      BY <1>1, <1>4, <1>7, <3>1
  <2> QED
    BY <2>1, <2>2
<1>8. ASSUME at[a] < at[b] PROVE Cardinality(T) % 2 = 1
  <2>1. IsFiniteSet(LeftOf(at, a))
    BY <1>3, FS_Subset
  <2>2. Cardinality(LeftOf(at, a)) \in Nat
    BY <2>1, FS_CardinalityType
  <2>3. Cardinality(LeftOf(at, a) \cup {a}) = Cardinality(LeftOf(at, a)) + 1
    BY <1>5, <2>1, FS_AddElement
  <2> HIDE DEF T
  <2>4. Cardinality(T) = Cardinality(LeftOf(at, a)) + 1
    BY <1>7, <1>8, <2>3
  <2> QED
    BY <1>1, <2>2, <2>4
<1>9. at[a] = at[b] \/ Cardinality(T) % 2 = 1
  <2>1. at[a] \in Int /\ at[b] \in Int
    BY <1>1, <1>4
  <2> HIDE DEF T
  <2> QED
    BY <1>6, <1>8, <2>1
<1> QED
  BY <1>1, <1>9 DEF a, b

\* Going round a ring one leaves any part of it.
LEMMA GoesRound ==
  ASSUME NEW p \in Seq(Positions),
         NEW B \in SUBSET (1..Len(p)), B # {}, B # 1..Len(p)
  PROVE  \E i \in B : Following(p, i) \notin B
<1> DEFINE n == Len(p)
<1>1. SUFFICES ASSUME \A i \in B : Following(p, i) \in B PROVE FALSE
  OBVIOUS
<1>2. n \in Nat
  OBVIOUS
<1>3. PICK a \in B : TRUE
  OBVIOUS
<1>4. a \in 1..n /\ a \in Int /\ n - a \in Nat
  BY <1>2
<1>5. \A i \in B : i # n => i + 1 \in B
  BY <1>1 DEF Following
<1> HIDE DEF n
<1>6. n \in B
  <2> DEFINE S == {d \in 0..n - a : a + d \in B}
  <2>1. 0 \in S
    BY <1>3, <1>4
  <2>2. ASSUME NEW d \in 0..n - a - 1, d \in S PROVE d + 1 \in S
    <3>1. d \in Int /\ 0 <= d /\ d <= n - a - 1
      BY <1>4
    <3>2. a + d # n /\ d + 1 \in 0..n - a /\ a + (d + 1) = (a + d) + 1
      BY <1>2, <1>4, <3>1
    <3>3. a + (d + 1) \in B
      BY <1>5, <2>2, <3>2
    <3> QED
      BY <3>2, <3>3
  <2>3. \A d \in 0..n - a : d \in S
    <3> HIDE DEF S
    <3> QED BY <1>4, <2>1, <2>2, Upwards
  <2>4. n - a \in 0..n - a /\ a + (n - a) = n
    BY <1>2, <1>4
  <2> QED
    BY <2>3, <2>4
<1>7. 1 \in B
  BY <1>1, <1>6 DEF Following, n
<1>8. n - 1 \in Nat
  BY <1>2, <1>4
<1>9. \A d \in 0..n - 1 : 1 + d \in B
  <2> DEFINE S == {d \in 0..n - 1 : 1 + d \in B}
  <2>1. 0 \in S
    BY <1>7, <1>8
  <2>2. ASSUME NEW d \in 0..n - 1 - 1, d \in S PROVE d + 1 \in S
    <3>1. d \in Int /\ 0 <= d /\ d <= n - 2
      BY <1>2
    <3>2. 1 + d # n /\ d + 1 \in 0..n - 1 /\ 1 + (d + 1) = (1 + d) + 1
      BY <1>2, <3>1
    <3>3. 1 + (d + 1) \in B
      BY <1>5, <2>2, <3>2
    <3> QED
      BY <3>2, <3>3
  <2>3. \A d \in 0..n - 1 : d \in S
    <3> HIDE DEF S
    <3> QED BY <1>8, <2>1, <2>2, Upwards
  <2> QED
    BY <2>3
<1>10. ASSUME NEW k \in 1..n PROVE k \in B
  <2>1. k - 1 \in 0..n - 1 /\ 1 + (k - 1) = k
    BY <1>2, <1>10
  <2> QED
    BY <1>9, <2>1
<1> QED
  BY <1>10 DEF n

\* The line half way up an outline that is not flat crosses it at least twice.
LEMMA CrossedTwice ==
  ASSUME NEW p \in Seq(Positions), p # <<>>, BBox(p).south < BBox(p).north,
         NEW at, at = MiddleCrossings(p)
  PROVE  \E i, j \in DOMAIN at : i # j
<1> DEFINE middle == BBox(p).south + BBox(p).north
           B == {i \in 1..Len(p) : IsBelow(p, middle, i)}
           C == {i \in 1..Len(p) : ~IsBelow(p, middle, i)}
<1>1. BBox(p).south \in Int /\ BBox(p).north \in Int
  BY BoxOf
<1>2. DOMAIN p = 1..Len(p) /\ Len(p) \in Nat
  OBVIOUS
<1>3. DOMAIN at = {i \in 1..Len(p) : IsBelow(p, middle, i) # IsBelow(p, middle, Following(p, i))}
  <2>1. middle \in Int /\ at = Crossings(p, middle)
    BY <1>1 DEF MiddleCrossings
  <2> HIDE DEF middle
  <2> QED
    BY <1>2, <2>1, CrossingsOf
<1>4. \E i \in DOMAIN p : p[i].y = BBox(p).south
  BY BoxOf
<1>5. \E i \in DOMAIN p : p[i].y = BBox(p).north
  BY BoxOf
<1>6. B # {}
  BY <1>1, <1>2, <1>4 DEF IsBelow
<1>7. C # {}
  BY <1>1, <1>2, <1>5 DEF IsBelow
<1>8. ASSUME NEW i \in 1..Len(p) PROVE Following(p, i) \in 1..Len(p)
  <2> DEFINE n == Len(p)
  <2>1. i \in Int /\ 1 <= i /\ i <= n /\ n \in Int
    BY <1>2
  <2> HIDE DEF n, B, C, middle
  <2>2. (IF i = n THEN 1 ELSE i + 1) \in 1..n
    BY <2>1
  <2> QED
    BY <2>2 DEF Following, n
<1> HIDE DEF middle
<1>9. B \in SUBSET (1..Len(p)) /\ C \in SUBSET (1..Len(p)) /\ B # 1..Len(p) /\ C # 1..Len(p)
  BY <1>6, <1>7
<1>10. PICK i \in B : Following(p, i) \notin B
  <2> HIDE DEF B
  <2> QED BY <1>6, <1>9, GoesRound
<1>11. PICK j \in C : Following(p, j) \notin C
  <2> HIDE DEF C
  <2> QED BY <1>7, <1>9, GoesRound
<1>12. i \in DOMAIN at /\ j \in DOMAIN at /\ i # j
  BY <1>3, <1>8, <1>10, <1>11
<1> QED
  BY <1>12

\* The facts about the crossings of the line half way up that the theorems use.
LEMMA MiddleCrossingsOf ==
  ASSUME NEW p \in Seq(Positions), p # <<>>, NEW at, at = MiddleCrossings(p)
  PROVE  /\ DOMAIN at \in SUBSET Int /\ IsFiniteSet(DOMAIN at) /\ at \in [DOMAIN at -> Int]
         /\ \A i \in DOMAIN at : 120 * BBox(p).west <= at[i] /\ at[i] <= 120 * BBox(p).east
<1> DEFINE middle == BBox(p).south + BBox(p).north
<1>1. DOMAIN p = 1..Len(p) /\ Len(p) \in Nat
  OBVIOUS
<1>2. middle \in Int /\ at = Crossings(p, middle)
  BY BoxOf DEF MiddleCrossings
<1> HIDE DEF middle
<1>3. /\ DOMAIN at = {i \in DOMAIN p : IsBelow(p, middle, i) # IsBelow(p, middle, Following(p, i))}
      /\ at \in [DOMAIN at -> Int]
      /\ \A i \in DOMAIN at : 120 * BBox(p).west <= at[i] /\ at[i] <= 120 * BBox(p).east
  BY <1>2, CrossingsOf
<1>4. DOMAIN at \in SUBSET (1..Len(p)) /\ 1..Len(p) \in SUBSET Int
  BY <1>1, <1>3
<1>5. IsFiniteSet(1..Len(p))
  BY <1>1, FS_Interval
<1>6. IsFiniteSet(DOMAIN at)
  BY <1>4, <1>5, FS_Subset
<1> QED
  BY <1>3, <1>4, <1>6

\* representativePoint: the mark of an outline that is not flat stands between its
\* edges. Half way up the box the outline is crossed (CrossedTwice), so there is a span
\* (SpanExists), and an odd number of crossings is left of its middle (MiddleOfSpan).
THEOREM MarkedInside ==
  ASSUME NEW p \in Seq(Positions), p # <<>>
  PROVE  MarkedBetweenEdges(p)
<1> SUFFICES ASSUME BBox(p).south < BBox(p).north
             PROVE  LET at == MiddleCrossings(p)
                        mark == RepresentativePoint(p)
                    IN \/ \E i \in DOMAIN at : 2 * at[i] = mark.x
                       \/ Cardinality({i \in DOMAIN at : 2 * at[i] < mark.x}) % 2 = 1
  BY DEF MarkedBetweenEdges
<1> DEFINE at == MiddleCrossings(p)
           D == DOMAIN at
           best == BestSpan(at)
           mark == RepresentativePoint(p)
<1>1. D \in SUBSET Int /\ IsFiniteSet(D) /\ at \in [D -> Int]
  BY MiddleCrossingsOf
<1>2. \E i, j \in D : i # j
  BY CrossedTwice
<1> HIDE DEF at, D
<1>3. Spans(at) # {}
  BY <1>1, <1>2, SpanExists
<1>4. best \in Spans(at)
  BY <1>1, <1>3, BestIsASpan
<1>5. mark.x = at[best[1]] + at[best[2]]
  BY <1>3 DEF RepresentativePoint, at
<1> HIDE DEF best, mark
<1>6. /\ best[1] \in D /\ best[2] \in D
      /\ \/ at[best[1]] = at[best[2]]
         \/ Cardinality({k \in D : 2 * at[k] < at[best[1]] + at[best[2]]}) % 2 = 1
  BY <1>1, <1>4, MiddleOfSpan
<1>7. CASE at[best[1]] = at[best[2]]
  <2>1. at[best[1]] \in Int
    BY <1>1, <1>6
  <2>2. 2 * at[best[1]] = mark.x
    BY <1>5, <1>7, <2>1
  <2> QED
    BY <1>6, <2>2 DEF at, D, mark
<1>8. CASE Cardinality({k \in D : 2 * at[k] < at[best[1]] + at[best[2]]}) % 2 = 1
  BY <1>5, <1>8 DEF at, D, mark
<1> QED
  BY <1>6, <1>7, <1>8

\* A country's box.
IsBox(c) == c.west \in Int /\ c.south \in Int /\ c.east \in Int /\ c.north \in Int

\* The mark is inside the box of the outline.
LEMMA MarkInBox ==
  ASSUME NEW p \in Seq(Positions), p # <<>>, NEW mark, mark = RepresentativePoint(p)
  PROVE  LET b == BBox(p) IN
         /\ mark.x \in Int /\ 240 * b.west <= mark.x /\ mark.x <= 240 * b.east
         /\ mark.y \in Int /\ 240 * b.south <= mark.y /\ mark.y <= 240 * b.north
<1> DEFINE w == BBox(p).west
           s == BBox(p).south
           e == BBox(p).east
           n == BBox(p).north
           at == MiddleCrossings(p)
           best == BestSpan(at)
<1>1. w \in Int /\ s \in Int /\ e \in Int /\ n \in Int
  BY BoxOf
<1>2. w <= e /\ s <= n
  <2>1. PICK i \in DOMAIN p : p[i].x = w
    BY BoxOf
  <2>2. PICK j \in DOMAIN p : p[j].y = s
    BY BoxOf
  <2>3. p[i].x <= e /\ p[j].y <= n
    BY BoxOf
  <2> QED
    BY <2>1, <2>2, <2>3
<1>3. Scale \div 2 = 120
  BY DEF Scale
<1>4. MiddleOfBox(p) = [x |-> (w + e) * 120, y |-> (s + n) * 120]
  BY <1>3 DEF MiddleOfBox
<1>5. /\ DOMAIN at \in SUBSET Int /\ IsFiniteSet(DOMAIN at) /\ at \in [DOMAIN at -> Int]
      /\ \A i \in DOMAIN at : 120 * w <= at[i] /\ at[i] <= 120 * e
  BY MiddleCrossingsOf
<1> HIDE DEF w, s, e, n, at, best
<1>6. 240 * s <= (s + n) * 120 /\ (s + n) * 120 <= 240 * n /\ (s + n) * 120 \in Int
  BY <1>1, <1>2
<1>7. 240 * w <= (w + e) * 120 /\ (w + e) * 120 <= 240 * e /\ (w + e) * 120 \in Int
  BY <1>1, <1>2
<1>8. mark.y = (s + n) * 120
  BY <1>4 DEF RepresentativePoint
<1>9. mark.x \in Int /\ 240 * w <= mark.x /\ mark.x <= 240 * e
  <2>1. CASE Spans(at) = {}
    <3>1. mark.x = (w + e) * 120
      BY <1>4, <2>1 DEF RepresentativePoint, at
    <3> QED
      BY <1>7, <3>1
  <2>2. CASE Spans(at) # {}
    <3>1. mark.x = at[best[1]] + at[best[2]]
      BY <2>2 DEF RepresentativePoint, at, best
    <3>2. best \in Spans(at)
      BY <1>5, <2>2, BestIsASpan DEF best
    <3>3. best[1] \in DOMAIN at /\ best[2] \in DOMAIN at
      BY <3>2 DEF Spans
    <3> DEFINE l == at[best[1]]
               r == at[best[2]]
    <3>4. l \in Int /\ r \in Int /\ 120 * w <= l /\ l <= 120 * e /\ 120 * w <= r /\ r <= 120 * e
      BY <1>5, <3>3
    <3> HIDE DEF l, r
    <3>5. l + r \in Int /\ 240 * w <= l + r /\ l + r <= 240 * e
      BY <1>1, <3>4
    <3> QED
      BY <3>1, <3>5 DEF l, r
  <2> QED
    BY <2>1, <2>2
<1> QED
  BY <1>6, <1>8, <1>9 DEF w, s, e, n

\* representativePoint and envelopesOverlap: a flood whose mark is in a country is not
\* dropped as outside it, for any country and any outline.
THEOREM MarkedIsKept ==
  ASSUME NEW p \in Seq(Positions), p # <<>>, NEW c, IsBox(c)
  PROVE  KeptWhereMarked(c, p)
<1> DEFINE mark == RepresentativePoint(p)
           q == [i \in DOMAIN p |-> Times(p[i], Scale)]
           b == BBox(p)
           k == BBox(q)
<1> SUFFICES ASSUME WithinBBox(c, mark)
             PROVE  EnvelopesOverlap(c, k)
  BY DEF KeptWhereMarked
<1>1. /\ mark.x \in Int /\ 240 * b.west <= mark.x /\ mark.x <= 240 * b.east
      /\ mark.y \in Int /\ 240 * b.south <= mark.y /\ mark.y <= 240 * b.north
  BY MarkInBox
<1>2. /\ c.west <= mark.x /\ mark.x <= c.east /\ c.south <= mark.y /\ mark.y <= c.north
      /\ c.west \in Int /\ c.south \in Int /\ c.east \in Int /\ c.north \in Int
  BY DEF WithinBBox, IsBox
<1>3. \A i \in DOMAIN p : p[i].x \in Int /\ p[i].y \in Int
  <2>1. \A i \in DOMAIN p : p[i] \in Positions
    OBVIOUS
  <2> QED
    BY <2>1 DEF Positions
<1>4. DOMAIN q = DOMAIN p /\ \A i \in DOMAIN p : q[i].x = 240 * p[i].x /\ q[i].y = 240 * p[i].y
  BY DEF Times, At, Scale
<1>5. q \in Seq(Positions) /\ q # <<>>
  <2>1. \A i \in DOMAIN p : Times(p[i], Scale) \in Positions
    BY <1>3 DEF Times, At, Scale, Positions
  <2>2. DOMAIN p = 1..Len(p) /\ Len(p) \in Nat /\ Len(p) # 0
    OBVIOUS
  <2>3. q \in [1..Len(p) -> Positions]
    BY <2>1, <2>2
  <2>4. 1 \in DOMAIN q
    BY <2>2
  <2> HIDE DEF q
  <2> QED
    BY <2>2, <2>3, <2>4
<1> HIDE DEF q, mark
<1>6. /\ k.west \in Int /\ k.south \in Int /\ k.east \in Int /\ k.north \in Int
      /\ \A i \in DOMAIN q : /\ k.west <= q[i].x /\ q[i].x <= k.east
                             /\ k.south <= q[i].y /\ q[i].y <= k.north
  BY <1>5, BoxOf
<1>7. \A i \in DOMAIN p : /\ k.west <= 240 * p[i].x /\ 240 * p[i].x <= k.east
                          /\ k.south <= 240 * p[i].y /\ 240 * p[i].y <= k.north
  BY <1>4, <1>6
<1>8. k.west <= 240 * b.west /\ 240 * b.east <= k.east
      /\ k.south <= 240 * b.south /\ 240 * b.north <= k.north
  <2>1. /\ \E i \in DOMAIN p : p[i].x = b.west
        /\ \E i \in DOMAIN p : p[i].x = b.east
        /\ \E i \in DOMAIN p : p[i].y = b.south
        /\ \E i \in DOMAIN p : p[i].y = b.north
    BY BoxOf
  <2> HIDE DEF b, k
  <2> QED
    BY <1>7, <2>1
<1>9. b.west \in Int /\ b.south \in Int /\ b.east \in Int /\ b.north \in Int
  BY BoxOf
<1> HIDE DEF b, k
<1>10. k.west \in Int /\ k.south \in Int /\ k.east \in Int /\ k.north \in Int
  BY <1>6
<1>11. c.west <= k.east /\ k.west <= c.east
  <2>1. 240 * b.west \in Int /\ 240 * b.east \in Int
    BY <1>9
  <2>2. mark.x <= k.east
    BY <1>1, <1>8, <1>10, <2>1
  <2>3. k.west <= mark.x
    BY <1>1, <1>8, <1>10, <2>1
  <2> QED
    BY <1>1, <1>2, <1>10, <2>2, <2>3
<1>12. c.south <= k.north /\ k.south <= c.north
  <2>1. 240 * b.south \in Int /\ 240 * b.north \in Int
    BY <1>9
  <2>2. mark.y <= k.north
    BY <1>1, <1>8, <1>10, <2>1
  <2>3. k.south <= mark.y
    BY <1>1, <1>8, <1>10, <2>1
  <2> QED
    BY <1>1, <1>2, <1>10, <2>2, <2>3
<1> QED
  BY <1>11, <1>12 DEF EnvelopesOverlap

\* Near tells coordinates that are multiples of nine apart.
LEMMA NearNines ==
  ASSUME NEW a \in Int, NEW b \in Int
  PROVE  /\ Near(9 * a + 1, 9 * b) <=> a = b
         /\ Near(9 * a - 1, 9 * b) <=> a = b
<1>1. (9 * a + 1) - 9 * b \in {-1, 0, 1} <=> a = b
  OBVIOUS
<1>2. (9 * a - 1) - 9 * b \in {-1, 0, 1} <=> a = b
  OBVIOUS
<1> QED
  BY <1>1, <1>2 DEF Near

\* positionsCorrespond: the published outline is recognised in either order of its axes,
\* rounded or not, and is not when only some of its positions are transposed.
THEOREM OutlineRecognised ==
  ASSUME NEW p \in Seq(Positions), p # <<>>
  PROVE  RecognisedEitherWay(p)
<1> DEFINE D == DOMAIN p
           Point(s, i) == IF i \in s THEN Transpose(p[i]) ELSE p[i]
           Mixed(s) == [i \in D |-> Times(Point(s, i), 9)]
           Rounded(r) == [i \in DOMAIN r |-> At(r[i].x + 1, r[i].y - 1)]
<1>1. SUFFICES ASSUME NEW s \in SUBSET D
               PROVE  PositionsCorrespond(Rounded(Mixed(s)), Mixed({}))
                        <=> Mixed(s) \in {Mixed({}), Mixed(D)}
  BY DEF RecognisedEitherWay
<1> DEFINE r == Rounded(Mixed(s))
           m == Mixed({})
           px(i) == p[i].x
           py(i) == p[i].y
           sx(i) == Point(s, i).x
           sy(i) == Point(s, i).y
<1>2. ASSUME NEW i \in D
      PROVE  /\ px(i) \in Int /\ py(i) \in Int /\ sx(i) \in Int /\ sy(i) \in Int
             /\ p[i] = [x |-> px(i), y |-> py(i)]
             /\ Point(s, i) = [x |-> sx(i), y |-> sy(i)]
             /\ Transpose(p[i]) = [x |-> py(i), y |-> px(i)]
  <2>1. p[i] \in Positions
    OBVIOUS
  <2> QED
    BY <2>1 DEF Positions, Transpose, At
<1>3. /\ \A i \in D : r[i] = [x |-> 9 * sx(i) + 1, y |-> 9 * sy(i) - 1]
      /\ \A i \in D : m[i] = [x |-> 9 * px(i), y |-> 9 * py(i)]
      /\ DOMAIN r = D /\ DOMAIN m = D
  BY DEF Times, At
<1>4. /\ \A i \in D : Mixed(s)[i] = [x |-> 9 * sx(i), y |-> 9 * sy(i)]
      /\ \A i \in D : Mixed(D)[i] = [x |-> 9 * py(i), y |-> 9 * px(i)]
      /\ \A i \in D : Mixed({})[i] = [x |-> 9 * px(i), y |-> 9 * py(i)]
  BY DEF Times, At, Transpose
<1>5. r # <<>> /\ Len(r) = Len(m)
  <2>1. D = 1..Len(p) /\ Len(p) \in Nat /\ Len(p) # 0
    OBVIOUS
  <2>2. r = [i \in 1..Len(p) |-> At(Mixed(s)[i].x + 1, Mixed(s)[i].y - 1)]
        /\ m = [i \in 1..Len(p) |-> Times(Point({}, i), 9)]
    BY <2>1
  <2>3. Len(r) = Len(p) /\ Len(m) = Len(p)
    <3> HIDE DEF Mixed, Point
    <3> QED BY <2>1, <2>2
  <2>4. 1 \in DOMAIN r
    BY <1>3, <2>1
  <2> HIDE DEF r, m
  <2> QED
    BY <2>3, <2>4
<1> DEFINE AsIs == \A i \in D : sx(i) = px(i) /\ sy(i) = py(i)
           Turned == \A i \in D : sx(i) = py(i) /\ sy(i) = px(i)
<1>6. PositionsCorrespond(r, m) <=>
        \/ \A i \in D : Near(r[i].x, m[i].x) /\ Near(r[i].y, m[i].y)
        \/ \A i \in D : Near(r[i].y, m[i].x) /\ Near(r[i].x, m[i].y)
  <2> HIDE DEF r, m
  <2> QED
    BY <1>3, <1>5 DEF PositionsCorrespond
<1>7. ASSUME NEW i \in D
      PROVE  /\ Near(r[i].x, m[i].x) <=> sx(i) = px(i)
             /\ Near(r[i].y, m[i].y) <=> sy(i) = py(i)
             /\ Near(r[i].y, m[i].x) <=> sy(i) = px(i)
             /\ Near(r[i].x, m[i].y) <=> sx(i) = py(i)
  <2>1. px(i) \in Int /\ py(i) \in Int /\ sx(i) \in Int /\ sy(i) \in Int
    BY <1>2
  <2> HIDE DEF r, m, px, py, sx, sy, Mixed, Rounded
  <2>2. r[i].x = 9 * sx(i) + 1 /\ r[i].y = 9 * sy(i) - 1 /\ m[i].x = 9 * px(i) /\ m[i].y = 9 * py(i)
    BY <1>3
  <2>3. Near(9 * sx(i) + 1, 9 * px(i)) <=> sx(i) = px(i)
    BY <2>1, NearNines
  <2>4. Near(9 * sy(i) - 1, 9 * py(i)) <=> sy(i) = py(i)
    BY <2>1, NearNines
  <2>5. Near(9 * sy(i) - 1, 9 * px(i)) <=> sy(i) = px(i)
    BY <2>1, NearNines
  <2>6. Near(9 * sx(i) + 1, 9 * py(i)) <=> sx(i) = py(i)
    BY <2>1, NearNines
  <2> QED
    BY <2>2, <2>3, <2>4, <2>5, <2>6
<1>8. PositionsCorrespond(r, m) <=> AsIs \/ Turned
  <2> HIDE DEF r, m, px, py, sx, sy
  <2> QED
    BY <1>6, <1>7
<1>9. Mixed(s) = Mixed({}) <=> AsIs
  <2> DEFINE f == Mixed(s)
  <2>1. f = m <=> \A i \in D : f[i] = m[i]
    OBVIOUS
  <2>2. ASSUME NEW i \in D PROVE f[i] = m[i] <=> sx(i) = px(i) /\ sy(i) = py(i)
    <3>1. px(i) \in Int /\ py(i) \in Int /\ sx(i) \in Int /\ sy(i) \in Int
      BY <1>2
    <3>2. f[i] = [x |-> 9 * sx(i), y |-> 9 * sy(i)] /\ m[i] = [x |-> 9 * px(i), y |-> 9 * py(i)]
      BY <1>4
    <3> HIDE DEF f, m, px, py, sx, sy
    <3> QED
      BY <3>1, <3>2
  <2> HIDE DEF f, m, px, py, sx, sy
  <2>3. f = m <=> AsIs
    BY <2>1, <2>2
  <2> QED
    BY <2>3 DEF f, m
<1>10. Mixed(s) = Mixed(D) <=> Turned
  <2> DEFINE f == Mixed(s)
             t == Mixed(D)
  <2>1. f = t <=> \A i \in D : f[i] = t[i]
    OBVIOUS
  <2>2. ASSUME NEW i \in D PROVE f[i] = t[i] <=> sx(i) = py(i) /\ sy(i) = px(i)
    <3>1. px(i) \in Int /\ py(i) \in Int /\ sx(i) \in Int /\ sy(i) \in Int
      BY <1>2
    <3>2. f[i] = [x |-> 9 * sx(i), y |-> 9 * sy(i)] /\ t[i] = [x |-> 9 * py(i), y |-> 9 * px(i)]
      BY <1>4
    <3> HIDE DEF f, t, px, py, sx, sy
    <3> QED
      BY <3>1, <3>2
  <2> HIDE DEF f, t, px, py, sx, sy
  <2>3. f = t <=> Turned
    BY <2>1, <2>2
  <2> QED
    BY <2>3 DEF f, t
<1> HIDE DEF Mixed, Rounded, AsIs, Turned, px, py, sx, sy
<1> QED
  BY <1>8, <1>9, <1>10 DEF r, m

(***************************************************************************)
(* The inputs of the model-checked instance.                               *)
(***************************************************************************)

Outlines == {Position(i, 0) : i \in Nat} \cup {Array(<<Array(<<Position(i, 0)>>)>>) : i \in Nat}

Geometries == [type : {"Point", "Polygon", "MultiPolygon"}, date : Dates \cup {Undated},
               coordinates : Outlines]

Sources == {Source(i, a, g) : i \in Nat \ {0}, a \in BOOLEAN, g \in BOOLEAN}

\* What the histories are made of; the other inputs do not change.
InputInv ==
  /\ part = "event" =>
       /\ input.geometries \in Seq(Geometries) /\ input.sources \in Seq(Sources)
       /\ \A i \in DOMAIN input.sources : input.sources[i].url = i
  /\ part = "tree" => input \in Trees
  /\ part = "context" => input \in ContextInput

LEMMA InputInit == Init => InputInv
<1> SUFFICES ASSUME Init PROVE InputInv
  OBVIOUS
<1>1. CASE part = "event"
  <2>1. input.geometries = <<>> /\ input.sources = <<>>
    BY <1>1 DEF Init, Event
  <2> QED
    BY <1>1, <2>1 DEF InputInv
<1>2. CASE part # "event"
  BY <1>2 DEF Init, InputInv
<1> QED
  BY <1>1, <1>2

\* Every step but a commit adds to the event.
LEMMA EventGrows ==
  ASSUME InputInv, Next, part = "event"
  PROVE  /\ Grows(input, input', Geometries, Sources)
         /\ input'.geometries \in Seq(Geometries) /\ input'.sources \in Seq(Sources)
         /\ \A i \in DOMAIN input'.sources : input'.sources[i].url = i
<1>0. /\ input.geometries \in Seq(Geometries) /\ input.sources \in Seq(Sources)
      /\ \A i \in DOMAIN input.sources : input.sources[i].url = i
  BY DEF InputInv
<1>1. CASE AppendGeometry
  <2>1. PICK t \in {"Point", "Polygon", "MultiPolygon"}, d \in Dates \cup {Undated} :
          /\ input'.geometries = Append(input.geometries, Geometry(Len(input.geometries) + 1, t, d))
          /\ input'.sources = input.sources
    BY <1>1 DEF AppendGeometry, Event
  <2>2. Geometry(Len(input.geometries) + 1, t, d) \in Geometries
    <3>1. \A i \in Nat : Geometry(i, t, d).coordinates \in Outlines
      BY DEF Geometry, Outlines
    <3>2. \A i \in Nat : Geometry(i, t, d) \in Geometries
      BY <3>1 DEF Geometry, Geometries
    <3> QED
      BY <1>0, <3>2
  <2> QED
    BY <1>0, <2>1, <2>2 DEF Grows
<1>2. CASE AppendSource
  <2>1. PICK a \in BOOLEAN, g \in BOOLEAN :
          /\ input'.sources = Append(input.sources, Source(Len(input.sources) + 1, a, g))
          /\ input'.geometries = input.geometries
    BY <1>2 DEF AppendSource, Event
  <2> DEFINE x == Source(Len(input.sources) + 1, a, g)
  <2>2. x \in Sources /\ x.url = Len(input.sources) + 1
    BY <1>0 DEF Sources, Source
  <2> HIDE DEF x
  <2>3. input'.sources = Append(input.sources, x)
    BY <2>1 DEF x
  <2> QED
    BY <1>0, <2>1, <2>2, <2>3 DEF Grows
<1>3. CASE Close
  <2>1. input'.geometries = input.geometries /\ input'.sources = input.sources
    BY <1>3 DEF Close, Event
  <2> QED
    BY <1>0, <2>1 DEF Grows
<1> QED
  BY <1>1, <1>2, <1>3 DEF Next, AddCommit

LEMMA InputNext == InputInv /\ [Next]_vars => InputInv'
<1> SUFFICES ASSUME InputInv, [Next]_vars PROVE InputInv'
  OBVIOUS
<1>1. CASE UNCHANGED vars
  BY <1>1 DEF vars, InputInv
<1>2. CASE Next /\ part = "event"
  <2>1. part' = "event"
    BY <1>2 DEF Next
  <2> QED
    BY <1>2, <2>1, EventGrows DEF InputInv
<1>3. CASE Next /\ part # "event"
  BY <1>3 DEF Next, AppendGeometry, AppendSource, Close, AddCommit, InputInv
<1> QED
  BY <1>1, <1>2, <1>3

LEMMA AlwaysInput == Spec => []InputInv
BY InputInit, InputNext, PTL DEF Spec

\* The stored event never goes back, for any number of geometries and sources and
\* any dates.
THEOREM EventsForward == Spec => RevisionsForward
<1>1. InputInv /\ [Next]_vars => [part = "event" => IsForward(input, input')]_vars
  <2> SUFFICES ASSUME InputInv, Next, part = "event" PROVE IsForward(input, input')
    OBVIOUS
  <2>1. \A g \in Geometries : g.date \in Nat \cup {Undated}
    BY PureAssumption DEF Geometries
  <2>2. \A x \in Sources : x.url # NoURL /\ x.allowed \in BOOLEAN /\ x.gdacs \in BOOLEAN
    BY DEF Sources, Source, NoURL
  <2>3. /\ input.geometries \in Seq(Geometries) /\ input.sources \in Seq(Sources)
        /\ JudgedByURL(input.sources)
    BY DEF InputInv, JudgedByURL
  <2>4. Grows(input, input', Geometries, Sources)
    BY EventGrows
  <2> DEFINE grown == input'
  <2> HIDE DEF grown
  <2>5. Grows(input, grown, Geometries, Sources)
    BY <2>4 DEF grown
  <2>6. IsForward(input, grown)
    BY <2>1, <2>2, <2>3, <2>5, NeverBackInTime
  <2> QED
    BY <2>6 DEF grown
<1> QED
  BY <1>1, AlwaysInput, PTL DEF Spec, RevisionsForward

\* The audit of the instance's branches, of any length.
THEOREM AuditedByTip == Spec => []BypassIsCurrent
<1>1. BypassIsCurrent
  BY BypassNeedsItsTip DEF BypassIsCurrent
<1> QED
  BY <1>1, PTL

\* The queries of the instance.
THEOREM AnsweredQueries == Spec => []AnswerIsTheQuerys
<1>1. AnswerIsTheQuerys
  BY QueriesAnswered DEF AnswerIsTheQuerys
<1> QED
  BY <1>1, PTL

LEMMA TreesAreJson ==
  \E trees : Trees \subseteq trees /\ IsJson(trees) /\ \A t \in Trees : t.kind = "array"
<1> DEFINE one == Lists(Leaves)
           two == Lists(one \cup Leaves)
           all == Leaves \cup one \cup two \cup Trees
<1>1. \A s, u : (s \subseteq u) => \A t \in Lists(s) : t.kind = "array" /\ t.items \in Seq(u)
  <2> SUFFICES ASSUME NEW s, NEW u, s \subseteq u, NEW t \in Lists(s)
               PROVE  t.kind = "array" /\ t.items \in Seq(u)
    OBVIOUS
  <2>1. CASE t = Array(<<>>)
    BY <2>1 DEF Array
  <2>2. CASE \E a \in s : t = Array(<<a>>)
    BY <2>2 DEF Array
  <2>3. CASE \E a, b \in s : t = Array(<<a, b>>)
    BY <2>3 DEF Array
  <2>4. \/ t = Array(<<>>) \/ \E a \in s : t = Array(<<a>>)
        \/ \E a, b \in s : t = Array(<<a, b>>)
    BY SMTT(30) DEF Lists
  <2> QED
    BY <2>1, <2>2, <2>3, <2>4
<1>2. one \subseteq all /\ two \subseteq all /\ Leaves \subseteq all
  OBVIOUS
<1>3. \A t \in one \cup two : t.kind = "array" /\ t.items \in Seq(all)
  <2> HIDE DEF all, one
  <2>1. one \cup Leaves \subseteq all
    BY <1>2
  <2> QED
    BY <1>1, <1>2, <2>1 DEF one
<1>4. Position(10, 10) \in one
  BY DEF Position, Lists, Leaves
<1>5. Array(<<Position(10, 10)>>) \in two
  <2> HIDE DEF one
  <2> QED BY <1>4 DEF Lists
<1>6. Trees = two \cup {Array(<<a>>) : a \in two} \cup {Array(<<Array(<<Position(10, 10)>>), a>>) : a \in two}
  BY DEF Trees
<1>7. \A t \in Trees : t.kind = "array" /\ t.items \in Seq(all)
  <2> HIDE DEF all, one, two
  <2>1. ASSUME NEW a \in two
        PROVE  /\ Array(<<a>>).kind = "array" /\ Array(<<a>>).items \in Seq(all)
               /\ Array(<<Array(<<Position(10, 10)>>), a>>).kind = "array"
               /\ Array(<<Array(<<Position(10, 10)>>), a>>).items \in Seq(all)
    <3>1. a \in all /\ Array(<<Position(10, 10)>>) \in all
      BY <1>2, <1>5
    <3> DEFINE b == Array(<<Position(10, 10)>>)
    <3> HIDE DEF b
    <3>2. b \in all
      BY <3>1 DEF b
    <3>3. Array(<<a>>).kind = "array" /\ Array(<<a>>).items \in Seq(all)
      BY <3>1 DEF Array
    <3>4. Array(<<b, a>>).kind = "array" /\ Array(<<b, a>>).items \in Seq(all)
      BY <3>1, <3>2 DEF Array
    <3> QED
      BY <3>3, <3>4 DEF b
  <2> QED
    BY <1>3, <1>6, <2>1
<1>8. \A t \in Leaves : t.kind # "array"
  BY DEF Leaves, Number, Other
<1>9. IsJson(all)
  <2> HIDE DEF one, two
  <2> QED
    BY <1>3, <1>7, <1>8 DEF IsJson
<1> QED
  BY <1>7, <1>9

\* The coordinate trees of the instance.
THEOREM PolygonsChecked == Spec => []PolygonsPlausible
<1>1. InputInv => PolygonsPlausible
  BY TreesAreJson, VerticesChecked DEF InputInv, PolygonsPlausible
<1> QED
  BY <1>1, AlwaysInput, PTL

LEMMA RoutesOfTheInstance ==
  ASSUME NEW routes \in Routes
  PROVE  DefaultGateway(routes) \in {NoAddress, Gate}
<1> DEFINE default(s) == {i \in DOMAIN s : /\ s[i].destination = <<0, 0>>
                                           /\ ParseRouteAddr(s[i].gateway) # <<0, 0>>}
<1>1. ParseRouteAddr(<<2, 1>>) = Gate /\ ParseRouteAddr(<<0, 0>>) = <<0, 0>>
  BY DEF ParseRouteAddr, Reverse, Gate
<1>2. \A i : Min({i}) = i
  BY DEF Min
<1>3. CASE routes = <<>>
  <2>1. default(routes) = {}
    BY <1>3
  <2> QED
    BY <2>1 DEF DefaultGateway
<1>4. CASE routes = <<[destination |-> <<0, 0>>, gateway |-> <<2, 1>>]>>
  <2>1. default(routes) = {1} /\ routes[1].gateway = <<2, 1>>
    BY <1>1, <1>4 DEF Gate
  <2> QED
    BY <1>1, <1>2, <2>1 DEF DefaultGateway
<1>5. CASE routes = <<[destination |-> <<9, 9>>, gateway |-> <<0, 0>>],
                      [destination |-> <<0, 0>>, gateway |-> <<2, 1>>]>>
  <2>1. default(routes) = {2} /\ routes[2].gateway = <<2, 1>>
    BY <1>1, <1>5 DEF Gate
  <2> QED
    BY <1>1, <1>2, <2>1 DEF DefaultGateway
<1> QED
  BY <1>3, <1>4, <1>5 DEF Routes

\* So for the requests for a context of the instance: the place and the source are
\* those of the coordinates given, or else of the caller's address.
THEOREM Disclosed == Spec => []LocationDisclosed
<1>1. ASSUME part = "context", input \in ContextInput
      PROVE  LocationDisclosed
  <2>1. input.request.lat \in Int /\ input.request.lng \in Int
    BY <1>1 DEF ContextInput, Params, Absent, Text, NaN, Inf
  <2>2. \A a \in DOMAIN input.geo :
          /\ input.geo[a] = [lat |-> input.geo[a].lat, lng |-> input.geo[a].lng]
          /\ IsCoordinates(input.geo[a])
    <3>1. \A a \in DOMAIN input.geo : input.geo[a] \in {Here, There}
      BY <1>1 DEF ContextInput
    <3>2. \A p \in {Here, There} : p = [lat |-> p.lat, lng |-> p.lng] /\ IsCoordinates(p)
      BY DEF Here, There, IsCoordinates
    <3> QED
      BY <3>1, <3>2
  <2>3. IsFiniteSet(DOMAIN Stored) /\ \A e \in DOMAIN Stored : Stored[e].lat \in Int /\ Stored[e].lng \in Int
    <3>1. DOMAIN Stored = (({"e1"} \cup {"e2"}) \cup {"e3"}) \cup {"e4"}
      BY DEF Stored
    <3>2. IsFiniteSet({"e1"} \cup {"e2"})
      BY FS_Singleton, FS_AddElement
    <3>3. IsFiniteSet(({"e1"} \cup {"e2"}) \cup {"e3"})
      BY <3>2, FS_AddElement
    <3>4. IsFiniteSet((({"e1"} \cup {"e2"}) \cup {"e3"}) \cup {"e4"})
      BY <3>3, FS_AddElement
    <3> QED
      BY <3>1, <3>4 DEF Stored, Here, There, NoPlace, Absent
  <2>4. AnsweredAsAsked(input.request, input.config, input.geo, Stored, input.down)
    BY <2>1, <2>2, <2>3, CallerAnswered
  <2>5. GatewayProven(input.routes, input.config, Gate, Visitor)
    <3>1. DefaultGateway(input.routes) \in {NoAddress, Gate}
      BY <1>1, RoutesOfTheInstance DEF ContextInput
    <3>2. CASE DefaultGateway(input.routes) = NoAddress
      BY <3>2 DEF GatewayProven
    <3>3. CASE DefaultGateway(input.routes) = Gate
      <4>1. Visitor # Gate
        BY DEF Visitor, Gate
      <4> QED
        BY <3>3, <4>1, GatewayChecked
    <3> QED
      BY <3>1, <3>2, <3>3
  <2> QED
    BY <1>1, <2>4, <2>5 DEF LocationDisclosed
<1>2. InputInv => LocationDisclosed
  <2>1. CASE part # "context"
    BY <2>1 DEF LocationDisclosed
  <2>2. CASE part = "context"
    BY <1>1, <2>2 DEF InputInv
  <2> QED
    BY <2>1, <2>2
<1> QED
  BY <1>2, AlwaysInput, PTL
=============================================================================
