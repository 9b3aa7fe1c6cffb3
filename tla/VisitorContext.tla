--------------------------- MODULE VisitorContext ---------------------------
(***************************************************************************)
(* GET /v1/context: where a caller is, and the events near that place      *)
(* (handlers/context.go, GetNearbyEvents), with the one way a client       *)
(* address is found (ProxyConfig.ClientIP) and the check of that way at    *)
(* startup (proxytrust.go).                                                *)
(*                                                                         *)
(* A request is [lat, lng, peer, forwarded, realIP]; a config is           *)
(* [trusted, forceLagos, overrideIP]; a GeoIP database maps the addresses  *)
(* it knows to places. An address is a pair of bytes, a place [lat, lng].  *)
(* What is not a finite number has a value that no coordinate has.         *)
(***************************************************************************)
EXTENDS Integers, Sequences, FiniteSets, FiniteSetsExt, SequencesExt

Absent == 1000
Text == 1001
NaN == 1002
Inf == 1003
NoAddress == <<>>
NoPlace == [lat |-> Absent, lng |-> Absent]

IsFinite(v) == v \notin {NaN, Inf}

Lagos == [lat |-> 7, lng |-> 3]

(***************************************************************************)
(* The address of the caller.                                              *)
(***************************************************************************)

\* isTrustedProxy: the address parses and lies in a trusted network.
IsTrustedProxy(address, config) == address \in config.trusted

\* The first entry of X-Forwarded-For, or X-Real-IP, but only from a trusted peer.
ClientIP(r, config) ==
  IF ~IsTrustedProxy(r.peer, config) THEN r.peer
  ELSE IF r.forwarded # <<>> THEN r.forwarded[1]
  ELSE IF r.realIP # NoAddress THEN r.realIP
  ELSE r.peer

\* parseProcRouteAddr: the kernel prints the bytes in reverse.
ParseRouteAddr(field) == Reverse(field)

\* DefaultGatewayIP: the gateway of the first default route that has one.
DefaultGateway(routes) ==
  LET zero == <<0, 0>>
      default == {i \in DOMAIN routes :
                    routes[i].destination = zero /\ ParseRouteAddr(routes[i].gateway) # zero}
  IN IF default = {} THEN NoAddress ELSE ParseRouteAddr(routes[Min(default)].gateway)

\* verifyGatewayTrusted: with no gateway, nothing was proven.
VerifyGatewayTrusted(routes, config) ==
  DefaultGateway(routes) = NoAddress \/ IsTrustedProxy(DefaultGateway(routes), config)

(***************************************************************************)
(* The place of the caller.                                                *)
(***************************************************************************)

\* v < -limit || v > limit, which NaN is not.
OutOfRange(v, limit) == v # NaN /\ v \notin -limit..limit

\* parseCoordinate.
CoordinateOK(v, limit) == v # Text /\ IsFinite(v) /\ ~OutOfRange(v, limit)

HasExplicit(r) == r.lat # Absent \/ r.lng # Absent

\* parseExplicitLocation: both, or neither.
ExplicitOK(r) ==
  /\ r.lat # Absent /\ r.lng # Absent
  /\ CoordinateOK(r.lat, 90) /\ CoordinateOK(r.lng, 180)

\* Faulty variant: a lookup of its own that believes X-Forwarded-For from anybody.
LookupUnguarded(r, config) ==
  CASE config.overrideIP # NoAddress -> config.overrideIP
    [] config.overrideIP = NoAddress /\ r.forwarded # <<>> -> r.forwarded[1]
    [] OTHER -> ClientIP(r, config)

\* resolveLocationPlan for a request without lat and lng.
LookupAddress(r, config) ==
  IF config.overrideIP # NoAddress THEN config.overrideIP ELSE ClientIP(r, config)

Unavailable == [place |-> NoPlace, source |-> "unavailable"]

\* A failed lookup, or a server without the database, is no error.
LookedUp(address, source, geo) ==
  IF address \in DOMAIN geo THEN [place |-> geo[address], source |-> source] ELSE Unavailable

Located(r, config, geo) ==
  CASE HasExplicit(r) -> [place |-> [lat |-> r.lat, lng |-> r.lng], source |-> "explicit"]
    [] ~HasExplicit(r) /\ config.forceLagos -> [place |-> Lagos, source |-> "dev_override"]
    [] OTHER -> LookedUp(LookupAddress(r, config),
                         IF config.overrideIP # NoAddress THEN "dev_override" ELSE "ip", geo)

(***************************************************************************)
(* The events near it.                                                     *)
(***************************************************************************)
Radius == 2
MaxNearby == 1

Away(m, n) == IF m < n THEN n - m ELSE m - n

Distance(p, q) == Away(p.lat, q.lat) + Away(p.lng, q.lng)

\* GetNearbyEvents: the nearest ones within the radius, open or closed. db maps
\* events to their geometry; one without a geometry is near nothing.
IsNearby(events, place, db) ==
  LET near == {e \in DOMAIN db : db[e] # NoPlace /\ Distance(db[e], place) <= Radius}
  IN /\ events \subseteq near /\ Cardinality(events) = Min({MaxNearby, Cardinality(near)})
     /\ \A e \in events, f \in near \ events : Distance(db[e], place) <= Distance(db[f], place)

Response(status, at, events) ==
  [status |-> status, place |-> at.place, source |-> at.source, events |-> events]

Refused(status) == Response(status, Unavailable, {})

\* GetContext: the responses it may give. The body is complete before the status is
\* sent, so a number JSON cannot hold makes a 500.
Responses(r, config, geo, db, down) ==
  LET at == Located(r, config, geo) IN
  IF HasExplicit(r) /\ ~ExplicitOK(r) THEN {Refused(400)}
  ELSE IF at.place = NoPlace THEN {Response(200, at, {})}
  ELSE IF down \/ ~IsFinite(at.place.lat) \/ ~IsFinite(at.place.lng) THEN {Refused(500)}
  ELSE {Response(200, at, s) : s \in {s \in SUBSET DOMAIN db : IsNearby(s, at.place, db)}}

(***************************************************************************)
(* Properties.                                                             *)
(***************************************************************************)

\* An answer about the place of one address: of no place if nobody knows it.
AboutAddress(a, address, source, geo) ==
  /\ address \in DOMAIN geo =>
       a.status = 500 \/ (a.status = 200 /\ a.source = source /\ a.place = geo[address])
  /\ address \notin DOMAIN geo =>
       a.status = 200 /\ a.source = "unavailable" /\ a.place = NoPlace

\* An answer to a caller who gives no coordinates. Without an override it is about
\* the caller's own address: a forwarded one counts only from a trusted peer, so
\* nobody else can have an answer about another place by sending a header.
AboutCaller(a, r, config, geo) ==
  LET direct == r.peer \notin config.trusted \/ (r.forwarded = <<>> /\ r.realIP = NoAddress)
      overridden == config.overrideIP # NoAddress
  IN /\ config.forceLagos =>
          a.status = 500 \/ (a.status = 200 /\ a.source = "dev_override" /\ a.place = Lagos)
     /\ ~config.forceLagos /\ overridden =>
          AboutAddress(a, config.overrideIP, "dev_override", geo)
     /\ ~config.forceLagos /\ ~overridden =>
          /\ direct => AboutAddress(a, r.peer, "ip", geo)
          /\ ~direct /\ r.forwarded # <<>> => AboutAddress(a, r.forwarded[1], "ip", geo)
          /\ ~direct /\ r.forwarded = <<>> => AboutAddress(a, r.realIP, "ip", geo)

\* A caller who gives coordinates is answered about exactly those, or told that
\* they are none, and never about the place of an address; any other caller about
\* the place of the right address, with the source it was found by. A place nobody
\* knows comes with no events. An answer depends on the database being up, and on
\* nothing else.
AnsweredAsAsked(r, config, geo, db, down) ==
  LET valid == r.lat \in -90..90 /\ r.lng \in -180..180
      answers == Responses(r, config, geo, db, down)
  IN /\ answers # {}
     /\ \A a \in answers :
          /\ HasExplicit(r) /\ valid =>
               \/ a.status = 500
               \/ a.status = 200 /\ a.source = "explicit" /\ a.place = [lat |-> r.lat, lng |-> r.lng]
          /\ HasExplicit(r) /\ ~valid => a.status = 400
          /\ ~HasExplicit(r) => AboutCaller(a, r, config, geo)
          /\ a.status = 500 => down
          /\ a.place = NoPlace => a.events = {}
          /\ \A e \in a.events : Distance(db[e], a.place) <= Radius

\* The check at startup says whether the gateway is trusted: it passes exactly when
\* a request that comes through the gateway is taken to be its visitor's.
GatewayProven(routes, config, gate, visitor) ==
  DefaultGateway(routes) # NoAddress =>
    (VerifyGatewayTrusted(routes, config) <=>
     ClientIP([peer |-> gate, forwarded |-> <<visitor>>, realIP |-> NoAddress], config) = visitor)
=============================================================================
