---------------------------- MODULE RateLimiter ----------------------------
(***************************************************************************)
(* The per-client token buckets of the API (handlers/middleware.go):       *)
(* ipRateLimiter.bucketFor, under the limiter's mutex, and                 *)
(* tokenBucket.allow, under the bucket's own, with anything in between.    *)
(*                                                                         *)
(* Time is counted in ticks; a bucket gains one unit a tick, and a token is*)
(* Cost units.  Times are kept as ages, up to the age that matters.        *)
(***************************************************************************)
EXTENDS Integers, FiniteSets

CONSTANTS
  Clients,     \* client IPs
  Nobody,
  Calls,       \* requests served at the same time
  Cost,        \* ticks in which a token is refilled
  MaxTokens,   \* rpm: the size of a bucket, in tokens
  MaxBuckets,  \* RATE_LIMIT_MAX_BUCKETS
  BucketTTL,   \* RATE_LIMIT_BUCKET_TTL_SECONDS, in ticks
  MaxStall     \* longest delay between bucketFor and allow

\* A bucket refills in less time than it takes to be given up as idle (60 s
\* against 900 s by default).
ASSUME LimiterAssumption ==
  /\ Cost \in Nat \ {0} /\ MaxTokens \in Nat \ {0}
  /\ MaxBuckets \in Nat \ {0} /\ MaxStall \in Nat /\ IsFiniteSet(Calls)
  /\ BucketTTL \in Nat /\ BucketTTL >= Cost * MaxTokens + MaxStall

Full == Cost * MaxTokens

Slots == 1..MaxBuckets + Cardinality(Calls)

VARIABLES
  heap,       \* tokenBucket values, by slot
  buckets,    \* ipRateLimiter.buckets: the slot of each client that has one
  held,       \* the bucket a request has been given, or 0
  client,     \* whose request it is
  stalled,    \* ticks since it was given the bucket
  ideal,      \* ghost: units in a bucket that is never given up
  displaced,  \* ghost: clients whose bucket was evicted to make room
  overrun,    \* ghost: clients admitted beyond their ideal bucket
  unfair      \* ghost: clients refused within it

limiterVars == <<heap, buckets, held, client, stalled, ideal, displaced, overrun, unfair>>

Bucket == [units : 0..Full, sinceLast : 0..Full, sinceSeen : 0..BucketTTL + 1]

\* The map stays within its size, whatever the number of clients.
LimiterTypeOK ==
  /\ heap \in [Slots -> Bucket]
  /\ DOMAIN buckets \subseteq Clients /\ Cardinality(DOMAIN buckets) <= MaxBuckets
  /\ \A c \in DOMAIN buckets : buckets[c] \in Slots
  /\ held \in [Calls -> Slots \cup {0}]
  /\ client \in [Calls -> Clients \cup {Nobody}]
  /\ stalled \in [Calls -> 0..MaxStall]
  /\ ideal \in [Clients -> 0..Full]
  /\ displaced \subseteq Clients /\ overrun \subseteq Clients /\ unfair \subseteq Clients

Unused == [units |-> 0, sinceLast |-> 0, sinceSeen |-> 0]

LimiterInit ==
  /\ heap = [s \in Slots |-> Unused]
  /\ buckets = [c \in {} |-> 0]
  /\ held = [r \in Calls |-> 0]
  /\ client = [r \in Calls |-> Nobody]
  /\ stalled = [r \in Calls |-> 0]
  /\ ideal = [c \in Clients |-> Full]
  /\ displaced = {} /\ overrun = {} /\ unfair = {}

Capped(m, n) == IF m < n THEN m ELSE n

(***************************************************************************)
(* bucketFor.                                                              *)
(***************************************************************************)

\* newTokenBucket.
NewBucket == [units |-> Full, sinceLast |-> 0, sinceSeen |-> 0]

\* evictExpiredLocked keeps these.
Alive == {c \in DOMAIN buckets : heap[buckets[c]].sinceSeen <= BucketTTL}

\* Faulty variant: one bucket too many.
NoRoomLoose(alive) == Cardinality(alive) > MaxBuckets

NoRoom(alive) == Cardinality(alive) >= MaxBuckets

\* evictOldestLocked picks one of the buckets longest unseen.
LongestUnseen(alive) ==
  {c \in alive : \A d \in alive :
     heap[buckets[d]].sinceSeen <= heap[buckets[c]].sinceSeen}

\* Nobody refers to slot s, once only the buckets of kept are in the map.
Collected(s, kept) ==
  /\ \A c \in kept : buckets[c] # s
  /\ \A r \in Calls : held[r] # s

Unreferenced(kept) == CHOOSE s \in Slots : Collected(s, kept)

\* Faulty variant: an existing bucket is not marked as seen.
SeenOnce(b) == b

Seen(b) == [b EXCEPT !.sinceSeen = 0]

Give(r, c, slot) ==
  /\ held' = [held EXCEPT ![r] = slot]
  /\ client' = [client EXCEPT ![r] = c]
  /\ UNCHANGED <<stalled, ideal, overrun, unfair>>

\* Slots nobody refers to any more are cleared (the garbage collector's part).
Heap(kept, slot, bucket) ==
  [s \in Slots |-> IF s = slot THEN bucket
                   ELSE IF Collected(s, kept) THEN Unused ELSE heap[s]]

BucketForKnown(r, c) ==
  /\ held[r] = 0
  /\ c \in Alive
  /\ buckets' = [d \in Alive |-> buckets[d]]
  /\ heap' = Heap(Alive, buckets[c], Seen(heap[buckets[c]]))
  /\ Give(r, c, buckets[c])
  /\ UNCHANGED displaced

BucketForNew(r, c) ==
  /\ held[r] = 0
  /\ c \notin Alive
  /\ \E evicted \in IF NoRoom(Alive) THEN {{d} : d \in LongestUnseen(Alive)} ELSE {{}} :
       LET kept == Alive \ evicted
           slot == Unreferenced(kept)
       IN  /\ buckets' = [d \in kept \cup {c} |-> IF d = c THEN slot ELSE buckets[d]]
           /\ heap' = Heap(kept, slot, NewBucket)
           /\ Give(r, c, slot)
           /\ displaced' = displaced \cup evicted

(***************************************************************************)
(* allow.                                                                  *)
(***************************************************************************)

Refilled(b) == Capped(b.units + b.sinceLast, Full)

Remaining(units) == IF units >= Cost THEN units - Cost ELSE units

Allow(r) ==
  /\ held[r] # 0
  /\ LET b == heap[held[r]]
         c == client[r]
         units == Refilled(b)
     IN  /\ heap' = [heap EXCEPT ![held[r]].units = Remaining(units),
                                 ![held[r]].sinceLast = 0]
         /\ IF units >= Cost
            THEN /\ overrun' = IF ideal[c] < Cost THEN overrun \cup {c} ELSE overrun
                 /\ ideal' = [ideal EXCEPT ![c] = IF @ < Cost THEN 0 ELSE @ - Cost]
                 /\ UNCHANGED unfair
            ELSE /\ unfair' = IF ideal[c] >= Cost THEN unfair \cup {c} ELSE unfair
                 /\ UNCHANGED <<overrun, ideal>>
  /\ held' = [held EXCEPT ![r] = 0]
  /\ client' = [client EXCEPT ![r] = Nobody]
  /\ stalled' = [stalled EXCEPT ![r] = 0]
  /\ UNCHANGED <<buckets, displaced>>

Aged(b) == [b EXCEPT !.sinceLast = Capped(@ + 1, Full),
                     !.sinceSeen = Capped(@ + 1, BucketTTL + 1)]

LimiterTick ==
  /\ \A r \in Calls : held[r] # 0 => stalled[r] < MaxStall
  /\ heap' = [s \in Slots |-> IF Collected(s, DOMAIN buckets) THEN Unused ELSE Aged(heap[s])]
  /\ stalled' = [r \in Calls |-> IF held[r] = 0 THEN 0 ELSE stalled[r] + 1]
  /\ ideal' = [c \in Clients |-> Capped(ideal[c] + 1, Full)]
  /\ UNCHANGED <<buckets, held, client, displaced, overrun, unfair>>

LimiterNext ==
  \/ \E r \in Calls, c \in Clients : BucketForKnown(r, c) \/ BucketForNew(r, c)
  \/ \E r \in Calls : Allow(r)
  \/ LimiterTick

LimiterSpec == LimiterInit /\ [][LimiterNext]_limiterVars

(***************************************************************************)
(* Properties.                                                             *)
(***************************************************************************)

\* A client is admitted beyond its rate only after the limiter was full and
\* gave its bucket up: forgetting idle clients, and requests caught between
\* the two mutexes, cost nothing. A client within its rate is never refused.
AdmittedAsConfigured == overrun \subseteq displaced /\ unfair = {}
=============================================================================
