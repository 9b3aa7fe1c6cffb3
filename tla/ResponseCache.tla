--------------------------- MODULE ResponseCache ---------------------------
(***************************************************************************)
(* The in-memory response cache in front of the GET handlers               *)
(* (ResponseCache.CacheMiddleware): a map of entries, a list of their keys *)
(* in the order of use, and requests that look up, compute and store with  *)
(* anything in between.                                                    *)
(*                                                                         *)
(* Only ages matter: of an entry, and of the data a response was made from.*)
(***************************************************************************)
EXTENDS Integers, Sequences, FiniteSets, SequencesExt, FiniteSetsExt

CONSTANTS
  Keys,        \* normalizedCacheKey values
  Requests,    \* GET requests served at the same time
  TTL,         \* CACHE_TTL_SECONDS, in ticks
  MaxEntries,  \* CACHE_MAX_ENTRIES
  MaxCompute   \* longest time from a miss to the response being stored

ASSUME ConstantsAssumption ==
  TTL \in Nat \ {0} /\ MaxEntries \in Nat \ {0} /\ MaxCompute \in Nat

VARIABLES
  entries,  \* the map: time since an entry was stored, age of its data
  order,    \* keys, most recently used first
  pc,       \* where a request is
  key,      \* its key
  busy,     \* ticks since its lookup missed
  data      \* age of the data its handler has read

vars == <<entries, order, pc, key, busy, data>>

Oldest == TTL + MaxCompute + 2

Entry == [stored : 0..TTL + 1, data : 0..Oldest]

TypeOK ==
  /\ DOMAIN entries \subseteq Keys
  /\ \A k \in DOMAIN entries : entries[k] \in Entry
  /\ order \in Seq(Keys)
  /\ pc \in [Requests -> {"idle", "miss", "read"}]
  /\ key \in [Requests -> Keys]
  /\ busy \in [Requests -> 0..MaxCompute] /\ data \in [Requests -> 0..MaxCompute]

\* The key of a request that is not there.
AnyKey == CHOOSE k \in Keys : TRUE

Init ==
  /\ entries = [k \in {} |-> 0] /\ order = <<>>
  /\ pc = [r \in Requests |-> "idle"]
  /\ key = [r \in Requests |-> AnyKey]
  /\ busy = [r \in Requests |-> 0] /\ data = [r \in Requests |-> 0]

Without(m, k) == [j \in DOMAIN m \ {k} |-> m[j]]

\* expiresAt is now + TTL; After is strict.
Expired(entry) == entry.stored > TTL

Hit(k) == k \in DOMAIN entries /\ ~Expired(entries[k])

\* Faulty variant: a hit prolongs the entry.
UsedProlonged(entry) == [entry EXCEPT !.stored = 0]

\* A hit leaves the entry's expiry alone.
Used(entry) == entry

\* list.Remove: one element leaves the list.
Removed(list, k) ==
  IF k \in ToSet(list) THEN RemoveAt(list, CHOOSE i \in DOMAIN list : list[i] = k) ELSE list

\* The lookup, under the mutex: a hit moves the key to the front and is served.
LookupHits(r, k) ==
  /\ pc[r] = "idle" /\ Hit(k)
  /\ order' = <<k>> \o Removed(order, k)
  /\ entries' = [entries EXCEPT ![k] = Used(@)]
  /\ UNCHANGED <<pc, key, busy, data>>

\* Faulty variant: an expired entry leaves its key in the list.
ListWithoutExpiredKept(k) == order

\* removeLocked takes the key out of the list with the entry.
ListWithout(k) == Removed(order, k)

\* A miss; an expired entry is removed.
LookupMisses(r, k) ==
  /\ pc[r] = "idle" /\ ~Hit(k)
  /\ IF k \in DOMAIN entries
     THEN entries' = Without(entries, k) /\ order' = ListWithout(k)
     ELSE UNCHANGED <<entries, order>>
  /\ pc' = [pc EXCEPT ![r] = "miss"]
  /\ key' = [key EXCEPT ![r] = k]
  /\ UNCHANGED <<busy, data>>

\* The handler reads the database.
Read(r) ==
  /\ pc[r] = "miss"
  /\ pc' = [pc EXCEPT ![r] = "read"]
  /\ UNCHANGED <<entries, order, key, busy, data>>

Leave(r) ==
  /\ pc' = [pc EXCEPT ![r] = "idle"]
  /\ busy' = [busy EXCEPT ![r] = 0] /\ data' = [data EXCEPT ![r] = 0]
  /\ key' = [key EXCEPT ![r] = AnyKey]

\* Not a 2xx response, or the handler panics: nothing is stored.
Fail(r) ==
  /\ pc[r] \in {"miss", "read"}
  /\ Leave(r)
  /\ UNCHANGED <<entries, order>>

\* The keys of the map once n keys are left in the list.
Left(list, keys, n) == keys \ {list[i] : i \in n + 1..Len(list)}

\* evictOverflowLocked drops keys from the back of the list, with their entries, until
\* the map is small enough or the list is empty: how many keys stay in the list.
Room(list, keys) ==
  Max({n \in 0..Len(list) : n = 0 \/ Cardinality(Left(list, keys, n)) <= MaxEntries})

\* Faulty variant: the entry expires TTL after the reply plus its duration.
NewEntryLate(r) == [stored |-> 0 - busy[r], data |-> data[r]]

NewEntry(r) == [stored |-> 0, data |-> data[r]]

\* Under the mutex: an entry that another request stored meanwhile is replaced.
Store(r) ==
  /\ pc[r] = "read"
  /\ LET old == IF key[r] \in DOMAIN entries THEN ListWithout(key[r]) ELSE order
         list == <<key[r]>> \o old
         keys == DOMAIN entries \cup {key[r]}
         room == Room(list, keys)
     IN  /\ order' = SubSeq(list, 1, room)
         /\ entries' = [k \in Left(list, keys, room) |->
                          IF k = key[r] THEN NewEntry(r) ELSE entries[k]]
  /\ Leave(r)

Least(m, n) == IF m < n THEN m ELSE n

Tick ==
  /\ \A r \in Requests : pc[r] # "idle" => busy[r] < MaxCompute
  /\ busy' = [r \in Requests |-> IF pc[r] = "idle" THEN 0 ELSE busy[r] + 1]
  /\ data' = [r \in Requests |-> IF pc[r] = "read" THEN data[r] + 1 ELSE 0]
  /\ entries' = [k \in DOMAIN entries |->
                   [stored |-> Least(entries[k].stored + 1, TTL + 1),
                    data |-> Least(entries[k].data + 1, Oldest)]]
  /\ UNCHANGED <<order, pc, key>>

Next ==
  \/ \E r \in Requests, k \in Keys : LookupHits(r, k) \/ LookupMisses(r, k)
  \/ \E r \in Requests : Read(r) \/ Fail(r) \/ Store(r)
  \/ Tick

Spec == Init /\ [][Next]_vars

(***************************************************************************)
(* Properties.                                                             *)
(***************************************************************************)

\* What a hit would serve was read at most TTL plus the time of one response
\* ago, however requests that missed overtake each other when they store.
ServedFresh == \A k \in DOMAIN entries : Hit(k) => entries[k].data <= TTL + MaxCompute

\* The list holds exactly the keys of the map, each once, and no more than there
\* is room for: nothing is ever stuck in the cache, and eviction always finds
\* something to evict.
ListMatchesMap ==
  /\ ToSet(order) = DOMAIN entries
  /\ Len(order) = Cardinality(ToSet(order)) /\ Len(order) <= MaxEntries
=============================================================================
