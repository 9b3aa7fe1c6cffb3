--------------------------- MODULE GdacsResolver ---------------------------
(***************************************************************************)
(* Resolving the geometry of EONET polygon events at GDACS in one ingestion*)
(* run: RunBudget (requests, deadline, cache), resolveTyped, and the scan  *)
(* of a GDACS event's episodes in resolveGDACSPolygon.                     *)
(*                                                                         *)
(* GDACS answers a request with what it has published, in part, or not at  *)
(* all; what it has published does not change during a run.                *)
(***************************************************************************)
EXTENDS Integers, Sequences, FiniteSets

CONSTANTS
  Events,       \* EONET polygon events of a run
  Urls,         \* usable GDACS report URLs
  NoUrl,        \* a source URL that is not a GDACS reference
  Rings,        \* polygons GDACS may publish
  Url,          \* [Events -> Urls \cup {NoUrl}]
  Vertices,     \* [Events -> Nat]: vertex count of the EONET polygon
  Match,        \* [Events -> SUBSET Rings]: rings positionsCorrespond accepts
  Wanted,       \* the events of each country, in the order of the run
  Publications, \* episode sequences GDACS may hold for a URL
  MaxRequests,  \* maxGDACSRequestsPerRun
  MaxEpisodes   \* maxGDACSEpisodes

ASSUME ConstantsAssumption ==
  /\ Url \in [Events -> Urls \cup {NoUrl}] /\ NoUrl \notin Urls
  /\ Vertices \in [Events -> Nat]
  /\ Match \in [Events -> SUBSET Rings]
  /\ Wanted \in Seq(SUBSET Events) /\ Wanted # <<>>
  /\ \A p \in Publications : p \in Seq(SUBSET Rings)
  /\ "no ring" \notin Rings
  /\ MaxRequests \in Nat \ {0} /\ MaxEpisodes \in Nat \ {0}

VARIABLES
  published,  \* what GDACS holds: the rings of each episode of each URL
  country,    \* index of the country being ingested
  todo,       \* its polygon events still to be resolved
  pc,         \* "idle", "event" or "episode"
  cur,        \* the event being resolved
  ep,         \* next episode of the scan
  last,       \* number of episodes the scan covers
  found,      \* candidates: <<episode, ring>>
  incomplete, \* the scan saw fewer than all episodes
  left,       \* requestsLeft of the budget
  expired,    \* its deadline has passed
  cancelled,  \* the run's context is cancelled
  cache,      \* answers, by key
  answer,     \* the last resolution
  issued,     \* ghost: requests issued since the run began
  trouble     \* ghost: something kept this resolution from a full answer

scan == <<pc, cur, ep, last, found, incomplete>>
vars == <<published, country, todo, scan, left, expired, cancelled, cache,
          answer, issued, trouble>>

Kinds == {"ok", "unverifiable", "upstream"}

NoRing == "no ring"

\* fmt.Sprintf("%s#%d", sourceURL, len(eonet))
Key(e) == <<Url[e], Vertices[e]>>

Keys == {Key(e) : e \in Events}

Result == [kind : Kinds, ring : Rings \cup {NoRing}]

NoAnswer == [event |-> "none", kind |-> "unverifiable", ring |-> NoRing,
             excused |-> TRUE]

\* The requests of the run, over all its countries, stay within its budget.
TypeOK ==
  /\ published \in [Urls -> Publications]
  /\ country \in DOMAIN Wanted /\ todo \subseteq Events
  /\ pc \in {"idle", "event", "episode"} /\ cur \in Events
  /\ ep \in Nat \ {0} /\ last \in 0..MaxEpisodes
  /\ found \subseteq (1..MaxEpisodes) \X Rings
  /\ incomplete \in BOOLEAN
  /\ left \in 0..MaxRequests
  /\ expired \in BOOLEAN /\ cancelled \in BOOLEAN
  /\ DOMAIN cache \subseteq Keys
  /\ \A k \in DOMAIN cache : cache[k] \in Result
  /\ answer \in [event : Events, kind : Kinds, ring : Rings \cup {NoRing},
                 excused : BOOLEAN] \cup {NoAnswer}
  /\ issued \in 0..MaxRequests /\ trouble \in BOOLEAN

Init ==
  /\ published \in [Urls -> Publications]
  /\ country = 1 /\ todo = Wanted[1]
  /\ pc = "idle" /\ cur \in Events
  /\ ep = 1 /\ last = 0 /\ found = {} /\ incomplete = FALSE
  /\ left = MaxRequests /\ expired = FALSE /\ cancelled = FALSE
  /\ cache = <<>>
  /\ answer = NoAnswer
  /\ issued = 0 /\ trouble = FALSE

(***************************************************************************)
(* The budget.                                                             *)
(***************************************************************************)
Exhausted == left <= 0 \/ expired

CanSpend == ~Exhausted

Spend == left' = left - 1 /\ issued' = issued + 1

NoSpend == UNCHANGED <<left, issued>>

\* Faulty variant: a budget per country.
FreshBudget == MaxRequests

\* The one budget of the run is handed on to the next country.
BudgetHandedOn == left

(***************************************************************************)
(* The end of a resolution: resolveTyped caches answers, never outages.    *)
(***************************************************************************)

\* Faulty variant: outages are cached too.
CacheableAll(kind) == TRUE

Cacheable(kind) == kind # "upstream"

Conclude(e, kind, ring) ==
  /\ answer' = [event |-> e, kind |-> kind, ring |-> ring, excused |-> trouble']
  /\ pc' = "idle" /\ todo' = todo \ {e}

ConcludeFresh(e, kind, ring) ==
  /\ Conclude(e, kind, ring)
  /\ cache' = IF Cacheable(kind)
              THEN [k \in DOMAIN cache \cup {Key(e)} |->
                      IF k = Key(e) THEN [kind |-> kind, ring |-> ring] ELSE cache[k]]
              ELSE cache

\* processEONETBody comes to a polygon event: resolveTyped.
Ask ==
  /\ pc = "idle" /\ ~cancelled
  /\ \E e \in todo :
       /\ cur' = e
       /\ trouble' = Exhausted
       /\ found' = {} /\ incomplete' = FALSE /\ ep' = 1 /\ last' = 0
       /\ \/ /\ Key(e) \in DOMAIN cache
             /\ Conclude(e, cache[Key(e)].kind, cache[Key(e)].ring)
             /\ UNCHANGED cache
          \/ /\ Key(e) \notin DOMAIN cache /\ Exhausted
             /\ ConcludeFresh(e, "upstream", NoRing)
          \/ /\ Key(e) \notin DOMAIN cache /\ ~Exhausted /\ Url[e] = NoUrl
             /\ ConcludeFresh(e, "unverifiable", NoRing)
          \/ /\ Key(e) \notin DOMAIN cache /\ ~Exhausted /\ Url[e] # NoUrl
             /\ pc' = "event"
             /\ UNCHANGED <<todo, cache, answer>>
  /\ NoSpend
  /\ UNCHANGED <<published, country, expired, cancelled>>

Episodes == published[Url[cur]]

Truncated(n) == n > MaxEpisodes

Least(m, n) == IF m < n THEN m ELSE n

\* The event request is answered: not known or without episodes, or with the
\* number of its episodes.
FetchEvent ==
  /\ pc = "event"
  /\ CanSpend /\ Spend
  /\ IF Episodes = <<>>
     THEN /\ UNCHANGED <<cur, ep, last, found, incomplete, trouble>>
          /\ ConcludeFresh(cur, "unverifiable", NoRing)
     ELSE /\ pc' = "episode"
          /\ last' = Least(Len(Episodes), MaxEpisodes)
          /\ incomplete' = Truncated(Len(Episodes))
          /\ trouble' = (trouble \/ Len(Episodes) > MaxEpisodes)
          /\ UNCHANGED <<cur, ep, found, todo, cache, answer>>
  /\ UNCHANGED <<published, country, expired, cancelled>>

\* The budget is gone, or no usable answer comes back.
FetchEventFails ==
  /\ pc = "event"
  /\ IF CanSpend THEN Spend ELSE NoSpend
  /\ trouble' = TRUE
  /\ ConcludeFresh(cur, "upstream", NoRing)
  /\ UNCHANGED <<published, country, cur, ep, last, found, incomplete, expired, cancelled>>

Scanning == pc = "episode" /\ ep <= last

NextEpisode ==
  /\ ep' = ep + 1
  /\ UNCHANGED <<published, country, todo, pc, cur, last, expired, cancelled,
                 cache, answer>>

Collect(rings) == found' = found \cup ({ep} \X (rings \cap Match[cur]))

\* An episode is answered in full (a 404 or an empty answer says it has none).
FetchEpisode ==
  /\ Scanning
  /\ CanSpend /\ Spend
  /\ Collect(Episodes[ep])
  /\ NextEpisode
  /\ UNCHANGED <<incomplete, trouble>>

\* No usable answer, or some features of it are not readable.
FetchEpisodeFails ==
  /\ Scanning
  /\ \/ ~CanSpend /\ NoSpend /\ UNCHANGED found
     \/ /\ CanSpend /\ Spend
        /\ \E rings \in SUBSET Episodes[ep] : Collect(rings)
  /\ incomplete' = TRUE /\ trouble' = TRUE
  /\ NextEpisode

\* ctx.Err() between episodes: the deadline or the run's cancellation.
ScanInterrupted ==
  /\ Scanning /\ (expired \/ cancelled)
  /\ trouble' = TRUE
  /\ ConcludeFresh(cur, "upstream", NoRing)
  /\ NoSpend
  /\ UNCHANGED <<published, country, cur, ep, last, found, incomplete, expired, cancelled>>

RingsFound == {c[2] : c \in found}

\* Faulty variant: a partial scan with exactly one candidate resolves.
UsableOnOne == ~incomplete \/ Cardinality(RingsFound) = 1

\* Whatever was found, a partial view establishes nothing.
Usable == ~incomplete

ScanEnds ==
  /\ pc = "episode" /\ ep > last
  /\ UNCHANGED trouble
  /\ \/ /\ ~Usable
        /\ ConcludeFresh(cur, "upstream", NoRing)
     \/ /\ Usable /\ Cardinality(RingsFound) # 1
        /\ ConcludeFresh(cur, "unverifiable", NoRing)
     \/ /\ Usable
        /\ \E r \in Rings : RingsFound = {r} /\ ConcludeFresh(cur, "ok", r)
  /\ NoSpend
  /\ UNCHANGED <<published, country, cur, ep, last, found, incomplete, expired,
                 cancelled>>

(***************************************************************************)
(* Around the resolutions.                                                 *)
(***************************************************************************)
NextCountry ==
  /\ pc = "idle" /\ ~cancelled /\ country < Len(Wanted)
  /\ country' = country + 1 /\ todo' = Wanted[country + 1]
  /\ left' = BudgetHandedOn
  /\ UNCHANGED <<published, scan, expired, cancelled, cache, answer, issued, trouble>>

DeadlinePasses ==
  /\ ~expired /\ expired' = TRUE
  /\ UNCHANGED <<published, country, todo, scan, left, cancelled, cache, answer,
                 issued, trouble>>

Cancel ==
  /\ ~cancelled /\ cancelled' = TRUE
  /\ UNCHANGED <<published, country, todo, scan, left, expired, cache, answer,
                 issued, trouble>>

Next ==
  \/ Ask \/ FetchEvent \/ FetchEventFails \/ FetchEpisode \/ FetchEpisodeFails
  \/ ScanInterrupted \/ ScanEnds \/ NextCountry \/ DeadlinePasses \/ Cancel

Spec == Init /\ [][Next]_vars

(***************************************************************************)
(* Properties.                                                             *)
(***************************************************************************)
Answered == answer # NoAnswer /\ Url[answer.event] # NoUrl

\* The rings GDACS publishes for an event's URL that correspond to it.
TrueRings(e) ==
  {r \in Match[e] : \E i \in DOMAIN published[Url[e]] : r \in published[Url[e]][i]}

\* A resolved geometry is the one and only ring of all the episodes GDACS has
\* published that corresponds to the event: a guess would relocate a disaster.
\* "Unverifiable" is a fact about what GDACS publishes, never an outage.
PlacedRight ==
  Answered =>
    /\ answer.kind = "ok" => TrueRings(answer.event) = {answer.ring}
    /\ answer.kind = "unverifiable" => Cardinality(TrueRings(answer.event)) # 1

\* An event is reported as an upstream failure only if something kept this
\* very resolution from an answer: an outage is never replayed from the cache.
OutageIsCurrent == Answered /\ answer.kind = "upstream" => answer.excused
=============================================================================
