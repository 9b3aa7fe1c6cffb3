-------------------------- MODULE GdacsResolver_proofs --------------------------
(***************************************************************************)
(* Proofs about the resolution of polygons at GDACS, for any events, rings,*)
(* publications and budgets. What a scan concludes is true of the event it *)
(* was made for, and what the cache replays is true of an event with the   *)
(* same key: of the event it is replayed to only as far as the key tells   *)
(* events apart, which the code's does not ensure (MCGdacsCache.cfg).      *)
(***************************************************************************)
EXTENDS GdacsResolver, FiniteSetTheorems, SequenceTheorems, TLAPS

\* An answer that is true of what GDACS has published.
Sound(e, kind, ring) ==
  Url[e] # NoUrl =>
    /\ kind = "ok" => TrueRings(e) = {ring}
    /\ kind = "unverifiable" => Cardinality(TrueRings(e)) # 1

\* True of the event itself, or of another with its URL and vertex count.
SoundAsKeyed(e, kind, ring) ==
  \E f \in Events : Key(f) = Key(e) /\ Sound(f, kind, ring)

SoundAnswer == Sound(answer.event, answer.kind, answer.ring)

\* The rings of the first n episodes that correspond to the event being resolved.
Candidates(n) == {r \in Match[cur] : \E i \in 1..n : r \in Episodes[i]}

AnswerInv ==
  answer # NoAnswer =>
    /\ answer \in [event : Events, kind : Kinds, ring : Rings \cup {NoRing}, excused : BOOLEAN]
    /\ answer.kind = "upstream" => answer.excused = TRUE

BudgetInv == left \in 0..MaxRequests /\ issued \in 0..MaxRequests /\ left + issued = MaxRequests

CacheInv ==
  /\ DOMAIN cache \subseteq Keys
  /\ \A k \in DOMAIN cache : cache[k] \in Result /\ cache[k].kind # "upstream"

\* A scan covers the episodes up to the cap, and knows when it has missed any; it
\* has then met with trouble.
ScanInv ==
  /\ pc \in {"idle", "event", "episode"} /\ cur \in Events
  /\ ep \in Nat \ {0} /\ last \in 0..MaxEpisodes
  /\ found \subseteq (1..MaxEpisodes) \X Rings
  /\ incomplete \in BOOLEAN /\ trouble \in BOOLEAN
  /\ pc # "idle" => Url[cur] \in Urls
  /\ pc = "event" => ep = 1 /\ found = {}
  /\ pc = "episode" => /\ last = Least(Len(Episodes), MaxEpisodes)
                       /\ ep <= last + 1
                       /\ incomplete = TRUE => trouble = TRUE
                       /\ incomplete = FALSE => Len(Episodes) <= MaxEpisodes

ResolverInv ==
  /\ published \in [Urls -> Publications]
  /\ country \in DOMAIN Wanted /\ todo \subseteq Events
  /\ expired \in BOOLEAN /\ cancelled \in BOOLEAN
  /\ BudgetInv /\ ScanInv /\ CacheInv /\ AnswerInv

LEMMA WantedType == 1 \in DOMAIN Wanted /\ \A c \in DOMAIN Wanted : Wanted[c] \subseteq Events
<1>1. Wanted \in Seq(SUBSET Events) /\ Wanted # <<>>
  BY ConstantsAssumption
<1>2. DOMAIN Wanted = 1..Len(Wanted) /\ Len(Wanted) \in Nat
  BY <1>1
<1>3. Len(Wanted) # 0
  BY <1>1, EmptySeq
<1>4. \A c \in 1..Len(Wanted) : Wanted[c] \in SUBSET Events
  BY <1>1, ElementOfSeq
<1> QED
  BY <1>2, <1>3, <1>4

LEMMA Bounds ==
  /\ MaxRequests \in Nat \ {0} /\ MaxEpisodes \in Nat \ {0}
  /\ Url \in [Events -> Urls \cup {NoUrl}]
BY ConstantsAssumption

LEMMA EpisodesType ==
  ASSUME published \in [Urls -> Publications], Url[cur] \in Urls
  PROVE  /\ Episodes \in Seq(SUBSET Rings) /\ Len(Episodes) \in Nat
         /\ \A i \in 1..Len(Episodes) : Episodes[i] \subseteq Rings
<1>1. Episodes \in Seq(SUBSET Rings)
  BY ConstantsAssumption DEF Episodes
<1> QED
  BY <1>1

LEMMA ResolverInit == Init => ResolverInv
<1> SUFFICES ASSUME Init PROVE ResolverInv
  OBVIOUS
<1>1. country \in DOMAIN Wanted /\ todo \subseteq Events
  BY WantedType DEF Init
<1>2. BudgetInv
  <2>1. left = MaxRequests /\ issued = 0 /\ MaxRequests \in Nat
    BY ConstantsAssumption DEF Init
  <2> QED
    BY <2>1 DEF BudgetInv
<1>3. ScanInv
  <2>1. /\ pc = "idle" /\ cur \in Events /\ ep = 1 /\ last = 0 /\ found = {}
        /\ MaxEpisodes \in Nat
    BY ConstantsAssumption DEF Init
  <2>2. incomplete \in BOOLEAN /\ trouble \in BOOLEAN
    BY DEF Init
  <2> QED
    BY <2>1, <2>2 DEF ScanInv
<1>4. CacheInv
  BY DEF Init, CacheInv
<1>5. AnswerInv
  BY DEF Init, AnswerInv
<1> QED
  BY <1>1, <1>2, <1>3, <1>4, <1>5 DEF Init, ResolverInv

\* A resolution that ends keeps the cache free of outages, and an outage has an
\* excuse.
LEMMA FreshConclusion ==
  ASSUME ResolverInv, NEW e \in Events, NEW kind \in Kinds, NEW ring \in Rings \cup {NoRing},
         ConcludeFresh(e, kind, ring), trouble' \in BOOLEAN,
         kind = "upstream" => trouble' = TRUE
  PROVE  /\ CacheInv' /\ AnswerInv' /\ pc' = "idle" /\ todo' \subseteq Events
<1>1. /\ pc' = "idle" /\ todo' \subseteq Events
      /\ answer' = [event |-> e, kind |-> kind, ring |-> ring, excused |-> trouble']
  BY DEF ConcludeFresh, Conclude, ResolverInv
<1>2. AnswerInv'
  <2>1. /\ answer' \in [event : Events, kind : Kinds, ring : Rings \cup {NoRing}, excused : BOOLEAN]
        /\ answer'.excused = trouble' /\ answer'.kind = kind
    BY <1>1
  <2> QED
    BY <2>1 DEF AnswerInv
<1>3. CacheInv'
  <2>1. CASE Cacheable(kind)
    <3> DEFINE result == [kind |-> kind, ring |-> ring]
    <3>1. result \in Result /\ result.kind # "upstream" /\ Key(e) \in Keys
      BY <2>1 DEF Result, Cacheable, Keys
    <3>2. cache' = [k \in DOMAIN cache \cup {Key(e)} |-> IF k = Key(e) THEN result ELSE cache[k]]
      BY <2>1 DEF ConcludeFresh
    <3> HIDE DEF result
    <3> QED
      BY <3>1, <3>2 DEF CacheInv, ResolverInv
  <2>2. CASE ~Cacheable(kind)
    BY <2>2 DEF ConcludeFresh, CacheInv, ResolverInv
  <2> QED
    BY <2>1, <2>2
<1> QED
  BY <1>1, <1>2, <1>3

LEMMA BudgetStep ==
  ASSUME BudgetInv, (CanSpend /\ Spend) \/ NoSpend PROVE BudgetInv'
<1>1. CASE CanSpend /\ Spend
  <2>1. ~(left <= 0)
    BY <1>1 DEF CanSpend, Exhausted
  <2>2. left' = left - 1 /\ issued' = issued + 1
    BY <1>1 DEF Spend
  <2> QED
    BY <2>1, <2>2, Bounds DEF BudgetInv
<1>2. CASE NoSpend
  BY <1>2 DEF NoSpend, BudgetInv
<1> QED
  BY <1>1, <1>2

LEMMA AskStep == ResolverInv /\ Ask => ResolverInv'
<1> SUFFICES ASSUME ResolverInv, Ask PROVE ResolverInv'
  OBVIOUS
<1>1. PICK e \in todo :
       /\ cur' = e
       /\ trouble' = Exhausted
       /\ found' = {} /\ incomplete' = FALSE /\ ep' = 1 /\ last' = 0
       /\ \/ /\ Key(e) \in DOMAIN cache
             /\ Conclude(e, cache[Key(e)].kind, cache[Key(e)].ring)
             /\ UNCHANGED cache
          \/ /\ Key(e) \notin DOMAIN cache /\ Exhausted
             /\ ConcludeFresh(e, "upstream", NoRing)
          \/ /\ Key(e) \notin DOMAIN cache /\ ~Exhausted /\ Url[e] = NoUrl
             /\ ConcludeFresh(e, "unverifiable", NoRing)
          \/ /\ Key(e) \notin DOMAIN cache /\ ~Exhausted /\ Url[e] # NoUrl
             /\ pc' = "event"
             /\ UNCHANGED <<todo, cache, answer>>
  BY DEF Ask
<1>2. e \in Events
  BY <1>1 DEF ResolverInv
<1>3. UNCHANGED <<published, country, expired, cancelled>> /\ BudgetInv'
  BY BudgetStep DEF Ask, ResolverInv
<1>4. trouble' \in BOOLEAN /\ (Exhausted => trouble' = TRUE)
  <2>1. trouble' = Exhausted
    BY <1>1
  <2> QED
    BY <2>1, Zenon DEF Exhausted
<1>5. ASSUME pc' \in {"idle", "event"}, pc' = "idle" \/ Url[e] \in Urls
      PROVE  ScanInv'
  <2>1. /\ cur' = e /\ found' = {} /\ incomplete' \in BOOLEAN /\ ep' = 1 /\ last' = 0
    BY <1>1
  <2>2. pc' # "idle" => Url[cur'] \in Urls
    BY <1>5, <2>1
  <2>3. 0 \in 0..MaxEpisodes
    BY Bounds
  <2> QED
    BY <1>2, <1>4, <1>5, <2>1, <2>2, <2>3 DEF ScanInv
<1>6. CASE /\ Key(e) \in DOMAIN cache
           /\ Conclude(e, cache[Key(e)].kind, cache[Key(e)].ring)
           /\ UNCHANGED cache
  <2>1. cache[Key(e)] \in Result /\ cache[Key(e)].kind # "upstream"
    BY <1>6 DEF ResolverInv, CacheInv
  <2>2. AnswerInv'
    BY <1>2, <1>4, <1>6, <2>1 DEF Conclude, AnswerInv, Result
  <2>3. CacheInv'
    BY <1>6 DEF ResolverInv, CacheInv
  <2> QED
    BY <1>3, <1>5, <1>6, <2>2, <2>3 DEF Conclude, ResolverInv
<1>7. CASE Exhausted /\ ConcludeFresh(e, "upstream", NoRing)
  <2>1. CacheInv' /\ AnswerInv' /\ pc' = "idle" /\ todo' \subseteq Events
    BY <1>2, <1>4, <1>7, FreshConclusion DEF Kinds
  <2> QED
    BY <1>3, <1>5, <2>1 DEF ResolverInv
<1>8. CASE ConcludeFresh(e, "unverifiable", NoRing)
  <2>1. CacheInv' /\ AnswerInv' /\ pc' = "idle" /\ todo' \subseteq Events
    BY <1>2, <1>4, <1>8, FreshConclusion DEF Kinds
  <2> QED
    BY <1>3, <1>5, <2>1 DEF ResolverInv
<1>9. CASE /\ Url[e] # NoUrl /\ pc' = "event"
           /\ UNCHANGED <<todo, cache, answer>>
  <2>1. Url[e] \in Urls
    BY <1>2, <1>9, ConstantsAssumption
  <2>2. CacheInv' /\ AnswerInv'
    BY <1>9 DEF ResolverInv, CacheInv, AnswerInv
  <2> QED
    BY <1>3, <1>5, <1>9, <2>1, <2>2 DEF ResolverInv
<1> QED
  BY <1>1, <1>6, <1>7, <1>8, <1>9

\* A conclusion reached during a scan leaves the scan idle.
LEMMA ScanConcludes ==
  ASSUME ResolverInv, pc # "idle", NEW kind \in Kinds, NEW ring \in Rings \cup {NoRing},
         ConcludeFresh(cur, kind, ring), trouble' \in BOOLEAN,
         kind = "upstream" => trouble' = TRUE,
         (CanSpend /\ Spend) \/ NoSpend,
         UNCHANGED <<published, country, cur, ep, last, found, incomplete, expired, cancelled>>
  PROVE  ResolverInv'
<1>1. cur \in Events
  BY DEF ResolverInv, ScanInv
<1>2. CacheInv' /\ AnswerInv' /\ pc' = "idle" /\ todo' \subseteq Events
  BY <1>1, FreshConclusion
<1>3. BudgetInv'
  BY BudgetStep DEF ResolverInv
<1>4. ScanInv'
  BY <1>2 DEF ResolverInv, ScanInv
<1> QED
  BY <1>2, <1>3, <1>4 DEF ResolverInv

LEMMA FetchEventStep == ResolverInv /\ (FetchEvent \/ FetchEventFails) => ResolverInv'
<1> SUFFICES ASSUME ResolverInv, FetchEvent \/ FetchEventFails PROVE ResolverInv'
  OBVIOUS
<1>1. pc = "event" /\ Url[cur] \in Urls /\ trouble \in BOOLEAN /\ cur \in Events
  BY DEF FetchEvent, FetchEventFails, ResolverInv, ScanInv
<1>2. CASE FetchEventFails
  <2>1. (CanSpend /\ Spend) \/ NoSpend
    BY <1>2 DEF FetchEventFails
  <2> QED
    BY <1>1, <1>2, <2>1, ScanConcludes DEF FetchEventFails, Kinds
<1>3. CASE FetchEvent /\ Episodes = <<>>
  BY <1>1, <1>3, ScanConcludes DEF FetchEvent, Kinds
<1>4. CASE FetchEvent /\ Episodes # <<>>
  <2>1. /\ pc' = "episode" /\ last' = Least(Len(Episodes), MaxEpisodes)
        /\ incomplete' = Truncated(Len(Episodes))
        /\ trouble' = (trouble \/ Len(Episodes) > MaxEpisodes)
        /\ UNCHANGED <<cur, ep, found, todo, cache, answer, published, country, expired, cancelled>>
    BY <1>4 DEF FetchEvent
  <2>2. BudgetInv'
    BY <1>4, BudgetStep DEF FetchEvent, ResolverInv
  <2>3. Len(Episodes) \in Nat
    BY <1>1, EpisodesType DEF ResolverInv
  <2>4. last' \in 0..MaxEpisodes
    BY <2>1, <2>3, Bounds DEF Least
  <2>5. /\ incomplete' \in BOOLEAN /\ trouble' \in BOOLEAN
        /\ incomplete' = TRUE => trouble' = TRUE
        /\ incomplete' = FALSE => ~(Len(Episodes) > MaxEpisodes)
    <3> DEFINE over == Len(Episodes) > MaxEpisodes
    <3>1. incomplete' = over /\ trouble' = (trouble \/ over)
      BY <2>1 DEF Truncated
    <3>2. over \in BOOLEAN
      OBVIOUS
    <3> HIDE DEF over
    <3>3. over => incomplete' = TRUE /\ trouble' = TRUE
      <4>1. over => over = TRUE /\ (trouble \/ over) = TRUE
        BY Zenon
      <4> QED
        BY <3>1, <4>1
    <3>4. ~over => incomplete' = FALSE
      BY <3>1, <3>2
    <3>5. trouble' \in BOOLEAN
      BY <3>1, Zenon
    <3>6. incomplete' = FALSE => ~over
      BY <3>3
    <3> QED
      BY <3>3, <3>4, <3>5, <3>6 DEF over
  <2>6. Episodes' = Episodes
    BY <2>1 DEF Episodes
  <2>7. incomplete' = FALSE => Len(Episodes) <= MaxEpisodes
    BY <2>3, <2>5, Bounds
  <2>8. ep \in Nat \ {0} /\ found \subseteq (1..MaxEpisodes) \X Rings /\ cur \in Events
    BY DEF ResolverInv, ScanInv
  <2>9. ep <= last' + 1
    BY <2>1, <2>4, <2>8, <1>1 DEF ResolverInv, ScanInv
  <2>10. ScanInv'
    BY <1>1, <2>1, <2>4, <2>5, <2>6, <2>7, <2>8, <2>9 DEF ScanInv
  <2> QED
    BY <2>1, <2>2, <2>10 DEF ResolverInv, CacheInv, AnswerInv
<1> QED
  BY <1>2, <1>3, <1>4

\* The scan stands at an episode that GDACS has.
LEMMA AtEpisode ==
  ASSUME ResolverInv, Scanning
  PROVE  /\ pc = "episode" /\ cur \in Events /\ Url[cur] \in Urls
         /\ ep \in 1..MaxEpisodes /\ ep \in 1..Len(Episodes) /\ last \in Nat /\ ep <= last
         /\ Episodes[ep] \subseteq Rings /\ Match[cur] \subseteq Rings
<1>1. /\ pc = "episode" /\ cur \in Events /\ Url[cur] \in Urls
      /\ ep \in Nat \ {0} /\ last \in 0..MaxEpisodes /\ ep <= last
      /\ last = Least(Len(Episodes), MaxEpisodes)
  BY DEF ResolverInv, ScanInv, Scanning
<1>2. Len(Episodes) \in Nat /\ \A i \in 1..Len(Episodes) : Episodes[i] \subseteq Rings
  BY <1>1, EpisodesType DEF ResolverInv
<1>3. last <= Len(Episodes)
  BY <1>1, <1>2, Bounds DEF Least
<1>4. Match[cur] \subseteq Rings
  BY <1>1, ConstantsAssumption
<1> QED
  BY <1>1, <1>2, <1>3, <1>4, Bounds

LEMMA EpisodeSteps ==
  ResolverInv /\ (FetchEpisode \/ FetchEpisodeFails \/ ScanInterrupted) => ResolverInv'
<1> SUFFICES ASSUME ResolverInv, FetchEpisode \/ FetchEpisodeFails \/ ScanInterrupted
             PROVE  ResolverInv'
  OBVIOUS
<1>1. Scanning
  BY DEF FetchEpisode, FetchEpisodeFails, ScanInterrupted
<1>2. ASSUME NEW rings, Collect(rings) PROVE found' \subseteq (1..MaxEpisodes) \X Rings
  BY <1>1, <1>2, AtEpisode DEF Collect, ResolverInv, ScanInv
<1>3. ASSUME FetchEpisode \/ FetchEpisodeFails,
             incomplete' \in BOOLEAN, trouble' \in BOOLEAN,
             incomplete' = TRUE => trouble' = TRUE,
             incomplete' = FALSE => incomplete = FALSE,
             found' \subseteq (1..MaxEpisodes) \X Rings
      PROVE  ResolverInv'
  <2>1. /\ ep' = ep + 1
        /\ UNCHANGED <<published, country, todo, pc, cur, last, expired, cancelled, cache, answer>>
    BY <1>3 DEF FetchEpisode, FetchEpisodeFails, NextEpisode
  <2>2. BudgetInv'
    BY <1>3, BudgetStep DEF FetchEpisode, FetchEpisodeFails, ResolverInv
  <2>3. ep' \in Nat \ {0} /\ ep' <= last' + 1
    BY <1>1, <2>1, AtEpisode
  <2>4. Episodes' = Episodes
    BY <2>1 DEF Episodes
  <2>5. ScanInv'
    BY <1>1, <1>3, <2>1, <2>3, <2>4, AtEpisode DEF ResolverInv, ScanInv
  <2> QED
    BY <2>1, <2>2, <2>5 DEF ResolverInv, CacheInv, AnswerInv
<1>4. CASE FetchEpisode
  <2>1. found' \subseteq (1..MaxEpisodes) \X Rings
    BY <1>2, <1>4 DEF FetchEpisode
  <2> QED
    BY <1>1, <1>3, <1>4, <2>1 DEF FetchEpisode, ResolverInv, ScanInv, Scanning
<1>5. CASE FetchEpisodeFails
  <2>1. found' \subseteq (1..MaxEpisodes) \X Rings
    BY <1>2, <1>5 DEF FetchEpisodeFails, ResolverInv, ScanInv
  <2> QED
    BY <1>3, <1>5, <2>1 DEF FetchEpisodeFails
<1>6. CASE ScanInterrupted
  BY <1>1, <1>6, ScanConcludes DEF ScanInterrupted, Scanning, Kinds
<1> QED
  BY <1>4, <1>5, <1>6

LEMMA ScanEndsStep == ResolverInv /\ ScanEnds => ResolverInv'
<1> SUFFICES ASSUME ResolverInv, ScanEnds PROVE ResolverInv'
  OBVIOUS
<1>1. /\ pc = "episode" /\ trouble \in BOOLEAN /\ incomplete \in BOOLEAN
      /\ incomplete = TRUE => trouble = TRUE
      /\ trouble' = trouble /\ NoSpend
      /\ UNCHANGED <<published, country, cur, ep, last, found, incomplete, expired, cancelled>>
  BY DEF ScanEnds, ResolverInv, ScanInv
<1>2. CASE ~Usable /\ ConcludeFresh(cur, "upstream", NoRing)
  <2>1. trouble' = TRUE
    BY <1>1, <1>2 DEF Usable
  <2> QED
    BY <1>1, <1>2, <2>1, ScanConcludes DEF Kinds
<1>3. CASE ConcludeFresh(cur, "unverifiable", NoRing)
  BY <1>1, <1>3, ScanConcludes DEF Kinds
<1>4. ASSUME NEW r \in Rings, ConcludeFresh(cur, "ok", r)
      PROVE  ResolverInv'
  BY <1>1, <1>4, ScanConcludes DEF Kinds
<1> QED
  BY <1>2, <1>3, <1>4 DEF ScanEnds

LEMMA ResolverNext == ResolverInv /\ [Next]_vars => ResolverInv'
<1> SUFFICES ASSUME ResolverInv, [Next]_vars PROVE ResolverInv'
  OBVIOUS
<1> USE DEF scan
<1>1. CASE NextCountry
  <2>1. country + 1 \in DOMAIN Wanted
    <3>1. Wanted \in Seq(SUBSET Events)
      BY ConstantsAssumption
    <3>2. DOMAIN Wanted = 1..Len(Wanted) /\ Len(Wanted) \in Nat
      BY <3>1
    <3> QED
      BY <1>1, <3>2 DEF NextCountry, ResolverInv
  <2>2. country' \in DOMAIN Wanted /\ todo' \subseteq Events
    BY <1>1, <2>1, WantedType DEF NextCountry
  <2>3. BudgetInv' /\ ScanInv' /\ CacheInv' /\ AnswerInv'
    BY <1>1 DEF NextCountry, BudgetHandedOn, ResolverInv, BudgetInv, ScanInv, CacheInv,
                AnswerInv, Episodes
  <2> QED
    BY <1>1, <2>2, <2>3 DEF NextCountry, ResolverInv
<1>2. CASE DeadlinePasses \/ Cancel \/ UNCHANGED vars
  <2>1. /\ UNCHANGED <<published, country, todo, scan, left, cache, answer, issued, trouble>>
        /\ expired' \in BOOLEAN /\ cancelled' \in BOOLEAN
    BY <1>2 DEF DeadlinePasses, Cancel, vars, ResolverInv
  <2> QED
    BY <2>1 DEF ResolverInv, BudgetInv, ScanInv, CacheInv, AnswerInv, Episodes
<1> QED
  BY <1>1, <1>2, AskStep, FetchEventStep, EpisodeSteps, ScanEndsStep DEF Next

LEMMA ResolverAlways == Spec => []ResolverInv
BY ResolverInit, ResolverNext, PTL DEF Spec

\* Every reachable state is of the declared type. In particular, the requests of all
\* countries of a run, those that failed included, stay within the one budget.
THEOREM TypeCorrect == Spec => []TypeOK
<1>1. ASSUME ResolverInv PROVE TypeOK
  <2>1. answer \in [event : Events, kind : Kinds, ring : Rings \cup {NoRing},
                    excused : BOOLEAN] \cup {NoAnswer}
    BY <1>1 DEF ResolverInv, AnswerInv, NoAnswer
  <2> QED
    BY <1>1, <2>1 DEF ResolverInv, BudgetInv, ScanInv, CacheInv, TypeOK
<1> QED
  BY <1>1, ResolverAlways, PTL

\* An upstream failure always has its cause in the resolution that reports it.
THEOREM OutageCurrent == Spec => []OutageIsCurrent
<1>1. ResolverInv => OutageIsCurrent
  BY DEF ResolverInv, AnswerInv, OutageIsCurrent, Answered
<1> QED
  BY <1>1, ResolverAlways, PTL

\* What the cache holds and what was answered is true of an event with the key,
\* and a scan that has missed nothing has found exactly the candidates among the
\* episodes behind it.
SoundInv ==
  /\ \A k \in DOMAIN cache, e \in Events :
       Key(e) = k => SoundAsKeyed(e, cache[k].kind, cache[k].ring)
  /\ answer # NoAnswer => SoundAsKeyed(answer.event, answer.kind, answer.ring)
  /\ pc = "episode" /\ incomplete = FALSE => RingsFound = Candidates(ep - 1)

\* Episodes that have all been seen leave no ring out.
LEMMA AllSeen ==
  ASSUME ResolverInv, Url[cur] \in Urls PROVE Candidates(Len(Episodes)) = TrueRings(cur)
<1>1. DOMAIN Episodes = 1..Len(Episodes)
  BY EpisodesType DEF ResolverInv
<1> QED
  BY <1>1 DEF Candidates, TrueRings, Episodes

LEMMA SoundInit == Init => SoundInv
BY DEF Init, SoundInv

\* The truth of an answer depends on nothing that changes during a run.
LEMMA TruthStays ==
  ASSUME published' = published
  PROVE  /\ \A e, k, r : Sound(e, k, r)' = Sound(e, k, r)
         /\ \A e, k, r : SoundAsKeyed(e, k, r)' = SoundAsKeyed(e, k, r)
BY DEF Sound, TrueRings, SoundAsKeyed, Key

\* A resolution that ends with a true answer leaves only answers that are true of
\* an event with the key.
LEMMA SoundConclusion ==
  ASSUME SoundInv, NEW e \in Events, NEW kind \in Kinds, NEW ring,
         ConcludeFresh(e, kind, ring), Sound(e, kind, ring), published' = published
  PROVE  SoundInv' /\ SoundAnswer'
<1>1. /\ answer'.event = e /\ answer'.kind = kind /\ answer'.ring = ring /\ pc' = "idle"
  BY DEF ConcludeFresh, Conclude
<1>2. ASSUME NEW f \in Events, Key(f) = Key(e) PROVE SoundAsKeyed(f, kind, ring)
  BY <1>2 DEF SoundAsKeyed
<1>3. ASSUME NEW k \in DOMAIN cache', NEW f \in Events, Key(f) = k
      PROVE  SoundAsKeyed(f, cache'[k].kind, cache'[k].ring)
  <2>1. CASE Cacheable(kind) /\ k = Key(e)
    <3>1. cache'[k].kind = kind /\ cache'[k].ring = ring
      BY <1>3, <2>1 DEF ConcludeFresh
    <3> QED
      BY <1>2, <1>3, <2>1, <3>1
  <2>2. CASE ~(Cacheable(kind) /\ k = Key(e))
    <3>1. k \in DOMAIN cache /\ cache'[k] = cache[k]
      BY <1>3, <2>2 DEF ConcludeFresh
    <3> QED
      BY <1>3, <3>1 DEF SoundInv
  <2> QED
    BY <2>1, <2>2
<1>4. (\A k \in DOMAIN cache, f \in Events :
         Key(f) = k => SoundAsKeyed(f, cache[k].kind, cache[k].ring))'
  BY <1>3, TruthStays DEF Key
<1>5. (SoundAsKeyed(answer.event, answer.kind, answer.ring))'
  BY <1>1, <1>2, TruthStays
<1>6. SoundAnswer'
  BY <1>1, TruthStays DEF SoundAnswer
<1> QED
  BY <1>1, <1>4, <1>5, <1>6 DEF SoundInv

\* Nothing but the scan has changed.
LEMMA SoundKept ==
  ASSUME SoundInv, UNCHANGED <<published, cache, answer>>,
         pc' = "episode" /\ incomplete' = FALSE => RingsFound' = Candidates(ep - 1)'
  PROVE  SoundInv'
<1>1. (\A k \in DOMAIN cache, e \in Events :
         Key(e) = k => SoundAsKeyed(e, cache[k].kind, cache[k].ring))'
  BY TruthStays DEF SoundInv, Key
<1>2. (answer # NoAnswer => SoundAsKeyed(answer.event, answer.kind, answer.ring))'
  BY TruthStays DEF SoundInv
<1> QED
  BY <1>1, <1>2 DEF SoundInv

LEMMA SoundAsk ==
  ASSUME ResolverInv, SoundInv, Ask PROVE SoundInv'
<1>1. PICK e \in todo :
       \/ /\ Key(e) \in DOMAIN cache
          /\ Conclude(e, cache[Key(e)].kind, cache[Key(e)].ring)
          /\ UNCHANGED cache
       \/ ConcludeFresh(e, "upstream", NoRing)
       \/ Url[e] = NoUrl /\ ConcludeFresh(e, "unverifiable", NoRing)
       \/ pc' = "event" /\ UNCHANGED <<todo, cache, answer>>
  BY DEF Ask
<1>2. e \in Events /\ published' = published
  BY <1>1 DEF Ask, ResolverInv
<1>3. CASE /\ Key(e) \in DOMAIN cache
           /\ Conclude(e, cache[Key(e)].kind, cache[Key(e)].ring)
           /\ UNCHANGED cache
  <2>1. /\ answer'.event = e /\ answer'.kind = cache[Key(e)].kind
        /\ answer'.ring = cache[Key(e)].ring /\ pc' = "idle"
    BY <1>3 DEF Conclude
  <2>2. SoundAsKeyed(e, cache[Key(e)].kind, cache[Key(e)].ring)
    BY <1>2, <1>3 DEF SoundInv
  <2>3. (SoundAsKeyed(answer.event, answer.kind, answer.ring))'
    BY <1>2, <2>1, <2>2, TruthStays
  <2>4. (\A k \in DOMAIN cache, f \in Events :
           Key(f) = k => SoundAsKeyed(f, cache[k].kind, cache[k].ring))'
    BY <1>2, <1>3, TruthStays DEF SoundInv, Key
  <2> QED
    BY <2>1, <2>3, <2>4 DEF SoundInv
<1>4. CASE ConcludeFresh(e, "upstream", NoRing)
  BY <1>2, <1>4, SoundConclusion DEF Sound, Kinds
<1>5. CASE Url[e] = NoUrl /\ ConcludeFresh(e, "unverifiable", NoRing)
  BY <1>2, <1>5, SoundConclusion DEF Sound, Kinds
<1>6. CASE pc' = "event" /\ UNCHANGED <<todo, cache, answer>>
  BY <1>2, <1>6, SoundKept
<1> QED
  BY <1>1, <1>3, <1>4, <1>5, <1>6

LEMMA SoundFetchEvent ==
  ASSUME ResolverInv, SoundInv, FetchEvent \/ FetchEventFails
  PROVE  SoundInv' /\ (pc' = "idle" => SoundAnswer')
<1>1. /\ pc = "event" /\ Url[cur] \in Urls /\ cur \in Events /\ ep = 1 /\ found = {}
      /\ published' = published
  BY DEF FetchEvent, FetchEventFails, ResolverInv, ScanInv
<1>2. CASE FetchEventFails
  BY <1>1, <1>2, SoundConclusion DEF FetchEventFails, Sound, Kinds
<1>3. CASE FetchEvent /\ Episodes = <<>>
  <2>1. TrueRings(cur) = {}
    <3>1. published[Url[cur]] = <<>>
      BY <1>3 DEF Episodes
    <3>2. DOMAIN published[Url[cur]] = {}
      BY <3>1
    <3> QED
      BY <3>2 DEF TrueRings
  <2>2. Cardinality(TrueRings(cur)) # 1
    BY <2>1, FS_EmptySet
  <2> QED
    BY <1>1, <1>3, <2>2, SoundConclusion DEF FetchEvent, Sound, Kinds
<1>4. CASE FetchEvent /\ Episodes # <<>>
  <2>1. /\ ep' = 1 /\ found' = {} /\ pc' = "episode"
        /\ UNCHANGED <<published, cache, answer>>
    BY <1>1, <1>4 DEF FetchEvent
  <2>2. RingsFound' = {} /\ Candidates(ep - 1)' = {}
    BY <2>1 DEF RingsFound, Candidates
  <2> QED
    BY <2>1, <2>2, SoundKept
<1> QED
  BY <1>2, <1>3, <1>4

LEMMA SoundEpisodes ==
  ASSUME ResolverInv, SoundInv,
         FetchEpisode \/ FetchEpisodeFails \/ ScanInterrupted
  PROVE  SoundInv' /\ (pc' = "idle" => SoundAnswer')
<1>1. /\ Scanning /\ pc = "episode" /\ cur \in Events /\ ep \in Nat \ {0}
      /\ published' = published
  BY AtEpisode DEF FetchEpisode, FetchEpisodeFails, ScanInterrupted, NextEpisode
<1>2. CASE ScanInterrupted
  BY <1>1, <1>2, SoundConclusion DEF ScanInterrupted, Sound, Kinds
<1>3. CASE FetchEpisodeFails
  BY <1>1, <1>3, SoundKept DEF FetchEpisodeFails, NextEpisode
<1>4. CASE FetchEpisode
  <2>1. /\ ep' = ep + 1 /\ incomplete' = incomplete
        /\ UNCHANGED <<published, cur, pc, cache, answer>>
        /\ found' = found \cup ({ep} \X (Episodes[ep] \cap Match[cur]))
    BY <1>4 DEF FetchEpisode, NextEpisode, Collect
  <2>2. RingsFound' = RingsFound \cup (Episodes[ep] \cap Match[cur])
    <3> DEFINE new == Episodes[ep] \cap Match[cur]
    <3>1. \A c \in {ep} \X new : c[2] \in new
      OBVIOUS
    <3>2. \A r \in new : <<ep, r>> \in {ep} \X new /\ <<ep, r>>[2] = r
      OBVIOUS
    <3>3. found' = found \cup ({ep} \X new)
      BY <2>1
    <3> HIDE DEF new
    <3>4. RingsFound' = RingsFound \cup new
      BY <3>1, <3>2, <3>3 DEF RingsFound
    <3> QED
      BY <3>4 DEF new
  <2>3. \A i : i \in 1..ep <=> i \in 1..ep - 1 \/ i = ep
    BY <1>1
  <2>4. Candidates(ep) = Candidates(ep - 1) \cup (Episodes[ep] \cap Match[cur])
    BY <2>3 DEF Candidates
  <2>5. Candidates(ep - 1)' = Candidates(ep)
    <3>1. ep' - 1 = ep
      BY <1>1, <2>1
    <3> QED
      BY <2>1, <3>1 DEF Candidates, Episodes
  <2>6. incomplete' = FALSE => RingsFound' = Candidates(ep - 1)'
    BY <1>1, <2>1, <2>2, <2>4, <2>5 DEF SoundInv
  <2> QED
    BY <1>1, <2>1, <2>6, SoundKept
<1> QED
  BY <1>2, <1>3, <1>4

\* A scan that ends without having missed anything has the true rings before it.
LEMMA SoundScanEnds ==
  ASSUME ResolverInv, SoundInv, ScanEnds PROVE SoundInv' /\ SoundAnswer'
<1>1. /\ pc = "episode" /\ ep > last /\ cur \in Events /\ Url[cur] \in Urls
      /\ published' = published /\ incomplete \in BOOLEAN
  BY DEF ScanEnds, ResolverInv, ScanInv
<1>2. ASSUME Usable PROVE RingsFound = TrueRings(cur)
  <2>1. /\ incomplete = FALSE /\ last = Least(Len(Episodes), MaxEpisodes)
        /\ ep \in Nat /\ last \in Nat /\ ep <= last + 1 /\ Len(Episodes) <= MaxEpisodes
    BY <1>1, <1>2 DEF Usable, ResolverInv, ScanInv
  <2>2. Len(Episodes) \in Nat
    BY <1>1, EpisodesType DEF ResolverInv
  <2>3. last = Len(Episodes)
    BY <2>1, <2>2, Bounds DEF Least
  <2>4. ep - 1 = Len(Episodes)
    BY <1>1, <2>1, <2>3
  <2>5. RingsFound = Candidates(ep - 1)
    BY <1>1, <2>1 DEF SoundInv
  <2>6. RingsFound = Candidates(Len(Episodes))
    BY <2>4, <2>5
  <2> QED
    BY <1>1, <2>6, AllSeen
<1>3. CASE ConcludeFresh(cur, "upstream", NoRing)
  BY <1>1, <1>3, SoundConclusion DEF Sound, Kinds
<1>4. CASE /\ Usable /\ Cardinality(RingsFound) # 1
           /\ ConcludeFresh(cur, "unverifiable", NoRing)
  BY <1>1, <1>2, <1>4, SoundConclusion DEF Sound, Kinds
<1>5. ASSUME Usable, NEW r \in Rings, RingsFound = {r}, ConcludeFresh(cur, "ok", r)
      PROVE  SoundInv' /\ SoundAnswer'
  BY <1>1, <1>2, <1>5, SoundConclusion DEF Sound, Kinds
<1> QED
  BY <1>3, <1>4, <1>5 DEF ScanEnds

LEMMA SoundNext ==
  ASSUME ResolverInv, SoundInv, [Next]_vars PROVE SoundInv'
<1>1. CASE NextCountry \/ DeadlinePasses \/ Cancel \/ UNCHANGED vars
  <2>1. UNCHANGED <<published, cache, answer, pc, cur, ep, found, incomplete>>
    BY <1>1 DEF NextCountry, DeadlinePasses, Cancel, vars, scan
  <2>2. RingsFound' = RingsFound /\ Candidates(ep - 1)' = Candidates(ep - 1)
    BY <2>1 DEF RingsFound, Candidates, Episodes
  <2> QED
    BY <2>1, <2>2, SoundKept DEF SoundInv
<1> QED
  BY <1>1, SoundAsk, SoundFetchEvent, SoundEpisodes, SoundScanEnds DEF Next

LEMMA SoundAlways == Spec => []SoundInv
<1>1. ResolverInv /\ SoundInv /\ [Next]_vars => SoundInv'
  BY SoundNext
<1> QED
  BY <1>1, SoundInit, ResolverAlways, PTL DEF Spec

\* Every answer, replayed or not, is true of an event with the key of the event
\* answered for (TrueRings is what GDACS has published and the event matches).
PlacedAsKeyed ==
  Answered =>
    \E f \in Events :
      /\ Key(f) = Key(answer.event)
      /\ answer.kind = "ok" => TrueRings(f) = {answer.ring}
      /\ answer.kind = "unverifiable" => Cardinality(TrueRings(f)) # 1

\* Cached or not, a placement is the only one there is, and a refusal a fact, for
\* some event with the same URL and vertex count, for any publications, partial
\* answers, deadlines and cancellations: only events that share a key and match
\* different rings can be misplaced.
THEOREM Placed == Spec => []PlacedAsKeyed
<1>1. SoundInv => PlacedAsKeyed
  <2> SUFFICES ASSUME SoundInv, Answered PROVE PlacedAsKeyed
    BY DEF PlacedAsKeyed
  <2>1. PICK f \in Events : Key(f) = Key(answer.event)
                            /\ Sound(f, answer.kind, answer.ring)
    BY DEF SoundInv, Answered, SoundAsKeyed
  <2>2. Url[f] # NoUrl
    BY <2>1 DEF Key, Answered
  <2> QED
    BY <2>1, <2>2 DEF PlacedAsKeyed, Sound
<1> QED
  BY <1>1, SoundAlways, PTL

\* Whatever a scan concludes is right for the very event it was made for: no cap,
\* failed request, exhausted budget, deadline or cancellation in the middle of it
\* leads to a match or a refusal that the missing part would have ruled out.
THEOREM ScanPlaces == Spec => [][pc # "idle" /\ pc' = "idle" => PlacedRight']_vars
<1>1. ASSUME ResolverInv, SoundInv, [Next]_vars, pc # "idle", pc' = "idle"
      PROVE  PlacedRight'
  <2>1. SoundAnswer'
    BY <1>1, SoundFetchEvent, SoundEpisodes, SoundScanEnds
       DEF Next, vars, scan, Ask, NextCountry, DeadlinePasses, Cancel
  <2> QED
    BY <2>1 DEF SoundAnswer, Sound, PlacedRight, Answered
<1> QED
  BY <1>1, ResolverAlways, SoundAlways, PTL DEF Spec
================================================================================
