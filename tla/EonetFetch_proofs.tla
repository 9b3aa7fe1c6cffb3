--------------------------- MODULE EonetFetch_proofs ---------------------------
(***************************************************************************)
(* Proofs about the attempts and waits of a fetch: its counters stay in    *)
(* their ranges and its time is bounded, and so is the time of a run, for  *)
(* every number of countries, every client timeout and whatever hints      *)
(* EONET sends.                                                            *)
(***************************************************************************)
EXTENDS EonetFetch, TLAPS

LongestHint == maxRetryAfterSeconds + 5

\* Seconds slept after t broken answers.
Slept == [t \in 0..maxTransientRetries |->
            IF t = 0 THEN 0 ELSE IF t = 1 THEN transientRetryDelays[1]
            ELSE transientRetryDelays[1] + transientRetryDelays[2]]

\* The longest that n attempts can take, t of which were broken.
Longest(n, t) == n * Timeout + (n - t) * LongestHint + Slept[t]

\* The counters agree with where the fetch is; what it has spent, and is about to
\* sleep, is paid for by its attempts. The last attempt sleeps only if it broke.
FetchInv ==
  /\ TypeOK
  /\ pc \in {"request", "sleep", "process"} => country \in Countries
  /\ pc \in {"request", "sleep"} => breaks = transient
  /\ pc = "request" => /\ transient <= attempt /\ refusals <= attempt
                       /\ spent <= Longest(attempt, transient)
  /\ pc = "sleep" => /\ transient <= attempt + 1 /\ refusals <= attempt + 1
                     /\ attempt = maxRetries => transient > 0
                     /\ spent + wait <= Longest(attempt + 1, transient)
  /\ FetchTimeBounded

LEMMA SleptValues == Slept[0] = 0 /\ Slept[1] = 5 /\ Slept[2] = 20
BY DEF Slept, maxTransientRetries, transientRetryDelays

\* A fetch that is about to make its last attempt, or has slept after any but the
\* last, or after a broken last one, is within the bound.
LEMMA LongestBounded ==
  ASSUME NEW n \in 0..4, NEW t \in 0..2, t <= n, n = 4 => t > 0
  PROVE  /\ Longest(n, t) \in Int
         /\ Longest(n, t) <= 4 * Timeout + 200
         /\ n < 4 => Longest(n, t) + Timeout <= 4 * Timeout + 195
<1>1. /\ (n = 0 \/ n = 1 \/ n = 2 \/ n = 3 \/ n = 4)
      /\ (t = 0 \/ t = 1 \/ t = 2)
  OBVIOUS
<1>2. Timeout \in Nat
  BY ConstantsAssumption
<1>3. Slept[t] \in {0, 5, 20} /\ (t = 0 => Slept[t] = 0) /\ (t = 1 => Slept[t] = 5)
  BY <1>1, SleptValues
<1>4. CASE n = 0
  BY <1>1, <1>2, <1>3, <1>4, SleptValues DEF Longest, LongestHint, maxRetryAfterSeconds
<1>5. CASE n = 1
  BY <1>1, <1>2, <1>3, <1>5, SleptValues DEF Longest, LongestHint, maxRetryAfterSeconds
<1>6. CASE n = 2
  BY <1>1, <1>2, <1>3, <1>6, SleptValues DEF Longest, LongestHint, maxRetryAfterSeconds
<1>7. CASE n = 3
  BY <1>1, <1>2, <1>3, <1>7, SleptValues DEF Longest, LongestHint, maxRetryAfterSeconds
<1>8. CASE n = 4
  BY <1>1, <1>2, <1>3, <1>8, SleptValues DEF Longest, LongestHint, maxRetryAfterSeconds
<1> QED
  BY <1>1, <1>4, <1>5, <1>6, <1>7, <1>8

\* One more attempt pays for a whole timeout and for the wait after it.
LEMMA OneMore ==
  ASSUME NEW n \in 0..3, NEW t \in 0..2
  PROVE  /\ Longest(n + 1, t) = Longest(n, t) + Timeout + 65
         /\ t < 2 => Longest(n + 1, t + 1) = Longest(n, t) + Timeout + transientRetryDelays[t + 1]
<1>1. t = 0 \/ t = 1 \/ t = 2
  OBVIOUS
<1>2. /\ Timeout \in Nat
      /\ (n + 1) * Timeout = n * Timeout + Timeout
      /\ n * Timeout \in Int
  BY ConstantsAssumption
<1>3. CASE t = 0
  BY <1>2, <1>3, SleptValues DEF Longest, LongestHint, maxRetryAfterSeconds, transientRetryDelays
<1>4. CASE t = 1
  BY <1>2, <1>4, SleptValues DEF Longest, LongestHint, maxRetryAfterSeconds, transientRetryDelays
<1>5. CASE t = 2
  BY <1>2, <1>5, SleptValues DEF Longest, LongestHint, maxRetryAfterSeconds, transientRetryDelays
<1> QED
  BY <1>1, <1>3, <1>4, <1>5

\* In the run's own words.
LEMMA TheBound ==
  FetchTimeBounded <=> spent <= 4 * Timeout + 200
BY ConstantsAssumption
   DEF FetchTimeBounded, maxRetries, maxRetryAfterSeconds, transientRetryDelays

LEMMA FetchInit == Init => FetchInv
<1>1. ASSUME Init PROVE TypeOK
  <2>1. /\ country \in 1..NumCountries + 1 /\ spent \in Nat /\ elapsed \in Nat
        /\ attempt \in 0..maxRetries /\ transient \in 0..maxTransientRetries
        /\ wait \in 0..maxRetryAfterSeconds + 5
        /\ refusals \in 0..maxRetries + 1 /\ breaks \in 0..maxTransientRetries + 1
    BY <1>1, ConstantsAssumption
       DEF Init, maxRetries, maxTransientRetries, maxRetryAfterSeconds
  <2>2. cancelled \in BOOLEAN /\ begun \subseteq Countries
    BY <1>1 DEF Init
  <2> QED
    BY <1>1, <2>1, <2>2 DEF Init, TypeOK
<1>2. ASSUME Init PROVE FetchTimeBounded
  BY <1>2, TheBound, ConstantsAssumption DEF Init
<1> QED
  BY <1>1, <1>2 DEF Init, FetchInv

\* A fetch that has just been called.
LEMMA FetchBegins ==
  ASSUME FetchInv, NEW s \in {"open", "closed"}, Fetch(s),
         country' = country, country \in Countries,
         elapsed' = elapsed, cancelled' = cancelled, begun' \subseteq Countries
  PROVE  FetchInv'
<1> USE DEF maxRetries, maxTransientRetries, maxRetryAfterSeconds
<1>1. TypeOK'
  BY DEF Fetch, FetchInv, TypeOK
<1>2. spent' <= Longest(0, 0)
  BY SleptValues, ConstantsAssumption DEF Fetch, Longest, LongestHint
<1>3. FetchTimeBounded'
  BY ConstantsAssumption DEF Fetch, FetchTimeBounded, transientRetryDelays
<1> QED
  BY <1>1, <1>2, <1>3 DEF Fetch, FetchInv

\* The loops over countries and queries.
LEMMA LoopSteps ==
  FetchInv /\ (BeginCountry \/ ProcessBody \/ ProcessBodyFails) => FetchInv'
<1> SUFFICES ASSUME FetchInv, BeginCountry \/ ProcessBody \/ ProcessBodyFails PROVE FetchInv'
  OBVIOUS
<1> USE ConstantsAssumption
<1>1. ASSUME NEW next \in {"country", "done"}, Idle(next),
             country' \in 1..NumCountries + 1, elapsed' = elapsed,
             cancelled' = cancelled, begun' = begun
      PROVE  FetchInv'
  BY <1>1 DEF Idle, FetchInv, TypeOK, FetchTimeBounded
<1>2. ASSUME NEW failed \in BOOLEAN, EndCountry(failed), pc = "process",
             elapsed' = elapsed, cancelled' = cancelled, begun' = begun
      PROVE  FetchInv'
  <2>1. country' \in 1..NumCountries + 1
    BY <1>2 DEF EndCountry, AfterFailure, FetchInv, Countries
  <2> QED
    BY <1>1, <1>2, <2>1 DEF EndCountry
<1>3. CASE BeginCountry
  <2>1. CASE cancelled \/ country > NumCountries
    BY <1>1, <1>3, <2>1 DEF BeginCountry, FetchInv, TypeOK
  <2>2. CASE ~(cancelled \/ country > NumCountries)
    <3>1. country \in 1..NumCountries
      BY <2>2 DEF FetchInv, TypeOK
    <3>2. begun' \subseteq Countries
      BY <1>3, <2>2, <3>1 DEF BeginCountry, FetchInv, TypeOK, Countries
    <3> QED
      BY <1>3, <2>2, <3>1, <3>2, FetchBegins DEF BeginCountry, Countries
  <2> QED
    BY <2>1, <2>2
<1>4. CASE ProcessBody
  <2>1. CASE Fetch("closed") /\ UNCHANGED country
    <3>1. country \in Countries /\ begun' \subseteq Countries
      BY <1>4 DEF ProcessBody, FetchInv, TypeOK
    <3> QED
      BY <1>4, <2>1, <3>1, FetchBegins DEF ProcessBody
  <2>2. CASE EndCountry(status = "open")
    BY <1>2, <1>4, <2>2 DEF ProcessBody
  <2> QED
    BY <1>4, <2>1, <2>2 DEF ProcessBody
<1>5. CASE ProcessBodyFails
  BY <1>2, <1>5 DEF ProcessBodyFails
<1> QED
  BY <1>3, <1>4, <1>5

\* A fetch that ends leaves nothing but the time it took.
LEMMA FetchEnds ==
  ASSUME FetchInv, GiveUp, country \in Countries,
         spent' \in Nat, spent' <= 4 * Timeout + 200, elapsed' \in Nat,
         refusals' \in 0..4, breaks' \in 0..3
  PROVE  FetchInv'
<1> USE DEF maxRetries, maxTransientRetries, maxRetryAfterSeconds
<1>1. TypeOK'
  BY ConstantsAssumption DEF GiveUp, AfterFailure, FetchInv, TypeOK, Countries
<1>2. FetchTimeBounded'
  BY ConstantsAssumption DEF FetchTimeBounded, transientRetryDelays
<1> QED
  BY <1>1, <1>2 DEF GiveUp, FetchInv

\* What an answer finds, and leaves when it takes d seconds.
LEMMA AtAnswer ==
  ASSUME FetchInv, pc = "request", NEW d \in Durations, Takes(d)
  PROVE  /\ attempt \in 0..3 /\ transient \in 0..2 /\ transient <= attempt
         /\ country \in Countries /\ breaks = transient /\ refusals <= attempt
         /\ refusals \in 0..4 /\ elapsed' \in Nat /\ spent' \in Nat
         /\ spent' <= Longest(attempt, transient) + Timeout
         /\ spent' <= 4 * Timeout + 200
<1> USE DEF maxRetries, maxTransientRetries, maxRetryAfterSeconds
<1>1. /\ attempt \in 0..3 /\ transient \in 0..2 /\ transient <= attempt
      /\ country \in Countries /\ breaks = transient /\ refusals <= attempt
      /\ refusals \in 0..4 /\ spent \in Nat /\ elapsed \in Nat
      /\ spent <= Longest(attempt, transient)
  BY DEF FetchInv, TypeOK
<1>2. /\ Longest(attempt, transient) \in Int
      /\ Longest(attempt, transient) + Timeout <= 4 * Timeout + 200
  <2>1. /\ Longest(attempt, transient) \in Int
        /\ Longest(attempt, transient) + Timeout <= 4 * Timeout + 195
    BY <1>1, LongestBounded
  <2> QED
    BY <2>1, ConstantsAssumption
<1> QED
  BY <1>1, <1>2, ConstantsAssumption DEF Takes

LEMMA AnswerSteps ==
  FetchInv /\ (AnswerOK \/ AnswerOther) => FetchInv'
<1> SUFFICES ASSUME FetchInv, AnswerOK \/ AnswerOther PROVE FetchInv'
  OBVIOUS
<1>1. PICK d \in Durations : Takes(d)
  BY DEF AnswerOK, AnswerOther
<1>2. pc = "request" /\ UNCHANGED <<refusals, breaks>>
  BY DEF AnswerOK, AnswerOther
<1>3. CASE GiveUp
  BY <1>1, <1>2, <1>3, AtAnswer, FetchEnds
<1>4. CASE /\ pc' = "process" /\ body' = "read"
           /\ UNCHANGED <<country, status, attempt, transient, wait, begun, cancelled>>
  <2>1. TypeOK'
    BY <1>1, <1>2, <1>4, AtAnswer DEF FetchInv, TypeOK
  <2>2. FetchTimeBounded'
    BY <1>1, <1>2, AtAnswer, ConstantsAssumption
       DEF FetchTimeBounded, maxRetries, maxRetryAfterSeconds, transientRetryDelays
  <2> QED
    BY <1>1, <1>2, <1>4, <2>1, <2>2, AtAnswer DEF FetchInv
<1> QED
  BY <1>3, <1>4 DEF AnswerOK, AnswerOther

\* The wait after a refusal is one hint at most, and there is none after the last.
LEMMA RefusedStep == FetchInv /\ AnswerRefused => FetchInv'
<1> SUFFICES ASSUME FetchInv, AnswerRefused PROVE FetchInv'
  OBVIOUS
<1> USE DEF maxRetries, maxTransientRetries, maxRetryAfterSeconds
<1>1. PICK d \in Durations : Takes(d)
  BY DEF AnswerRefused
<1>2. pc = "request" /\ refusals' = refusals + 1 /\ breaks' = breaks
  BY DEF AnswerRefused
<1>3. PICK hint \in Hints :
        IF attempt = maxRetries \/ ~Acceptable(hint) THEN GiveUp
        ELSE SleepFor(Backoff(hint)) /\ UNCHANGED transient
  BY DEF AnswerRefused
<1>4. CASE GiveUp
  BY <1>1, <1>2, <1>4, AtAnswer, FetchEnds
<1>5. CASE /\ attempt # maxRetries /\ Acceptable(hint)
           /\ SleepFor(Backoff(hint)) /\ UNCHANGED transient
  <2>1. attempt \in 0..2
    BY <1>1, <1>2, <1>5, AtAnswer
  <2>2. defaultDelays[attempt + 1] \in 5..20
    <3>1. attempt = 0 \/ attempt = 1 \/ attempt = 2
      BY <2>1
    <3> QED
      BY <3>1 DEF defaultDelays
  <2>3. wait' \in 0..65
    BY <1>5, <2>2, ConstantsAssumption DEF SleepFor, Backoff, Acceptable
  <2>4. spent' + wait' <= Longest(attempt + 1, transient)
    <3>1. /\ Longest(attempt + 1, transient) = Longest(attempt, transient) + Timeout + 65
          /\ Longest(attempt, transient) \in Int
      BY <1>1, <1>2, <2>1, AtAnswer, OneMore, LongestBounded
    <3> QED
      BY <1>1, <1>2, <2>3, <3>1, AtAnswer, ConstantsAssumption
  <2>5. TypeOK'
    BY <1>1, <1>2, <1>5, <2>3, AtAnswer DEF SleepFor, FetchInv, TypeOK
  <2>6. FetchTimeBounded'
    BY <1>1, <1>2, AtAnswer, ConstantsAssumption DEF FetchTimeBounded, transientRetryDelays
  <2> QED
    BY <1>1, <1>2, <1>5, <2>1, <2>4, <2>5, <2>6, AtAnswer DEF SleepFor, FetchInv
<1> QED
  BY <1>3, <1>4, <1>5

\* The waits after broken answers are those of the transient budget, and the one
\* after the last attempt is paid for by a refusal less.
LEMMA BrokenStep == FetchInv /\ AnswerBroken => FetchInv'
<1> SUFFICES ASSUME FetchInv, AnswerBroken PROVE FetchInv'
  OBVIOUS
<1> USE DEF maxRetries, maxTransientRetries, maxRetryAfterSeconds
<1>1. PICK d \in Durations : Takes(d)
  BY DEF AnswerBroken
<1>2. pc = "request" /\ breaks' = breaks + 1 /\ refusals' = refusals
  BY DEF AnswerBroken
<1>3. CASE ~TransientLeft
  BY <1>1, <1>2, <1>3, AtAnswer, FetchEnds DEF AnswerBroken
<1>4. CASE TransientLeft
  <2>1. /\ transient \in 0..1 /\ transient' = transient + 1
        /\ SleepFor(transientRetryDelays[transient + 1])
    BY <1>1, <1>2, <1>4, AtAnswer DEF AnswerBroken, TransientLeft
  <2>2. wait' \in 5..15 /\ wait' = transientRetryDelays[transient + 1]
    <3>1. transient = 0 \/ transient = 1
      BY <2>1
    <3> QED
      BY <2>1, <3>1 DEF SleepFor, transientRetryDelays
  <2>3. spent' + wait' <= Longest(attempt + 1, transient')
    <3>1. /\ Longest(attempt + 1, transient + 1)
               = Longest(attempt, transient) + Timeout + transientRetryDelays[transient + 1]
          /\ Longest(attempt, transient) \in Int
      BY <1>1, <1>2, <2>1, AtAnswer, OneMore, LongestBounded
    <3> QED
      BY <1>1, <1>2, <2>1, <2>2, <3>1, AtAnswer, ConstantsAssumption
  <2>4. TypeOK'
    BY <1>1, <1>2, <2>1, <2>2, AtAnswer DEF SleepFor, FetchInv, TypeOK
  <2>5. FetchTimeBounded'
    BY <1>1, <1>2, AtAnswer, ConstantsAssumption DEF FetchTimeBounded, transientRetryDelays
  <2> QED
    BY <1>1, <1>2, <2>1, <2>3, <2>4, <2>5, AtAnswer DEF SleepFor, FetchInv
<1> QED
  BY <1>3, <1>4

\* A sleep ends, or is broken off.
LEMMA SleepSteps == FetchInv /\ (Retry \/ SleepCancelled) => FetchInv'
<1> SUFFICES ASSUME FetchInv, Retry \/ SleepCancelled PROVE FetchInv'
  OBVIOUS
<1> USE DEF maxRetries, maxTransientRetries, maxRetryAfterSeconds
<1>1. /\ pc = "sleep"
      /\ attempt \in 0..3 /\ transient \in 0..2 /\ transient <= attempt + 1
      /\ country \in Countries /\ breaks = transient /\ refusals \in 0..4
      /\ refusals <= attempt + 1 /\ attempt = 3 => transient > 0
      /\ spent \in Nat /\ elapsed \in Nat /\ wait \in 0..65
      /\ spent + wait <= Longest(attempt + 1, transient)
  BY DEF Retry, SleepCancelled, FetchInv, TypeOK
<1>2. /\ Longest(attempt + 1, transient) \in Int
      /\ Longest(attempt + 1, transient) <= 4 * Timeout + 200
  BY <1>1, LongestBounded
<1>3. CASE SleepCancelled
  BY <1>1, <1>2, <1>3, FetchEnds, ConstantsAssumption DEF SleepCancelled
<1>4. CASE Retry
  <2>1. /\ spent' = spent + wait /\ elapsed' \in Nat /\ wait' = 0
        /\ UNCHANGED <<country, status, transient, body, begun, cancelled, refusals, breaks>>
    BY <1>1, <1>4 DEF Retry, Takes
  <2>2. FetchTimeBounded'
    BY <1>1, <1>2, <2>1, ConstantsAssumption DEF FetchTimeBounded, transientRetryDelays
  <2>3. CASE AttemptsLeft
    <3>1. pc' = "request" /\ attempt' = attempt + 1 /\ attempt \in 0..2
      BY <1>1, <1>4, <2>3 DEF Retry, AttemptsLeft
    <3>2. TypeOK'
      BY <1>1, <2>1, <3>1 DEF FetchInv, TypeOK
    <3> QED
      BY <1>1, <2>1, <2>2, <3>1, <3>2 DEF FetchInv
  <2>4. CASE ~AttemptsLeft
    <3>1. pc' = "process" /\ attempt' = attempt
      BY <1>4, <2>4 DEF Retry
    <3>2. TypeOK'
      BY <1>1, <2>1, <3>1 DEF FetchInv, TypeOK
    <3> QED
      BY <1>1, <2>1, <2>2, <3>1, <3>2 DEF FetchInv
  <2> QED
    BY <2>3, <2>4
<1> QED
  BY <1>3, <1>4

LEMMA FetchNext == FetchInv /\ [Next]_vars => FetchInv'
<1> SUFFICES ASSUME FetchInv, [Next]_vars PROVE FetchInv'
  OBVIOUS
<1>1. CASE Cancel
  BY <1>1 DEF Cancel, FetchInv, TypeOK, FetchTimeBounded
<1>2. CASE UNCHANGED vars
  BY <1>2 DEF vars, FetchInv, TypeOK, FetchTimeBounded
<1> QED
  BY <1>1, <1>2, LoopSteps, AnswerSteps, RefusedStep, BrokenStep, SleepSteps
     DEF Next, Progress

\* The counters of a fetch stay in their ranges, whatever is answered and however
\* refusals, breaks and cancellations mix: no attempt and no delay is looked up
\* that does not exist.
THEOREM TypeCorrect == Spec => []TypeOK
<1>1. FetchInv => TypeOK
  BY DEF FetchInv
<1> QED
  BY <1>1, FetchInit, FetchNext, PTL DEF Spec

\* No fetch lasts longer than four timeouts, three of the longest hints and one
\* transient delay, for every timeout and whatever EONET asks for.
THEOREM FetchTime == Spec => []FetchTimeBounded
<1>1. FetchInv => FetchTimeBounded
  BY DEF FetchInv
<1> QED
  BY <1>1, FetchInit, FetchNext, PTL DEF Spec

(***************************************************************************)
(* The time of a run.                                                      *)
(***************************************************************************)

\* The longest that a query can take and be answered: the last attempt is.
PerQuery == (maxRetries + 1) * Timeout + maxRetries * LongestHint

\* Both queries of a country; the second may break after its last attempt.
PerCountry == 2 * PerQuery + transientRetryDelays[1]

\* The seconds that the countries before c can take.
Budget(c) == (c - 1) * PerCountry

\* What the run has taken, less the query it is at, is paid for by the countries and
\* the query before.
RunInv ==
  /\ pc \in {"request", "sleep", "process"} =>
       elapsed - spent <= Budget(country) + (IF status = "closed" THEN PerQuery ELSE 0)
  /\ pc \in {"request", "sleep"} => body = "none"
  /\ pc = "process" /\ body = "read" => spent <= PerQuery
  /\ pc \in {"country", "done"} => elapsed <= Budget(country)

\* The bounds in numbers.
LEMMA Sums ==
  /\ PerQuery \in Nat /\ PerQuery = 4 * Timeout + 195
  /\ PerCountry \in Nat /\ PerCountry = PerQuery + (4 * Timeout + 200)
BY ConstantsAssumption
   DEF PerQuery, PerCountry, LongestHint, maxRetries, maxRetryAfterSeconds, transientRetryDelays

\* Each country adds the same.
LEMMA BudgetGrows ==
  ASSUME NEW c \in Int
  PROVE  /\ Budget(c) \in Int /\ Budget(c + 1) = Budget(c) + PerCountry
         /\ Budget(1) = 0
<1>1. PerCountry \in Int
  BY Sums
<1>2. /\ (c - 1) * PerCountry \in Int
      /\ ((c + 1) - 1) * PerCountry = (c - 1) * PerCountry + PerCountry
      /\ (1 - 1) * PerCountry = 0
  BY <1>1
<1> QED
  BY <1>2 DEF Budget

\* The seconds before a country are at most those of all.
LEMMA BudgetOfAll ==
  ASSUME NEW c \in 1..NumCountries + 1
  PROVE  Budget(c) <= NumCountries * PerCountry
<1> DEFINE k == c - 1
           d == NumCountries - k
<1>1. k \in Int /\ d \in Nat /\ NumCountries \in Nat /\ NumCountries = k + d
  BY ConstantsAssumption
<1>2. PerCountry \in Nat
  BY Sums
<1> HIDE DEF k, d
<1>3. d * PerCountry >= 0 /\ d * PerCountry \in Int /\ k * PerCountry \in Int
  BY <1>1, <1>2
<1>4. (k + d) * PerCountry = k * PerCountry + d * PerCountry
  BY <1>1, <1>2
<1>5. k * PerCountry <= (k + d) * PerCountry
  BY <1>3, <1>4
<1> QED
  BY <1>1, <1>5 DEF Budget, k

\* The facts about a state that the steps use.
LEMMA RunTypes ==
  ASSUME FetchInv
  PROVE  /\ spent \in Int /\ elapsed \in Int /\ country \in Int
         /\ spent <= 4 * Timeout + 200 /\ spent >= 0
         /\ Budget(country) \in Int
<1>1. spent \in Nat /\ elapsed \in Nat /\ country \in 1..NumCountries + 1
  BY DEF FetchInv, TypeOK
<1>2. country \in Int
  BY <1>1, ConstantsAssumption
<1>3. spent <= 4 * Timeout + 200
  BY TheBound DEF FetchInv
<1>4. Budget(country) \in Int
  BY <1>2, BudgetGrows
<1> QED
  BY <1>1, <1>2, <1>3, <1>4

\* A step within a query.
LEMMA WithinQuery ==
  ASSUME RunInv, pc \in {"request", "sleep"}, pc' \in {"request", "sleep", "process"},
         UNCHANGED <<country, status>>, elapsed' - spent' = elapsed - spent,
         pc' # "process" => body' = body,
         pc' = "process" /\ body' = "read" => spent' <= PerQuery
  PROVE  RunInv'
<1>1. Budget(country)' = Budget(country) /\ PerQuery' = PerQuery
  BY DEF Budget, PerCountry, PerQuery
<1> QED
  BY <1>1 DEF RunInv

\* The last step of a country.
LEMMA CountryOver ==
  ASSUME FetchInv, RunInv, pc \in {"request", "sleep", "process"},
         pc' = "country", country' = country + 1,
         elapsed' \in Int, spent' \in Int,
         elapsed' - spent' = elapsed - spent, spent' <= 4 * Timeout + 200
  PROVE  RunInv'
<1> DEFINE before == elapsed - spent
           queries == IF status = "closed" THEN PerQuery ELSE 0
<1>1. elapsed' = before + spent'
  BY RunTypes
<1>2. before \in Int /\ before <= Budget(country) + queries
  BY RunTypes DEF RunInv
<1>3. Budget(country) \in Int /\ Budget(country + 1) = Budget(country) + PerCountry
  BY RunTypes, BudgetGrows
<1>4. queries \in Int /\ queries <= PerQuery /\ PerQuery \in Int
      /\ PerCountry = PerQuery + (4 * Timeout + 200)
  BY Sums
<1> HIDE DEF before, queries
<1>5. elapsed' <= Budget(country + 1)
  BY <1>1, <1>2, <1>3, <1>4, ConstantsAssumption
<1>6. Budget(country)' = Budget(country')
  BY DEF Budget, PerCountry, PerQuery
<1> QED
  BY <1>5, <1>6 DEF RunInv

\* A query begins.
LEMMA QueryBegins ==
  ASSUME NEW s \in {"open", "closed"}, Fetch(s), UNCHANGED <<country, elapsed>>, elapsed \in Int,
         elapsed <= Budget(country) + (IF s = "closed" THEN PerQuery ELSE 0)
  PROVE  RunInv'
<1>1. elapsed' - spent' = elapsed /\ pc' = "request" /\ status' = s /\ body' = "none"
  BY DEF Fetch
<1>2. Budget(country)' = Budget(country) /\ PerQuery' = PerQuery
  BY DEF Budget, PerCountry, PerQuery
<1> QED
  BY <1>1, <1>2 DEF RunInv

LEMMA RunLoops ==
  ASSUME FetchInv, RunInv, BeginCountry \/ ProcessBody \/ ProcessBodyFails
  PROVE  RunInv'
<1>1. spent \in Int /\ elapsed \in Int /\ Budget(country) \in Int /\ spent <= 4 * Timeout + 200
  BY RunTypes
<1>2. UNCHANGED elapsed
  BY DEF BeginCountry, ProcessBody, ProcessBodyFails
<1>3. ASSUME NEW failed, EndCountry(failed), pc = "process" PROVE RunInv'
  <2>1. pc' = "country" /\ spent' = spent /\ country' = country + 1
    BY <1>3 DEF EndCountry, Idle, AfterFailure
  <2> QED
    BY <1>1, <1>2, <1>3, <2>1, CountryOver
<1>4. CASE BeginCountry
  <2>1. elapsed <= Budget(country)
    BY <1>4 DEF BeginCountry, RunInv
  <2>2. CASE Idle("done") /\ UNCHANGED country
    BY <1>2, <2>1, <2>2 DEF Idle, RunInv, Budget, PerCountry, PerQuery
  <2>3. CASE Fetch("open") /\ UNCHANGED country
    <3>1. elapsed <= Budget(country) + 0
      BY <1>1, <2>1
    <3> QED
      BY <1>1, <1>2, <2>3, <3>1, QueryBegins
  <2> QED
    BY <1>4, <2>2, <2>3 DEF BeginCountry
<1>5. CASE ProcessBody
  <2>1. CASE status = "open" /\ Fetch("closed") /\ UNCHANGED country
    <3>1. elapsed - spent <= Budget(country) + 0 /\ spent <= PerQuery
      BY <1>5, <2>1 DEF ProcessBody, RunInv
    <3>2. elapsed <= Budget(country) + PerQuery
      BY <1>1, <3>1, Sums
    <3> QED
      BY <1>1, <1>2, <2>1, <3>2, QueryBegins
  <2>2. CASE EndCountry(status = "open")
    BY <1>3, <1>5, <2>2 DEF ProcessBody
  <2> QED
    BY <1>5, <2>1, <2>2 DEF ProcessBody
<1>6. CASE ProcessBodyFails
  BY <1>3, <1>6 DEF ProcessBodyFails
<1> QED
  BY <1>4, <1>5, <1>6

\* The query is given up.
LEMMA QueryGivenUp ==
  ASSUME FetchInv, FetchInv', RunInv, pc \in {"request", "sleep"}, GiveUp,
         elapsed' - spent' = elapsed - spent
  PROVE  RunInv'
<1>1. pc' = "country" /\ country' = country + 1
  BY DEF GiveUp, AfterFailure
<1>2. spent' \in Int /\ elapsed' \in Int
  BY DEF FetchInv, TypeOK
<1>3. spent' <= 4 * Timeout + 200
  <2>1. FetchTimeBounded'
    BY DEF FetchInv
  <2>2. FetchTimeBounded' <=> spent' <= 4 * Timeout + 200
    BY ConstantsAssumption DEF FetchTimeBounded, maxRetries, maxRetryAfterSeconds, transientRetryDelays
  <2> QED
    BY <2>1, <2>2
<1> QED
  BY <1>1, <1>2, <1>3, CountryOver

LEMMA RunAnswers ==
  ASSUME FetchInv, FetchInv', RunInv, AnswerOK \/ AnswerOther \/ AnswerRefused \/ AnswerBroken
  PROVE  RunInv'
<1>1. PICK d \in Durations : Takes(d)
  BY DEF AnswerOK, AnswerOther, AnswerRefused, AnswerBroken
<1>2. pc = "request"
  BY DEF AnswerOK, AnswerOther, AnswerRefused, AnswerBroken
<1>3. elapsed' - spent' = elapsed - spent
  <2>1. d \in Int /\ spent \in Int /\ elapsed \in Int
    BY RunTypes, ConstantsAssumption
  <2> QED
    BY <1>1, <2>1 DEF Takes
<1>4. CASE GiveUp
  BY <1>2, <1>3, <1>4, QueryGivenUp
<1>5. CASE pc' = "sleep" /\ UNCHANGED <<country, status, body>>
  BY <1>2, <1>3, <1>5, WithinQuery
<1>6. CASE pc' = "process" /\ UNCHANGED <<country, status>>
  <2>1. /\ attempt \in 0..3 /\ transient \in 0..2 /\ transient <= attempt
        /\ spent' \in Nat /\ spent' <= Longest(attempt, transient) + Timeout
    BY <1>1, <1>2, AtAnswer
  <2>2. Longest(attempt, transient) \in Int /\ Longest(attempt, transient) + Timeout <= 4 * Timeout + 195
    BY <2>1, LongestBounded
  <2>3. spent' <= PerQuery
    BY <2>1, <2>2, Sums, ConstantsAssumption
  <2> QED
    BY <1>2, <1>3, <1>6, <2>3, WithinQuery
<1> QED
  BY <1>4, <1>5, <1>6 DEF AnswerOK, AnswerOther, AnswerRefused, AnswerBroken, SleepFor

LEMMA RunSleeps ==
  ASSUME FetchInv, FetchInv', RunInv, Retry \/ SleepCancelled
  PROVE  RunInv'
<1>1. pc = "sleep"
  BY DEF Retry, SleepCancelled
<1>2. CASE Retry
  <2>1. wait \in Int /\ spent \in Int /\ elapsed \in Int
    <3>1. wait \in 0..65
      BY DEF FetchInv, TypeOK, maxRetryAfterSeconds
    <3> QED
      BY <3>1, RunTypes
  <2>2. elapsed' - spent' = elapsed - spent
    BY <1>2, <2>1 DEF Retry, Takes
  <2>3. pc' \in {"request", "process"} /\ UNCHANGED <<country, status, body>>
    BY <1>2 DEF Retry
  <2>4. body = "none"
    BY <1>1 DEF RunInv
  <2> QED
    BY <1>1, <2>2, <2>3, <2>4, WithinQuery
<1>3. CASE SleepCancelled
  BY <1>1, <1>3, QueryGivenUp DEF SleepCancelled
<1> QED
  BY <1>2, <1>3
LEMMA RunStep == FetchInv /\ FetchInv' /\ RunInv /\ [Next]_vars => RunInv'
<1> SUFFICES ASSUME FetchInv, FetchInv', RunInv, [Next]_vars PROVE RunInv'
  OBVIOUS
<1>1. CASE Cancel
  BY <1>1 DEF Cancel, RunInv, Budget, PerCountry, PerQuery
<1>2. CASE UNCHANGED vars
  BY <1>2 DEF vars, RunInv, Budget, PerCountry, PerQuery
<1>3. CASE Progress
  BY <1>3, RunLoops, RunAnswers, RunSleeps DEF Progress
<1> QED
  BY <1>1, <1>2, <1>3 DEF Next

LEMMA AlwaysRun == Spec => [](FetchInv /\ RunInv)
<1>1. Init => RunInv
  BY BudgetGrows DEF Init, RunInv
<1> QED
  BY <1>1, FetchInit, FetchNext, RunStep, PTL DEF Spec

\* At the last country all of them have been paid for.
LEMMA RunPaidFor == FetchInv /\ RunInv => elapsed <= NumCountries * PerCountry
<1> SUFFICES ASSUME FetchInv, RunInv PROVE elapsed <= NumCountries * PerCountry
  OBVIOUS
<1>1. /\ spent \in Int /\ elapsed \in Int /\ country \in Int
      /\ spent <= 4 * Timeout + 200 /\ Budget(country) \in Int
  BY RunTypes
<1>2. PerQuery \in Int /\ PerCountry \in Int /\ PerCountry = PerQuery + (4 * Timeout + 200)
  BY Sums
<1>3. NumCountries * PerCountry \in Int
  BY <1>2, ConstantsAssumption
<1>4. CASE pc \in {"request", "sleep", "process"}
  <2>1. country \in 1..NumCountries /\ country + 1 \in 1..NumCountries + 1
    BY <1>1, <1>4, ConstantsAssumption DEF FetchInv, Countries
  <2>2. Budget(country) + PerCountry <= NumCountries * PerCountry
    BY <1>1, <2>1, BudgetOfAll, BudgetGrows
  <2>3. elapsed - spent <= Budget(country) + PerQuery
    BY <1>1, <1>2, <1>4, Sums DEF RunInv
  <2> QED
    BY <1>1, <1>2, <1>3, <2>2, <2>3, ConstantsAssumption
<1>5. CASE pc \in {"country", "done"}
  <2>1. country \in 1..NumCountries + 1
    BY DEF FetchInv, TypeOK
  <2>2. Budget(country) <= NumCountries * PerCountry
    BY <2>1, BudgetOfAll
  <2>3. elapsed <= Budget(country)
    BY <1>5 DEF RunInv
  <2> QED
    BY <1>1, <1>3, <2>2, <2>3
<1> QED
  BY <1>4, <1>5 DEF FetchInv, TypeOK

\* runAllCountries: the requests and waits of a run take at most 8 timeouts and 395
\* seconds for each country, whatever EONET answers.
THEOREM RunTime == Spec => [](elapsed <= NumCountries * PerCountry)
BY AlwaysRun, RunPaidFor, PTL
================================================================================
