---------------------------- MODULE EonetFetch ----------------------------
(***************************************************************************)
(* One scheduled run over the countries (runAllCountries, runIngest) down  *)
(* to the attempts, waits and give-ups of each EONET request (fetchEONET), *)
(* with the seconds it takes.  What is done with a body is abstracted to   *)
(* "processed" or "an error" and takes no time, so the times here are a    *)
(* lower bound of a real run's.                                            *)
(***************************************************************************)
EXTENDS Integers, Sequences

CONSTANTS
  NumCountries,  \* len(DefaultCountries)
  Timeout,       \* of eonetHTTPClient, in seconds
  Durations,     \* how long a request may take
  Hints,         \* retry_after values a 429/503 body may carry; 0: none
  LeaseTTL       \* schedulerLockTTL, in seconds

ASSUME ConstantsAssumption ==
  /\ NumCountries \in Nat \ {0} /\ Timeout \in Nat /\ LeaseTTL \in Nat
  /\ Durations \subseteq 0..Timeout
  /\ Hints \subseteq Nat

maxRetries == 3
maxTransientRetries == 2
maxRetryAfterSeconds == 60
transientRetryDelays == <<5, 15>>
defaultDelays == <<5, 10, 20>>  \* 5 s, doubled with every attempt

Countries == 1..NumCountries

VARIABLES
  pc,         \* "country", "request", "sleep", "process" or "done"
  country,    \* index of the country being ingested
  status,     \* status= of the request: "open" or "closed"
  attempt,    \* of the loop in fetchEONET
  transient,  \* transientAttempt
  wait,       \* argument of eonetSleepFn
  body,       \* "none" until a 200 has been read
  spent,      \* seconds since fetchEONET was called
  elapsed,    \* seconds since the run started
  begun,      \* countries whose ingestion has begun
  cancelled,  \* the run's context is cancelled
  refusals,   \* ghost: 429/503 answers to the current fetch
  breaks      \* ghost: network errors and other 5xx of the current fetch

vars == <<pc, country, status, attempt, transient, wait, body, spent, elapsed,
          begun, cancelled, refusals, breaks>>

TypeOK ==
  /\ pc \in {"country", "request", "sleep", "process", "done"}
  /\ country \in 1..NumCountries + 1
  /\ status \in {"open", "closed"}
  /\ attempt \in 0..maxRetries
  /\ transient \in 0..maxTransientRetries
  /\ wait \in 0..maxRetryAfterSeconds + 5
  /\ body \in {"none", "read"}
  /\ spent \in Nat /\ elapsed \in Nat
  /\ begun \subseteq Countries
  /\ cancelled \in BOOLEAN
  /\ refusals \in 0..maxRetries + 1 /\ breaks \in 0..maxTransientRetries + 1

Init ==
  /\ pc = "country" /\ country = 1 /\ status = "open"
  /\ attempt = 0 /\ transient = 0 /\ wait = 0 /\ body = "none"
  /\ spent = 0 /\ elapsed = 0
  /\ begun = {}
  /\ cancelled = FALSE
  /\ refusals = 0 /\ breaks = 0

\* fetchEONET is called for status s.
Fetch(s) ==
  /\ pc' = "request" /\ status' = s
  /\ attempt' = 0 /\ transient' = 0 /\ wait' = 0 /\ body' = "none"
  /\ spent' = 0 /\ refusals' = 0 /\ breaks' = 0

Idle(next) ==
  /\ pc' = next
  /\ UNCHANGED <<status, attempt, transient, wait, body, spent, refusals, breaks>>

(***************************************************************************)
(* The loops over countries and over the two queries.                      *)
(***************************************************************************)

\* Faulty variant: a failed country is tried again.
SameCountry == country

\* A failed country does not abort the others.
AfterFailure == country + 1

BeginCountry ==
  /\ pc = "country"
  /\ IF cancelled \/ country > NumCountries
     THEN Idle("done") /\ UNCHANGED begun
     ELSE Fetch("open") /\ begun' = begun \cup {country}
  /\ UNCHANGED <<country, elapsed, cancelled>>

\* runIngest returns: this country is over.
EndCountry(failed) ==
  /\ Idle("country")
  /\ country' = IF failed THEN AfterFailure ELSE country + 1

\* processEONETBody succeeds; the context is checked before the next query.
ProcessBody ==
  /\ pc = "process" /\ body = "read"
  /\ \/ /\ status = "open" /\ ~cancelled
        /\ Fetch("closed")
        /\ UNCHANGED country
     \/ /\ status = "closed" \/ cancelled
        /\ EndCountry(status = "open")
  /\ UNCHANGED <<elapsed, begun, cancelled>>

\* It fails; without a body it cannot but fail to decode.
ProcessBodyFails ==
  /\ pc = "process"
  /\ EndCountry(TRUE)
  /\ UNCHANGED <<elapsed, begun, cancelled>>

(***************************************************************************)
(* fetchEONET.                                                             *)
(***************************************************************************)
Takes(d) == spent' = spent + d /\ elapsed' = elapsed + d

GiveUp ==
  /\ pc' = "country" /\ country' = AfterFailure
  /\ UNCHANGED <<status, attempt, transient, wait, body, begun, cancelled>>

\* 200: the body is read, or is too long or cut off, which is not retried.
AnswerOK ==
  /\ pc = "request" /\ ~cancelled
  /\ \E d \in Durations : Takes(d)
  /\ \/ /\ pc' = "process" /\ body' = "read"
        /\ UNCHANGED <<country, status, attempt, transient, wait, begun, cancelled>>
     \/ GiveUp
  /\ UNCHANGED <<refusals, breaks>>

\* 4xx other than 429, and any other status: no retry.
AnswerOther ==
  /\ pc = "request" /\ ~cancelled
  /\ \E d \in Durations : Takes(d)
  /\ GiveUp
  /\ UNCHANGED <<refusals, breaks>>

SleepFor(w) ==
  /\ pc' = "sleep" /\ wait' = w
  /\ UNCHANGED <<country, status, attempt, body, begun, cancelled>>

\* retry_after plus 5 s, or 5, 10, 20 s without a usable one.
Backoff(hint) == IF hint > 0 THEN hint + 5 ELSE defaultDelays[attempt + 1]

\* Faulty variant: the cap on the hint is not enforced.
AnyHint(hint) == TRUE

Acceptable(hint) == hint <= maxRetryAfterSeconds

\* 429 or 503.
AnswerRefused ==
  /\ pc = "request" /\ ~cancelled
  /\ \E d \in Durations : Takes(d)
  /\ refusals' = refusals + 1
  /\ \E hint \in Hints :
       IF attempt = maxRetries \/ ~Acceptable(hint)
       THEN GiveUp
       ELSE SleepFor(Backoff(hint)) /\ UNCHANGED transient
  /\ UNCHANGED breaks

TransientLeft == transient < maxTransientRetries

\* A network error (a timeout included) or a 5xx other than 503.
AnswerBroken ==
  /\ pc = "request"
  /\ \E d \in Durations : Takes(d)
  /\ breaks' = breaks + 1
  /\ IF TransientLeft
     THEN /\ SleepFor(transientRetryDelays[transient + 1])
          /\ transient' = transient + 1
     ELSE GiveUp
  /\ UNCHANGED refusals

\* Faulty variant: one attempt too many.
AttemptsLeftLoose == attempt <= maxRetries

\* attempt <= maxRetries still holds after attempt++.
AttemptsLeft == attempt < maxRetries

\* The sleep ends and the loop goes on.  When it is out of attempts it falls
\* through to return body, nil: without a body, and without an error.
Retry ==
  /\ pc = "sleep" /\ ~cancelled
  /\ Takes(wait)
  /\ wait' = 0
  /\ IF AttemptsLeft
     THEN pc' = "request" /\ attempt' = attempt + 1
     ELSE pc' = "process" /\ UNCHANGED attempt
  /\ UNCHANGED <<country, status, transient, body, begun, cancelled, refusals, breaks>>

\* eonetSleepFn returns ctx.Err() as soon as the context is cancelled.
SleepCancelled ==
  /\ pc = "sleep" /\ cancelled
  /\ GiveUp
  /\ UNCHANGED <<spent, elapsed, refusals, breaks>>

Cancel ==
  /\ pc # "done" /\ ~cancelled
  /\ cancelled' = TRUE
  /\ UNCHANGED <<pc, country, status, attempt, transient, wait, body, spent,
                 elapsed, begun, refusals, breaks>>

Progress ==
  \/ BeginCountry \/ ProcessBody \/ ProcessBodyFails
  \/ AnswerOK \/ AnswerOther \/ AnswerRefused \/ AnswerBroken
  \/ Retry \/ SleepCancelled

Next == Progress \/ Cancel

Spec == Init /\ [][Next]_vars

\* Requests time out and sleeps end.
FairSpec == Spec /\ WF_vars(Progress)

(***************************************************************************)
(* Properties.                                                             *)
(***************************************************************************)

\* The longest a single fetch can take, and does: every attempt takes the
\* whole timeout, the first three are refused with the longest hint accepted
\* (plus its 5 s buffer), and the last breaks and is still slept on.
FetchTimeBounded ==
  spent <= (maxRetries + 1) * Timeout + maxRetries * (maxRetryAfterSeconds + 5)
           + transientRetryDelays[1]

\* The run ends, whatever the upstream answers, and unless it is cancelled it
\* has then tried every country, whatever failed before.
RunEnds == <>(pc = "done" /\ (cancelled \/ begun = Countries))

\* fetchEONET's comment: 2 transient retries and a 3-retry 429/503 budget.
\* An uncancelled fetch that ends without a body has used one of them up.
FullRetryBudget ==
  pc = "process" /\ body = "none" =>
    breaks > maxTransientRetries \/ refusals > maxRetries

\* The comment on schedulerLockTTL: the lease covers the worst-case run, all
\* countries and retries included.
RunFitsLease == elapsed < LeaseTTL
=============================================================================
