------------------------- MODULE StalenessWatchdog -------------------------
(***************************************************************************)
(* The staleness watchdog of the API replicas (alert/watchdog.go) and the  *)
(* alert_dedupe claims they share (Try/Release... in queries.go).          *)
(*                                                                         *)
(* A reference is the completion time of the last successful run, or the   *)
(* start of the first run while there is none; here references are         *)
(* numbered in time order and 0 is "no run yet".                           *)
(***************************************************************************)
EXTENDS Integers, FiniteSets

CONSTANTS
  Replicas,   \* API server processes sharing one database
  MaxRefs,    \* references explored
  MaxFaults   \* failed calls and sends, and crashes, explored

ASSUME BoundsAssumption == MaxRefs \in Nat /\ MaxFaults \in Nat

None == 0

Refs == 1..MaxRefs

VARIABLES
  ref,        \* the current reference
  stale,      \* it is older than StalenessThreshold
  claims,     \* alert_dedupe rows
  pc,         \* where the watchdog goroutine of a replica is
  mine,       \* referenceTime of the tick a replica is working on
  last,       \* lastAlertReference of a replica
  acked,      \* sends that returned nil, per reference
  reached,    \* references whose alert reached the recipients
  crashed,    \* ghost: references whose tick a crash interrupted
  lost,       \* ghost: references whose claim an unanswered call left behind
  faults

vars == <<ref, stale, claims, pc, mine, last, acked, reached, crashed, lost, faults>>

TypeOK ==
  /\ ref \in 0..MaxRefs /\ stale \in BOOLEAN
  /\ claims \subseteq Refs
  /\ pc \in [Replicas -> {"down", "idle", "claiming", "sending", "releasing"}]
  /\ mine \in [Replicas -> 0..MaxRefs]
  /\ last \in [Replicas -> 0..MaxRefs]
  /\ acked \in [Refs -> Nat]
  /\ reached \subseteq Refs /\ crashed \subseteq Refs /\ lost \subseteq Refs
  /\ faults \in 0..MaxFaults

Init ==
  /\ ref = 0 /\ stale = FALSE
  /\ claims = {}
  /\ pc = [r \in Replicas |-> "idle"]
  /\ mine = [r \in Replicas |-> None]
  /\ last = [r \in Replicas |-> None]
  /\ acked = [k \in Refs |-> 0]
  /\ reached = {} /\ crashed = {} /\ lost = {}
  /\ faults = 0

CountFault == faults < MaxFaults /\ faults' = faults + 1

Goto(r, l) == pc' = [pc EXCEPT ![r] = l]

\* The tick is over.
Continue(r) == Goto(r, "idle") /\ mine' = [mine EXCEPT ![r] = None]

(***************************************************************************)
(* The ingestion runs, seen through latestIngestionReference.              *)
(***************************************************************************)

\* The first run starts, or a run completes as success or degraded.
NewReference ==
  /\ ref < MaxRefs
  /\ ref' = ref + 1 /\ stale' = FALSE
  /\ UNCHANGED <<claims, pc, mine, last, acked, reached, crashed, lost, faults>>

\* now - referenceTime passes the threshold.
TurnsStale ==
  /\ ref # 0 /\ ~stale
  /\ stale' = TRUE
  /\ UNCHANGED <<ref, claims, pc, mine, last, acked, reached, crashed, lost, faults>>

(***************************************************************************)
(* One tick of replica r.  A tick that fails to read the runs does nothing.*)
(***************************************************************************)

\* Faulty variant: a missing reference is not told apart from an old one.
ShouldSendAlways(r) == TRUE

ShouldSend(r) == stale /\ last[r] # ref

TickSends(r) ==
  /\ pc[r] = "idle" /\ ShouldSend(r)
  /\ Goto(r, "claiming")
  /\ mine' = [mine EXCEPT ![r] = ref]
  /\ UNCHANGED <<ref, stale, claims, last, acked, reached, crashed, lost, faults>>

\* Data is fresh: forget the last alert.
TickResets(r) ==
  /\ pc[r] = "idle" /\ ref # 0 /\ ~stale
  /\ last' = [last EXCEPT ![r] = None]
  /\ UNCHANGED <<ref, stale, claims, pc, mine, acked, reached, crashed, lost, faults>>

\* Faulty variant: the claim is not tested against the rows.
ClaimableAlways(k) == TRUE

\* INSERT ... ON CONFLICT DO NOTHING affects a row.
Claimable(k) == k \notin claims

Claim(r) ==
  /\ pc[r] = "claiming"
  /\ IF Claimable(mine[r])
     THEN /\ claims' = claims \cup {mine[r]}
          /\ Goto(r, "sending")
          /\ UNCHANGED <<mine, last>>
     ELSE /\ last' = [last EXCEPT ![r] = mine[r]]
          /\ Continue(r)
          /\ UNCHANGED claims
  /\ UNCHANGED <<ref, stale, acked, reached, crashed, lost, faults>>

\* TryRecord returns an error; the insert was executed, or not.
ClaimFails(r) ==
  /\ pc[r] = "claiming"
  /\ CountFault
  /\ \/ UNCHANGED <<claims, lost>>
     \/ /\ mine[r] \notin claims
        /\ claims' = claims \cup {mine[r]}
        /\ lost' = lost \cup {mine[r]}
  /\ Continue(r)
  /\ UNCHANGED <<ref, stale, last, acked, reached, crashed>>

SendOK(r) ==
  /\ pc[r] = "sending"
  /\ acked' = [acked EXCEPT ![mine[r]] = @ + 1]
  /\ reached' = reached \cup {mine[r]}
  /\ last' = [last EXCEPT ![r] = mine[r]]
  /\ Continue(r)
  /\ UNCHANGED <<ref, stale, claims, crashed, lost, faults>>

\* Faulty variant: the claim of a failed send is kept.
KeepsClaim(r) == Continue(r)

AfterFailedSend(r) == Goto(r, "releasing") /\ UNCHANGED mine

\* SendStalenessAlert returns an error; the e-mail went out, or not.
SendFails(r) ==
  /\ pc[r] = "sending"
  /\ CountFault
  /\ reached' \in {reached, reached \cup {mine[r]}}
  /\ AfterFailedSend(r)
  /\ UNCHANGED <<ref, stale, claims, last, acked, crashed, lost>>

Release(r) ==
  /\ pc[r] = "releasing"
  /\ claims' = claims \ {mine[r]}
  /\ Continue(r)
  /\ UNCHANGED <<ref, stale, last, acked, reached, crashed, lost, faults>>

\* ReleaseStalenessAlertClaim returns an error, which is only logged.
ReleaseFails(r) ==
  /\ pc[r] = "releasing"
  /\ CountFault
  /\ \/ /\ lost' = lost \cup {mine[r]}
        /\ UNCHANGED claims
     \/ /\ claims' = claims \ {mine[r]}
        /\ UNCHANGED lost
  /\ Continue(r)
  /\ UNCHANGED <<ref, stale, last, acked, reached, crashed>>

(***************************************************************************)
(* A process dies anywhere, and is restarted: the memory of its last alert *)
(* is gone, its claim is not, and a call in flight may still take effect.  *)
(***************************************************************************)
Crash(r) ==
  /\ pc[r] # "down"
  /\ CountFault
  /\ Goto(r, "down")
  /\ mine' = [mine EXCEPT ![r] = None]
  /\ last' = [last EXCEPT ![r] = None]
  /\ \/ UNCHANGED <<claims, reached>>
     \/ /\ pc[r] = "claiming" /\ mine[r] \notin claims
        /\ claims' = claims \cup {mine[r]}
        /\ UNCHANGED reached
     \/ /\ pc[r] = "sending"
        /\ reached' = reached \cup {mine[r]}
        /\ UNCHANGED claims
     \/ /\ pc[r] = "releasing"
        /\ claims' = claims \ {mine[r]}
        /\ UNCHANGED reached
  /\ crashed' = IF pc[r] = "idle" THEN crashed ELSE crashed \cup {mine[r]}
  /\ UNCHANGED <<ref, stale, acked, lost>>

Start(r) ==
  /\ pc[r] = "down"
  /\ Goto(r, "idle")
  /\ UNCHANGED <<ref, stale, claims, mine, last, acked, reached, crashed, lost, faults>>

Step(r) ==
  \/ TickSends(r) \/ TickResets(r) \/ Claim(r) \/ SendOK(r) \/ Release(r)

Fault(r) == ClaimFails(r) \/ SendFails(r) \/ ReleaseFails(r) \/ Crash(r)

Next ==
  \/ NewReference \/ TurnsStale
  \/ \E r \in Replicas : Start(r) \/ Step(r) \/ Fault(r)

Spec == Init /\ [][Next]_vars

\* The ticker keeps firing in a live process, and a dead one is restarted
\* (the compose files' restart policy).  Staleness need not ever happen.
FairSpec ==
  Spec /\ \A r \in Replicas : WF_vars(Step(r)) /\ WF_vars(Start(r))

(***************************************************************************)
(* Properties.                                                             *)
(***************************************************************************)

\* At most one send per reference is reported successful over all replicas,
\* restarts and retries.
OneAlertPerReference == \A k \in Refs : acked[k] <= 1

Sending(r) == pc[r] \in {"sending", "releasing"}

\* A replica between its claim and the end of its tick owns the row: nobody
\* else works on the same reference, and no release of another replica takes
\* it away.
ClaimIsExclusive ==
  \A r \in Replicas : Sending(r) =>
    /\ mine[r] \in claims
    /\ \A s \in Replicas : Sending(s) /\ mine[s] = mine[r] => s = r

\* The system stays without a successful run after reference k.
StuckAt(k) == ref = k /\ stale

\* Staleness that lasts is reported: a failed send is retried, by this replica
\* or another, unless a crash or an unanswered call left the claim behind.
StalenessReported ==
  \A k \in Refs :
    (<>[]StuckAt(k) /\ [](k \notin crashed \cup lost)) => <>(k \in reached)

\* The comment in the watchdog names one residual gap only, a crash between
\* the claim and its release; everything else is retried on the next tick.
OnlyCrashesSilence ==
  \A k \in Refs :
    (<>[]StuckAt(k) /\ [](k \notin crashed)) => <>(k \in reached)
=============================================================================
