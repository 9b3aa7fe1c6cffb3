--------------------------- MODULE IngestionRuns ---------------------------
(***************************************************************************)
(* The ingestion_runs table, the scheduled run that writes it and alerts   *)
(* on its outcome (IngestWithBudget, runScheduledIngest, notifyIfDegraded),*)
(* the ingest command, which writes rows but never alerts, and what        *)
(* /health and /ready read from the table.                                 *)
(*                                                                         *)
(* A database call that fails may still have been executed; an e-mail whose*)
(* send fails may still have been delivered; a process may stop anywhere.  *)
(***************************************************************************)
EXTENDS Integers, Sequences, FiniteSets

CONSTANTS
  Countries,  \* country codes of DefaultCountries
  MaxRuns,    \* runs explored
  MaxFaults   \* failed calls, crashes and reconfigurations explored

ASSUME BoundsAssumption == MaxRuns \in Nat /\ MaxFaults \in Nat

VARIABLES
  rows,       \* ingestion_runs, in id order
  clock,      \* number of runs begun: their started_at, in time order
  begun,      \* runs of the command begun and not yet in the table
  cur,        \* the scheduler's current run
  enabled,    \* alert.Client.Enabled() of the current process
  delivered,  \* degraded alerts that reached the recipients, in time order
  flawed,     \* ghost: runs whose alert handling a fault disturbed
  handled,    \* ghost: runs handled with alerting on and no failed send
  faults

vars == <<rows, clock, begun, cur, enabled, delivered, flawed, handled, faults>>

Statuses == {"running", "success", "degraded", "failure"}

Row == [country : Countries, status : Statuses, started : Nat, alertAt : Nat,
        by : {"scheduler", "command"}]

Phases == {"idle", "starting", "running", "notify", "carry", "send", "mark"}

\* id = 0: no row.  prevAlert is what the lookup found on the previous run.
Run == [pc : Phases, country : Countries, started : Nat, id : Nat,
        outcome : Statuses \ {"running"}, failed : BOOLEAN, prevAlert : Nat]

Alert == [country : Countries, run : Nat]

TypeOK ==
  /\ rows \in Seq(Row)
  /\ clock \in Nat /\ begun \subseteq [country : Countries, started : Nat]
  /\ cur \in Run
  /\ cur.id \in 0..Len(rows)
  /\ enabled \in BOOLEAN
  /\ delivered \in Seq(Alert)
  /\ flawed \subseteq Nat /\ handled \subseteq Nat
  /\ faults \in 0..MaxFaults

Idle(c) == [pc |-> "idle", country |-> c, started |-> 0, id |-> 0, outcome |-> "success",
            failed |-> FALSE, prevAlert |-> 0]

Init ==
  /\ rows = <<>> /\ delivered = <<>> /\ clock = 0 /\ begun = {}
  /\ cur \in {Idle(c) : c \in Countries}
  /\ enabled \in BOOLEAN
  /\ flawed = {} /\ handled = {}
  /\ faults = 0

CountFault == faults < MaxFaults /\ faults' = faults + 1

(***************************************************************************)
(* What the code reads from the table.                                     *)
(***************************************************************************)
CompletedBefore(c, n) ==
  {i \in 1..Len(rows) : i < n /\ rows[i].country = c /\ rows[i].status # "running"}

\* ORDER BY ... DESC LIMIT 1 over the ids of S; 0: no row.
IsLatest(i, S) ==
  \/ S = {} /\ i = 0
  \/ i \in S /\ \A j \in S : j <= i

\* Faulty variant: without status <> 'running' in the lookup.
IsPreviousRun(i, c, n) ==
  IsLatest(i, {j \in 1..Len(rows) : j < n /\ rows[j].country = c})

\* i is what GetPreviousCompletedIngestionRun finds.
IsPreviousCompleted(i, c, n) == IsLatest(i, CompletedBefore(c, n))

\* Faulty variant: the last run by id, as in the lookup of the previous one.
IsLastById(i, c) == IsPreviousCompleted(i, c, Len(rows) + 1)

\* i is c's row in the answer of GetLastIngestionRunAllCountries: the completed
\* run that began last. A row with a later id may have begun before.
IsLastRun(i, c) == LET S == CompletedBefore(c, Len(rows) + 1) IN
  \/ S = {} /\ i = 0
  \/ i \in S /\ \A j \in S : rows[j].started <= rows[i].started

\* HealthHandler.ServeHTTP, with the database reachable: /health notes a run
\* with one of the statuses for c (for /ready, "failure" alone counts).
Reports(c, statuses) ==
  \E i \in 1..Len(rows) : IsLastRun(i, c) /\ rows[i].status \in statuses

(***************************************************************************)
(* runOutcome, and the error IngestWithBudget returns.                     *)
(***************************************************************************)

\* Faulty variant: an error leaves the status as the run's row has it.
RunOutcomeUnset(err, storageErrors, upstreamFailed) ==
  IF err THEN "running"
  ELSE IF storageErrors THEN "failure"
  ELSE IF upstreamFailed THEN "degraded" ELSE "success"

RunOutcome(err, storageErrors, upstreamFailed) ==
  IF err \/ storageErrors THEN "failure"
  ELSE IF upstreamFailed THEN "degraded" ELSE "success"

\* Faulty variant: a lost completion is only logged.
FailedLogged(outcome, recorded) == outcome = "failure"

Failed(outcome, recorded) == outcome = "failure" \/ ~recorded

(***************************************************************************)
(* The scheduled run.                                                      *)
(***************************************************************************)
\* IngestWithBudget reads the clock first.
ReadClock ==
  /\ clock < MaxRuns
  /\ clock' = clock + 1

BeginRun ==
  /\ cur.pc = "idle"
  /\ ReadClock
  /\ cur' = [cur EXCEPT !.pc = "starting", !.started = clock']
  /\ UNCHANGED <<rows, begun, enabled, delivered, flawed, handled, faults>>

\* The insert gives the row its id.
NewRow(c, t, who) ==
  rows' = Append(rows, [country |-> c, status |-> "running", started |-> t,
                        alertAt |-> 0, by |-> who])

Started(id) == [cur EXCEPT !.pc = "running", !.id = id]

CreateRun ==
  /\ cur.pc = "starting"
  /\ NewRow(cur.country, cur.started, "scheduler")
  /\ cur' = Started(Len(rows) + 1)
  /\ UNCHANGED <<clock, begun, enabled, delivered, flawed, handled, faults>>

\* The insert fails, executed or not: the run proceeds without an id.
CreateRunFails ==
  /\ cur.pc = "starting"
  /\ CountFault
  /\ NewRow(cur.country, cur.started, "scheduler") \/ UNCHANGED rows
  /\ cur' = Started(0)
  /\ UNCHANGED <<clock, begun, enabled, delivered, flawed, handled>>

SetStatus(id, status) == [rows EXCEPT ![id].status = status]

\* runIngest returns and CompleteIngestionRun records the outcome; without a
\* row the outcome is a failure and there is nothing to record.
CompleteRun ==
  /\ cur.pc = "running"
  /\ \E err, storage, upstream \in BOOLEAN :
       LET outcome == RunOutcome(err \/ cur.id = 0, storage, upstream)
       IN  /\ cur' = [cur EXCEPT !.pc = "notify", !.outcome = outcome,
                                 !.failed = Failed(outcome, TRUE)]
           /\ rows' = IF cur.id = 0 THEN rows ELSE SetStatus(cur.id, outcome)
  /\ UNCHANGED <<clock, begun, enabled, delivered, flawed, handled, faults>>

\* The update fails, executed or not.
CompleteRunFails ==
  /\ cur.pc = "running" /\ cur.id # 0
  /\ CountFault
  /\ \E err, storage, upstream \in BOOLEAN :
       LET outcome == RunOutcome(err, storage, upstream)
       IN  /\ cur' = [cur EXCEPT !.pc = "notify", !.outcome = outcome,
                                 !.failed = Failed(outcome, FALSE)]
           /\ rows' \in {rows, SetStatus(cur.id, outcome)}
  /\ flawed' = flawed \cup {cur.id}
  /\ UNCHANGED <<clock, begun, enabled, delivered, handled>>

\* The next scheduled run is for any country (the loop's order is not used).
Done == cur' \in {Idle(c) : c \in Countries}

\* runScheduledIngest on an error: SendIngestFailure every time, delivered or
\* not; nothing is recorded.
NotifyFailure ==
  /\ cur.pc = "notify" /\ cur.failed
  /\ Done
  /\ UNCHANGED <<rows, clock, begun, enabled, delivered, flawed, handled, faults>>

\* A clean run, or a degraded one with alerting disabled: no e-mail, no mark.
NotifyNothing ==
  /\ cur.pc = "notify" /\ ~cur.failed
  /\ cur.outcome = "success" \/ ~enabled
  /\ Done
  /\ flawed' = IF enabled THEN flawed ELSE flawed \cup {cur.id}
  /\ UNCHANGED <<rows, clock, begun, enabled, delivered, handled, faults>>

\* Faulty variant: carrying on the status alone.
CarryOnStatus(prev) == prev # 0 /\ rows[prev].status = "degraded"

\* The streak was already alerted: keyed on delivery, not on status.
Carries(prev) ==
  prev # 0 /\ rows[prev].status = "degraded" /\ rows[prev].alertAt # 0

\* notifyIfDegraded: read the previous completed run and decide.
NotifyDegraded ==
  /\ cur.pc = "notify" /\ ~cur.failed
  /\ cur.outcome = "degraded" /\ enabled
  /\ \E prev \in 0..Len(rows) :
       /\ IsPreviousCompleted(prev, cur.country, cur.id)
       /\ cur' = IF Carries(prev)
                 THEN [cur EXCEPT !.pc = "carry", !.prevAlert = rows[prev].alertAt]
                 ELSE [cur EXCEPT !.pc = "send"]
  /\ UNCHANGED <<rows, clock, begun, enabled, delivered, flawed, handled, faults>>

\* The lookup fails: err towards sending.
LookupFails ==
  /\ cur.pc = "notify" /\ ~cur.failed
  /\ cur.outcome = "degraded" /\ enabled
  /\ CountFault
  /\ cur' = [cur EXCEPT !.pc = "send"]
  /\ flawed' = flawed \cup {cur.id}
  /\ UNCHANGED <<rows, clock, begun, enabled, delivered, handled>>

Deliver == delivered' = Append(delivered, [country |-> cur.country, run |-> cur.id])

SendAlert ==
  /\ cur.pc = "send"
  /\ Deliver
  /\ cur' = [cur EXCEPT !.pc = "mark"]
  /\ UNCHANGED <<rows, clock, begun, enabled, flawed, handled, faults>>

\* SendIngestFailure returns an error, delivered or not: deliberately unmarked.
SendAlertFails ==
  /\ cur.pc = "send"
  /\ CountFault
  /\ Deliver \/ UNCHANGED delivered
  /\ flawed' = flawed \cup {cur.id}
  /\ Done
  /\ UNCHANGED <<rows, clock, begun, enabled, handled>>

\* Faulty variant: a carried row is stamped with the time of the marking.
StampNow == Len(delivered) + 1

\* The delivery time a row is marked with: the streak's original one when
\* carrying, now when the alert has just been sent.
Stamp == IF cur.pc = "carry" THEN cur.prevAlert ELSE Len(delivered)

MarkAlerted ==
  /\ cur.pc \in {"carry", "mark"}
  /\ rows' = [rows EXCEPT ![cur.id].alertAt = Stamp]
  /\ handled' = handled \cup {cur.id}
  /\ Done
  /\ UNCHANGED <<clock, begun, enabled, delivered, flawed, faults>>

\* The mark fails, executed or not: the next degraded run may alert again.
MarkAlertedFails ==
  /\ cur.pc \in {"carry", "mark"}
  /\ CountFault
  /\ rows' \in {rows, [rows EXCEPT ![cur.id].alertAt = Stamp]}
  /\ handled' = handled \cup {cur.id}
  /\ flawed' = flawed \cup {cur.id}
  /\ Done
  /\ UNCHANGED <<clock, begun, enabled, delivered>>

(***************************************************************************)
(* The process restarts, by crash or deployment, with or without alerting  *)
(* configured.  An unfinished run's row stays as it was.                   *)
(***************************************************************************)
Restart ==
  /\ CountFault
  /\ enabled' \in BOOLEAN
  /\ Done
  /\ flawed' = IF cur.pc \in {"idle", "starting", "running"} THEN flawed
               ELSE flawed \cup {cur.id}
  /\ UNCHANGED <<rows, clock, begun, delivered, handled>>

(***************************************************************************)
(* cmd/ingest: its own rows, no lock, no alerts.                           *)
(***************************************************************************)
CommandBegins ==
  /\ ReadClock
  /\ \E c \in Countries : begun' = begun \cup {[country |-> c, started |-> clock']}
  /\ UNCHANGED <<rows, cur, enabled, delivered, flawed, handled, faults>>

CommandCreates ==
  /\ \E b \in begun : NewRow(b.country, b.started, "command") /\ begun' = begun \ {b}
  /\ UNCHANGED <<clock, cur, enabled, delivered, flawed, handled, faults>>

\* Its run ends; one that is killed or times out simply never does.
CommandCompletes ==
  /\ \E i \in 1..Len(rows) :
       /\ rows[i].by = "command" /\ rows[i].status = "running"
       /\ \E err, storage, upstream \in BOOLEAN :
            rows' = SetStatus(i, RunOutcome(err, storage, upstream))
  /\ UNCHANGED <<clock, begun, cur, enabled, delivered, flawed, handled, faults>>

Next ==
  \/ BeginRun \/ CreateRun \/ CreateRunFails \/ CompleteRun \/ CompleteRunFails
  \/ NotifyFailure \/ NotifyNothing \/ NotifyDegraded \/ LookupFails
  \/ SendAlert \/ SendAlertFails \/ MarkAlerted \/ MarkAlertedFails
  \/ Restart \/ CommandBegins \/ CommandCreates \/ CommandCompletes

Spec == Init /\ [][Next]_vars

(***************************************************************************)
(* Properties.                                                             *)
(***************************************************************************)

\* No scheduled run of c between ids k and i completed other than degraded.
Streak(c, k, i) ==
  \A j \in k..i :
    rows[j].country = c /\ rows[j].by = "scheduler" =>
      rows[j].status \in {"degraded", "running"}

\* Some degraded alert for c was delivered for a run of the streak up to i.
AlertedInStreak(c, i) ==
  \E d \in 1..Len(delivered) :
    /\ delivered[d].country = c /\ delivered[d].run <= i
    /\ Streak(c, delivered[d].run, i)

\* alert_sent_at is always the time of a real delivery, to the same country,
\* for this run or an earlier one of the same streak (db.go,
\* MarkIngestionRunAlerted).
AlertTimesAreDeliveries ==
  \A i \in 1..Len(rows) :
    LET d == rows[i].alertAt
    IN  d # 0 =>
          /\ d <= Len(delivered)
          /\ delivered[d].country = rows[i].country
          /\ delivered[d].run <= i
          /\ Streak(rows[i].country, delivered[d].run, i)

\* A degraded run is only passed over in silence when the people alerted have
\* already had an e-mail about the same streak: failed sends, lost marks,
\* crashes and orphaned rows never silence it.
NoSilentStreak ==
  \A i \in handled : AlertedInStreak(rows[i].country, i)

\* One e-mail per degraded streak, unless a fault disturbed the handling of a
\* run in between or a run of the command, which marks nothing, came between.
\* A row orphaned while running is no such excuse.
AlertedOncePerStreak ==
  \A d, e \in 1..Len(delivered) :
    LET c == delivered[d].country
        first == delivered[d].run
        second == delivered[e].run
    IN  d < e /\ delivered[e].country = c /\ Streak(c, first, second) =>
          \E j \in first..second :
            j \in flawed \/ (rows[j].by = "command" /\ rows[j].country = c)

\* The scheduler takes a run for done, and sends no failure alert, only when
\* its row says success or degraded, and says what the run's outcome was.
NilErrorMeansRecorded ==
  cur.pc \notin {"idle", "starting", "running"} /\ ~cur.failed =>
    /\ cur.id # 0
    /\ rows[cur.id].status = cur.outcome
    /\ cur.outcome # "failure"

Failing(c) == Reports(c, {"failure", "degraded"})

\* A country's failed or degraded state stays visible on /health until a run of it
\* that began later than every completed one succeeds: starting a run, orphaning
\* one, or the end of one that began earlier but was recorded later hides nothing.
FailureStaysVisible ==
  [][\A c \in Countries :
       Failing(c) /\ ~Failing(c)' =>
         \E i \in DOMAIN rows :
           /\ rows[i].country = c
           /\ \A j \in CompletedBefore(c, Len(rows) + 1) : rows[j].started < rows[i].started
           /\ rows[i].status = "running" /\ rows'[i].status = "success"]_rows
=============================================================================
