---------------------------- MODULE EventStore ----------------------------
(***************************************************************************)
(* The events table and the ingesters that write it: runIngest and         *)
(* processEONETBody for one country, UpsertEvent, UpdateEventMetadata and  *)
(* the trigger that labels a row with the state its geometry lies in.      *)
(*                                                                         *)
(* EONET publishes successive snapshots of its events.  The scheduler and  *)
(* the ingest command, which takes no lock, both fetch them and write.     *)
(* GDACS may answer, refuse or be out for as long as it likes; calls to    *)
(* EONET and the database fail a bounded number of times.                  *)
(***************************************************************************)
EXTENDS Integers, FiniteSets

CONSTANTS
  Events,      \* source ids
  Polygons,    \* those EONET publishes with a polygon
  Scheduler, Command,
  MaxVersion,  \* [Events -> Nat]: snapshots explored of each event
  Fits,        \* [Events -> SUBSET Fit]: fits explored of each event
  MaxFaults    \* failed calls, aborts and crashes explored

(***************************************************************************)
(* How a snapshot's (resolved) geometry relates to the country.  "outside":*)
(* it misses the country's box; "unusable": normalize fails, there is no   *)
(* geometry, or a polygon without positions.                               *)
(***************************************************************************)
Fit == {"inside", "outside", "unusable"}

ASSUME ConstantsAssumption ==
  /\ Polygons \subseteq Events
  /\ MaxVersion \in [Events -> Nat] /\ Fits \in [Events -> SUBSET Fit]
  /\ MaxFaults \in Nat

Ingesters == {Scheduler, Command}

Snapshot == [ver : Nat, closed : BOOLEAN, fit : Fit]

Unpublished == [ver |-> 0, closed |-> FALSE, fit |-> "unusable"]

VARIABLES
  up,        \* EONET's snapshot of each event
  recent,    \* events dated within the last closedEventWindowDays
  db,        \* events rows: the snapshot each group of columns comes from
  pc,        \* where an ingester is
  query,     \* status= of its request
  body,      \* snapshots of its answer still to be processed
  storage,   \* StorageErrors > 0
  upstream,  \* EventsGeomUpstreamFailed > 0
  outcome,   \* outcome of its last run
  missed,    \* ghost: events a run (reported as a success, once it has ended)
             \* lost to an outage or a failed write
  faults

vars ==
  <<up, recent, db, pc, query, body, storage, upstream, outcome, missed, faults>>

\* status, title, source_url...; geom, lat, lon, geom_type; state and country
\* name; event_date and raw_payload.  checked: GDACS vouched for geom.
Row == [meta : Snapshot, geom : Snapshot, label : Snapshot, dated : Snapshot,
        checked : BOOLEAN]

TypeOK ==
  /\ up \in [Events -> Snapshot] /\ recent \subseteq Events
  /\ DOMAIN db \subseteq Events
  /\ \A e \in DOMAIN db : db[e] \in Row
  /\ pc \in [Ingesters -> {"idle", "fetch", "process"}]
  /\ query \in [Ingesters -> {"open", "closed"}]
  /\ \A i \in Ingesters :
       DOMAIN body[i] \subseteq Events /\ \A e \in DOMAIN body[i] : body[i][e] \in Snapshot
  /\ storage \in [Ingesters -> BOOLEAN] /\ upstream \in [Ingesters -> BOOLEAN]
  /\ outcome \in [Ingesters -> {"none", "success", "degraded", "failure"}]
  /\ missed \in [Ingesters -> SUBSET Events]
  /\ faults \in 0..MaxFaults

NoSnapshots == [e \in {} |-> Unpublished]

Init ==
  /\ up = [e \in Events |-> Unpublished]
  /\ recent = {}
  /\ db = [e \in {} |-> Unpublished]
  /\ pc = [i \in Ingesters |-> "idle"]
  /\ query = [i \in Ingesters |-> "open"]
  /\ body = [i \in Ingesters |-> NoSnapshots]
  /\ storage = [i \in Ingesters |-> FALSE]
  /\ upstream = [i \in Ingesters |-> FALSE]
  /\ outcome = [i \in Ingesters |-> "none"]
  /\ missed = [i \in Ingesters |-> {}]
  /\ faults = 0

CountFault == faults < MaxFaults /\ faults' = faults + 1

\* EONET publishes a new snapshot of an event, dated within the window or (a
\* fire that has burnt for months) before it.
Publish ==
  /\ \E e \in Events, closed \in BOOLEAN : \E fit \in Fits[e] :
       /\ up[e].ver < MaxVersion[e]
       /\ up' = [up EXCEPT ![e] = [ver |-> @.ver + 1, closed |-> closed, fit |-> fit]]
       /\ recent' \in {recent \ {e}, recent \cup {e}}
  /\ UNCHANGED <<db, pc, query, body, storage, upstream, outcome, missed, faults>>

\* The date of an event falls behind the window.
LeaveWindow ==
  /\ \E e \in recent : recent' = recent \ {e}
  /\ UNCHANGED <<up, db, pc, query, body, storage, upstream, outcome, missed, faults>>

(***************************************************************************)
(* A run: the open query, then the closed one.                             *)
(***************************************************************************)
BeginRun(i) ==
  /\ pc[i] = "idle"
  /\ pc' = [pc EXCEPT ![i] = "fetch"]
  /\ outcome' = [outcome EXCEPT ![i] = "none"]
  /\ UNCHANGED <<up, recent, db, query, body, storage, upstream, missed, faults>>

\* status=open without a window, or status=closed with days=, which goes by
\* the event's date and not by when it was closed.
Served(q) ==
  {e \in Events : /\ up[e].ver > 0 /\ up[e].closed = (q = "closed")
                  /\ q = "closed" => e \in recent}

Fetch(i) ==
  /\ pc[i] = "fetch"
  /\ body' = [body EXCEPT ![i] = [e \in Served(query[i]) |-> up[e]]]
  /\ pc' = [pc EXCEPT ![i] = "process"]
  /\ UNCHANGED <<up, recent, db, query, storage, upstream, outcome, missed, faults>>

\* Faulty variant: a run that wrote what it could counts as a success.
RunOutcomeLenient(err, storageErrors, upstreamFailed) ==
  IF err \/ storageErrors THEN "failure" ELSE "success"

RunOutcome(err, storageErrors, upstreamFailed) ==
  IF err \/ storageErrors THEN "failure"
  ELSE IF upstreamFailed THEN "degraded" ELSE "success"

\* The ingester's result and loop variables are gone.
Forget(i) ==
  /\ pc' = [pc EXCEPT ![i] = "idle"]
  /\ query' = [query EXCEPT ![i] = "open"]
  /\ body' = [body EXCEPT ![i] = NoSnapshots]
  /\ storage' = [storage EXCEPT ![i] = FALSE]
  /\ upstream' = [upstream EXCEPT ![i] = FALSE]

EndRun(i, err) ==
  LET result == RunOutcome(err, storage[i], upstream[i])
  IN  /\ outcome' = [outcome EXCEPT ![i] = result]
      /\ missed' = [missed EXCEPT ![i] = IF result = "success" THEN @ ELSE {}]
      /\ Forget(i)

NextQuery(i) ==
  /\ pc[i] = "process" /\ body[i] = NoSnapshots /\ query[i] = "open"
  /\ query' = [query EXCEPT ![i] = "closed"]
  /\ pc' = [pc EXCEPT ![i] = "fetch"]
  /\ UNCHANGED <<up, recent, db, body, storage, upstream, outcome, missed, faults>>

FinishRun(i) ==
  /\ pc[i] = "process" /\ body[i] = NoSnapshots /\ query[i] = "closed"
  /\ EndRun(i, FALSE)
  /\ UNCHANGED <<up, recent, db, faults>>

\* The fetch fails, an event is too big, the context is cancelled: the run
\* returns at once with an error.
Abort(i) ==
  /\ pc[i] # "idle" /\ CountFault
  /\ EndRun(i, TRUE)
  /\ UNCHANGED <<up, recent, db>>

Crash(i) ==
  /\ pc[i] # "idle" /\ CountFault
  /\ Forget(i)
  /\ missed' = [missed EXCEPT ![i] = {}]
  /\ UNCHANGED <<up, recent, db, outcome>>

(***************************************************************************)
(* The writes.                                                             *)
(***************************************************************************)
WithRow(e, row) == [f \in DOMAIN db \cup {e} |-> IF f = e THEN row ELSE db[f]]

\* INSERT ... ON CONFLICT DO UPDATE of every column; the trigger relabels.
Upserted(e, snap) ==
  WithRow(e, [meta |-> snap, geom |-> snap, label |-> snap, dated |-> snap,
              checked |-> e \in Polygons])

\* Faulty variants of the metadata update: it also writes event_date and
\* raw_payload; it leaves the row alone.
RefreshedWithDate(row, snap) == [row EXCEPT !.meta = snap, !.dated = snap]
NotRefreshed(row, snap) == row

Refreshed(row, snap) == [row EXCEPT !.meta = snap]

\* Faulty variant: an unknown event is inserted without its geometry.
MetadataUpserted(e, snap) ==
  WithRow(e, IF e \in DOMAIN db THEN Refreshed(db[e], snap) ELSE [meta |-> snap])

\* UpdateEventMetadata updates an existing row and never inserts.
MetadataUpdated(e, snap) ==
  IF e \in DOMAIN db THEN WithRow(e, Refreshed(db[e], snap)) ELSE db

Processing(i, e) == pc[i] = "process" /\ e \in DOMAIN body[i]

\* The loop goes on with the next event of the body.
NextEvent(i, e) ==
  /\ body' = [body EXCEPT ![i] = [f \in DOMAIN @ \ {e} |-> @[f]]]
  /\ UNCHANGED <<up, recent, pc, query, outcome>>

Miss(i, e) == missed' = [missed EXCEPT ![i] = @ \cup {e}]

\* Unusable, or outside the country: skipped altogether.
SkipEvent(i, e) ==
  /\ Processing(i, e) /\ body[i][e].fit # "inside"
  /\ NextEvent(i, e)
  /\ UNCHANGED <<db, storage, upstream, missed, faults>>

\* The write succeeds, or fails with an error, executed or not.
Write(i, e, written) ==
  \/ db' = written /\ UNCHANGED <<storage, missed, faults>>
  \/ /\ CountFault
     /\ db' \in {db, written}
     /\ storage' = [storage EXCEPT ![i] = TRUE]
     /\ Miss(i, e)

\* A point, or a polygon whose geometry GDACS has vouched for.
StoreEvent(i, e) ==
  /\ Processing(i, e) /\ body[i][e].fit = "inside"
  /\ Write(i, e, Upserted(e, body[i][e]))
  /\ NextEvent(i, e)
  /\ UNCHANGED upstream

\* GDACS answers, and no single ring matches: metadata only, not an outage.
RefuseGeometry(i, e) ==
  /\ Processing(i, e) /\ e \in Polygons /\ body[i][e].fit # "unusable"
  /\ Write(i, e, MetadataUpdated(e, body[i][e]))
  /\ NextEvent(i, e)
  /\ UNCHANGED upstream

\* GDACS cannot answer: metadata only, and the run is degraded.
GeometryOutage(i, e) ==
  /\ Processing(i, e) /\ e \in Polygons /\ body[i][e].fit # "unusable"
  /\ upstream' = [upstream EXCEPT ![i] = TRUE]
  /\ Miss(i, e)
  /\ \/ db' = MetadataUpdated(e, body[i][e]) /\ UNCHANGED <<storage, faults>>
     \/ /\ CountFault
        /\ db' \in {db, MetadataUpdated(e, body[i][e])}
        /\ storage' = [storage EXCEPT ![i] = TRUE]
  /\ NextEvent(i, e)

Step(i) ==
  \/ BeginRun(i) \/ Fetch(i) \/ NextQuery(i) \/ FinishRun(i)
  \/ \E e \in Events :
       SkipEvent(i, e) \/ StoreEvent(i, e) \/ RefuseGeometry(i, e) \/ GeometryOutage(i, e)

Next ==
  \/ Publish \/ LeaveWindow
  \/ \E i \in Ingesters : Step(i) \/ Abort(i) \/ Crash(i)

Spec == Init /\ [][Next]_vars

\* The ticker starts a run again and again, and every run ends.
FairSpec == Spec /\ WF_vars(Step(Scheduler))

(***************************************************************************)
(* Properties.                                                             *)
(***************************************************************************)

\* A row never pairs the geometry of one observation with the labels, the date
\* or the payload of another; what is stored lies in the country, and no
\* polygon is stored that GDACS has not vouched for.
RowsAreWhole ==
  \A e \in DOMAIN db :
    /\ db[e].geom = db[e].label /\ db[e].geom = db[e].dated
    /\ db[e].geom.fit = "inside"
    /\ e \in Polygons => db[e].checked

\* A run recorded as a success has lost no event to an outage or a failed
\* write.
SuccessMeansCovered ==
  \A i \in Ingesters : outcome[i] = "success" => missed[i] = {}

\* Once EONET has closed an event that is not skipped, and as long as the
\* event is dated within the window, the table stops calling it open, however
\* long GDACS is out and whatever the ingest command writes.
ClosedIsLearned ==
  \A e \in Events :
    <>[](up[e].closed /\ up[e].fit = "inside" /\ e \in recent)
      => <>[](e \notin DOMAIN db \/ db[e].meta.closed)

\* The same of an event of any date, which the days= of the closed query rules
\* out: a fire that closes months after its date is in neither answer, and its
\* row stays open (MCClosingWindow.cfg has the trace).
ClosedIsLearnedAtAnyAge ==
  \A e \in Events :
    <>[](up[e].closed /\ up[e].fit = "inside")
      => <>[](e \notin DOMAIN db \/ db[e].meta.closed)
=============================================================================
