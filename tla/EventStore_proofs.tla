--------------------------- MODULE EventStore_proofs ---------------------------
(***************************************************************************)
(* Proofs about the events table and its two ingesters, for any number of  *)
(* events, snapshots, lost writes, outages, aborts and crashes.            *)
(***************************************************************************)
EXTENDS EventStore, TLAPS

\* What every table must be, whichever write produced it.
GoodRows(d) ==
  /\ DOMAIN d \subseteq Events
  /\ \A e \in DOMAIN d :
       /\ d[e] \in Row
       /\ d[e].geom = d[e].label /\ d[e].geom = d[e].dated /\ d[e].geom.fit = "inside"
       /\ e \in Polygons => d[e].checked

GoodBody(b) ==
  DOMAIN b \subseteq Events /\ \A e \in DOMAIN b : b[e] \in Snapshot

\* An ingester that has lost an event has one of its two flags raised, and has no
\* outcome before it has ended its run.
Honest(i) ==
  /\ missed[i] # {} => storage[i] = TRUE \/ upstream[i] = TRUE
  /\ pc[i] # "idle" => outcome[i] = "none"
  /\ outcome[i] = "success" => missed[i] = {}

IngesterInv ==
  /\ pc \in [Ingesters -> {"idle", "fetch", "process"}]
  /\ query \in [Ingesters -> {"open", "closed"}]
  /\ DOMAIN body = Ingesters /\ \A i \in Ingesters : GoodBody(body[i])
  /\ storage \in [Ingesters -> BOOLEAN] /\ upstream \in [Ingesters -> BOOLEAN]
  /\ outcome \in [Ingesters -> {"none", "success", "degraded", "failure"}]
  /\ missed \in [Ingesters -> SUBSET Events]
  /\ \A i \in Ingesters : Honest(i)

StoreInv ==
  /\ up \in [Events -> Snapshot] /\ recent \subseteq Events
  /\ GoodRows(db) /\ faults \in 0..MaxFaults
  /\ IngesterInv

LEMMA CountFaultType ==
  ASSUME faults \in 0..MaxFaults, CountFault PROVE faults' \in 0..MaxFaults
BY ConstantsAssumption DEF CountFault

\* An upsert writes every group of columns from the one snapshot.
LEMMA UpsertGood ==
  ASSUME GoodRows(db), NEW e \in Events, NEW snap \in Snapshot, snap.fit = "inside"
  PROVE  GoodRows(Upserted(e, snap))
<1> DEFINE row == [meta |-> snap, geom |-> snap, label |-> snap, dated |-> snap,
                   checked |-> e \in Polygons]
<1>1. row \in Row
  BY DEF Row
<1>2. /\ row.geom = row.label /\ row.geom = row.dated /\ row.geom.fit = "inside"
      /\ e \in Polygons => row.checked
  OBVIOUS
<1>3. Upserted(e, snap) = [f \in DOMAIN db \cup {e} |-> IF f = e THEN row ELSE db[f]]
  BY DEF Upserted, WithRow
<1> HIDE DEF row
<1> QED
  BY <1>1, <1>2, <1>3, ZenonT(60) DEF GoodRows

\* The metadata update never touches the columns derived from the geometry.
LEMMA RefreshGood ==
  ASSUME GoodRows(db), NEW e \in Events, NEW snap \in Snapshot
  PROVE  GoodRows(MetadataUpdated(e, snap))
<1>1. CASE e \notin DOMAIN db
  BY <1>1 DEF MetadataUpdated
<1>2. CASE e \in DOMAIN db
  <2> DEFINE row == Refreshed(db[e], snap)
  <2>1. db[e] \in Row
    BY <1>2 DEF GoodRows
  <2>2. row \in Row
    BY <2>1 DEF Refreshed, Row
  <2>3. /\ row.geom = db[e].geom /\ row.label = db[e].label /\ row.dated = db[e].dated
        /\ row.checked = db[e].checked
    BY <2>1 DEF Refreshed, Row
  <2>4. MetadataUpdated(e, snap) = [f \in DOMAIN db \cup {e} |-> IF f = e THEN row ELSE db[f]]
    BY <1>2 DEF MetadataUpdated, WithRow
  <2> HIDE DEF row
  <2> QED
    BY <1>2, <2>2, <2>3, <2>4 DEF GoodRows
<1> QED
  BY <1>1, <1>2

LEMMA StoreInit == Init => StoreInv
<1> SUFFICES ASSUME Init PROVE StoreInv
  OBVIOUS
<1>1. up \in [Events -> Snapshot] /\ recent \subseteq Events
  BY DEF Init, Unpublished, Snapshot, Fit
<1>2. GoodRows(db)
  BY DEF Init, GoodRows
<1>3. faults \in 0..MaxFaults
  BY ConstantsAssumption DEF Init
<1>4. IngesterInv
  BY DEF Init, IngesterInv, GoodBody, Honest, NoSnapshots
<1> QED
  BY <1>1, <1>2, <1>3, <1>4 DEF StoreInv

LEMMA PublishStep == StoreInv /\ Publish => StoreInv'
<1> SUFFICES ASSUME StoreInv, Publish PROVE StoreInv'
  OBVIOUS
<1>1. PICK e \in Events, closed \in BOOLEAN : \E fit \in Fits[e] :
        /\ up' = [up EXCEPT ![e] = [ver |-> @.ver + 1, closed |-> closed, fit |-> fit]]
        /\ recent' \in {recent \ {e}, recent \cup {e}}
  BY DEF Publish
<1>2. PICK fit \in Fits[e] :
        /\ up' = [up EXCEPT ![e] = [ver |-> up[e].ver + 1, closed |-> closed, fit |-> fit]]
        /\ recent' \in {recent \ {e}, recent \cup {e}}
  BY <1>1
<1>3. fit \in Fit
  BY ConstantsAssumption
<1>4. up[e].ver + 1 \in Nat
  BY DEF StoreInv, Snapshot
<1>5. up' \in [Events -> Snapshot]
  BY <1>2, <1>3, <1>4 DEF StoreInv, Snapshot
<1>6. recent' \subseteq Events
  BY <1>2 DEF StoreInv
<1> QED
  BY <1>5, <1>6 DEF Publish, StoreInv, IngesterInv, Honest

\* A run that ends without an error and with neither flag raised has missed nothing.
LEMMA RunEndsHonestly ==
  ASSUME IngesterInv, NEW i \in Ingesters, NEW err \in BOOLEAN, EndRun(i, err)
  PROVE  IngesterInv'
<1> DEFINE result == RunOutcome(err, storage[i], upstream[i])
<1>1. /\ result \in {"success", "degraded", "failure"}
      /\ result = "success" => storage[i] # TRUE /\ upstream[i] # TRUE
  BY DEF RunOutcome, IngesterInv
<1>2. result = "success" => missed[i] = {}
  BY <1>1 DEF IngesterInv, Honest
<1>3. /\ outcome' = [outcome EXCEPT ![i] = result]
      /\ missed' = [missed EXCEPT ![i] = IF result = "success" THEN missed[i] ELSE {}]
      /\ Forget(i)
  BY DEF EndRun
<1> HIDE DEF result
<1>4. missed' = [missed EXCEPT ![i] = {}]
  BY <1>2, <1>3 DEF IngesterInv
<1>5. GoodBody(NoSnapshots)
  BY DEF GoodBody, NoSnapshots
<1>6. \A j \in Ingesters : Honest(j)'
  BY <1>1, <1>3, <1>4 DEF IngesterInv, Honest, Forget
<1> QED
  BY <1>1, <1>3, <1>4, <1>5, <1>6 DEF IngesterInv, Forget

LEMMA RunSteps ==
  ASSUME StoreInv, NEW i \in Ingesters,
         BeginRun(i) \/ Fetch(i) \/ NextQuery(i) \/ FinishRun(i) \/ Abort(i) \/ Crash(i)
  PROVE  StoreInv'
<1>1. CASE BeginRun(i)
  BY <1>1 DEF BeginRun, StoreInv, IngesterInv, Honest
<1>2. CASE Fetch(i)
  <2>1. GoodBody([e \in Served(query[i]) |-> up[e]])
    BY DEF GoodBody, Served, StoreInv
  <2> QED
    BY <1>2, <2>1 DEF Fetch, StoreInv, IngesterInv, Honest
<1>3. CASE NextQuery(i)
  BY <1>3 DEF NextQuery, StoreInv, IngesterInv, Honest
<1>4. CASE FinishRun(i)
  BY <1>4, RunEndsHonestly DEF FinishRun, StoreInv
<1>5. CASE Abort(i)
  BY <1>5, RunEndsHonestly, CountFaultType DEF Abort, StoreInv
<1>6. CASE Crash(i)
  <2>1. GoodBody(NoSnapshots)
    BY DEF GoodBody, NoSnapshots
  <2>2. \A j \in Ingesters : Honest(j)'
    BY <1>6 DEF Crash, Forget, StoreInv, IngesterInv, Honest
  <2>3. IngesterInv'
    BY <1>6, <2>1, <2>2 DEF Crash, Forget, StoreInv, IngesterInv
  <2> QED
    BY <1>6, <2>3, CountFaultType DEF Crash, StoreInv
<1> QED
  BY <1>1, <1>2, <1>3, <1>4, <1>5, <1>6

\* What one event of a body leaves: the body shrinks, and what is missed raises a flag.
LEMMA EventLeaves ==
  ASSUME IngesterInv, NEW i \in Ingesters, NEW e \in Events, Processing(i, e), NextEvent(i, e),
         NEW s \in BOOLEAN, NEW u \in BOOLEAN, NEW m \in SUBSET Events,
         storage' = [storage EXCEPT ![i] = s], upstream' = [upstream EXCEPT ![i] = u],
         missed' = [missed EXCEPT ![i] = m],
         m # {} => s = TRUE \/ u = TRUE
  PROVE  IngesterInv'
<1>1. GoodBody([f \in DOMAIN body[i] \ {e} |-> body[i][f]])
  BY DEF IngesterInv, GoodBody
<1>2. body' = [body EXCEPT ![i] = [f \in DOMAIN body[i] \ {e} |-> body[i][f]]]
  BY DEF NextEvent
<1>3. DOMAIN body' = Ingesters /\ \A j \in Ingesters : GoodBody(body'[j])
  BY <1>1, <1>2 DEF IngesterInv
<1>4. \A j \in Ingesters : Honest(j)'
  BY DEF IngesterInv, Honest, NextEvent, Processing
<1> QED
  BY <1>3, <1>4 DEF IngesterInv, NextEvent

LEMMA EventSteps ==
  ASSUME StoreInv, NEW i \in Ingesters, NEW e \in Events,
         SkipEvent(i, e) \/ StoreEvent(i, e) \/ RefuseGeometry(i, e) \/ GeometryOutage(i, e)
  PROVE  StoreInv'
<1>1. Processing(i, e) /\ NextEvent(i, e)
  BY DEF SkipEvent, StoreEvent, RefuseGeometry, GeometryOutage
<1>2. body[i][e] \in Snapshot
  BY <1>1 DEF Processing, StoreInv, IngesterInv, GoodBody
<1>3. up' = up /\ recent' = recent
  BY <1>1 DEF NextEvent
<1>4. /\ storage = [storage EXCEPT ![i] = storage[i]] /\ storage[i] \in BOOLEAN
      /\ upstream = [upstream EXCEPT ![i] = upstream[i]] /\ upstream[i] \in BOOLEAN
      /\ missed = [missed EXCEPT ![i] = missed[i]] /\ missed[i] \in SUBSET Events
      /\ missed[i] # {} => storage[i] = TRUE \/ upstream[i] = TRUE
  BY DEF StoreInv, IngesterInv, Honest
<1>5. Miss(i, e) =>
        /\ missed' = [missed EXCEPT ![i] = missed[i] \cup {e}]
        /\ missed[i] \cup {e} \in SUBSET Events
  BY <1>4 DEF Miss
<1>6. ASSUME NEW written, GoodRows(written), Write(i, e, written), upstream' = upstream
      PROVE  StoreInv'
  <2>1. CASE db' = written /\ UNCHANGED <<storage, missed, faults>>
    <3>1. IngesterInv'
      BY <1>1, <1>4, <1>6, <2>1, EventLeaves DEF StoreInv
    <3> QED
      BY <1>3, <1>6, <2>1, <3>1 DEF StoreInv, GoodRows
  <2>2. CASE /\ CountFault /\ db' \in {db, written}
             /\ storage' = [storage EXCEPT ![i] = TRUE] /\ Miss(i, e)
    <3>1. IngesterInv'
      BY <1>1, <1>4, <1>5, <1>6, <2>2, EventLeaves DEF StoreInv
    <3>2. faults' \in 0..MaxFaults
      BY <2>2, CountFaultType DEF StoreInv
    <3> QED
      BY <1>3, <1>6, <2>2, <3>1, <3>2 DEF StoreInv, GoodRows
  <2> QED
    BY <1>6, <2>1, <2>2 DEF Write
<1>7. CASE SkipEvent(i, e)
  <2>1. IngesterInv'
    BY <1>1, <1>4, <1>7, EventLeaves DEF SkipEvent, StoreInv
  <2> QED
    BY <1>3, <1>7, <2>1 DEF SkipEvent, StoreInv, GoodRows
<1>8. CASE StoreEvent(i, e)
  <2>1. GoodRows(Upserted(e, body[i][e]))
    BY <1>2, <1>8, UpsertGood DEF StoreEvent, StoreInv
  <2> QED
    BY <1>6, <1>8, <2>1 DEF StoreEvent
<1>9. CASE RefuseGeometry(i, e)
  <2>1. GoodRows(MetadataUpdated(e, body[i][e]))
    BY <1>2, RefreshGood DEF StoreInv
  <2> QED
    BY <1>6, <1>9, <2>1 DEF RefuseGeometry
<1>10. CASE GeometryOutage(i, e)
  <2>1. GoodRows(MetadataUpdated(e, body[i][e]))
    BY <1>2, RefreshGood DEF StoreInv
  <2>2. GoodRows(db)'
    BY <1>10, <2>1 DEF GeometryOutage, StoreInv, GoodRows
  <2>3. CASE UNCHANGED <<storage, faults>>
    <3>1. IngesterInv'
      BY <1>1, <1>4, <1>5, <1>10, <2>3, EventLeaves DEF GeometryOutage, StoreInv
    <3> QED
      BY <1>3, <2>2, <2>3, <3>1 DEF StoreInv
  <2>4. CASE CountFault /\ storage' = [storage EXCEPT ![i] = TRUE]
    <3>1. IngesterInv'
      BY <1>1, <1>4, <1>5, <1>10, <2>4, EventLeaves DEF GeometryOutage, StoreInv
    <3>2. faults' \in 0..MaxFaults
      BY <2>4, CountFaultType DEF StoreInv
    <3> QED
      BY <1>3, <2>2, <3>1, <3>2 DEF StoreInv
  <2> QED
    BY <1>10, <2>3, <2>4 DEF GeometryOutage
<1> QED
  BY <1>7, <1>8, <1>9, <1>10

LEMMA StoreNext == StoreInv /\ [Next]_vars => StoreInv'
<1> SUFFICES ASSUME StoreInv, [Next]_vars PROVE StoreInv'
  OBVIOUS
<1>1. CASE UNCHANGED vars
  BY <1>1 DEF vars, StoreInv, IngesterInv, Honest, GoodRows, GoodBody
<1>2. CASE Publish
  BY <1>2, PublishStep
<1>4. CASE LeaveWindow
  BY <1>4 DEF LeaveWindow, StoreInv, IngesterInv, Honest, GoodRows, GoodBody
<1>3. ASSUME NEW i \in Ingesters, Step(i) \/ Abort(i) \/ Crash(i)
      PROVE  StoreInv'
  <2>1. CASE BeginRun(i) \/ Fetch(i) \/ NextQuery(i) \/ FinishRun(i) \/ Abort(i) \/ Crash(i)
    BY <2>1, RunSteps
  <2>2. ASSUME NEW e \in Events,
               SkipEvent(i, e) \/ StoreEvent(i, e) \/ RefuseGeometry(i, e) \/ GeometryOutage(i, e)
        PROVE  StoreInv'
    BY <2>2, EventSteps
  <2> QED
    BY <1>3, <2>1, <2>2 DEF Step
<1> QED
  BY <1>1, <1>2, <1>3, <1>4 DEF Next

LEMMA StoreAlways == Spec => []StoreInv
BY StoreInit, StoreNext, PTL DEF Spec

\* Every reachable state is of the declared type: in particular no row lacks a group
\* of columns, and a metadata update inserts none.
THEOREM TypeCorrect == Spec => []TypeOK
<1>1. StoreInv => TypeOK
  BY DEF StoreInv, GoodRows, IngesterInv, GoodBody, TypeOK
<1> QED
  BY <1>1, StoreAlways, PTL

\* Rows never mix observations, whichever ingester writes what and in which order,
\* and whatever writes are lost.
THEOREM WholeRows == Spec => []RowsAreWhole
<1>1. StoreInv => RowsAreWhole
  BY DEF StoreInv, GoodRows, RowsAreWhole
<1> QED
  BY <1>1, StoreAlways, PTL

\* A run reported as a success has lost nothing, for any interleaving of the two
\* ingesters and any outages.
THEOREM SuccessCovered == Spec => []SuccessMeansCovered
<1>1. StoreInv => SuccessMeansCovered
  BY DEF StoreInv, IngesterInv, Honest, SuccessMeansCovered
<1> QED
  BY <1>1, StoreAlways, PTL
================================================================================
