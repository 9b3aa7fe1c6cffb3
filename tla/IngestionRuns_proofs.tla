------------------------ MODULE IngestionRuns_proofs ------------------------
(***************************************************************************)
(* Proofs about IngestionRuns for any set of countries and any number of   *)
(* rows and faults.                                                        *)
(***************************************************************************)
EXTENDS IngestionRuns, SequenceTheorems, TLAPS

USE BoundsAssumption

\* The row a run writes is its own: the command never touches it.
OwnRow == cur.id # 0 => rows[cur.id].by = "scheduler"

\* Only a run that returned no error is looked at for a degraded alert.
AlertsOnNil == cur.pc \in {"carry", "send", "mark"} => ~cur.failed

IInv == TypeOK /\ OwnRow /\ AlertsOnNil /\ NilErrorMeansRecorded

\* Changing one field of one row leaves a table of rows, of the same length,
\* and the other rows as they were.
LEMMA RowUpdate ==
  ASSUME rows \in Seq(Row), NEW i \in 1..Len(rows), NEW row \in Row,
         NEW t, t = [rows EXCEPT ![i] = row]
  PROVE  /\ t \in Seq(Row) /\ Len(t) = Len(rows)
         /\ t[i] = row
         /\ \A j \in 1..Len(rows) : j # i => t[j] = rows[j]
BY ExceptSeq

LEMMA StatusUpdate ==
  ASSUME rows \in Seq(Row), NEW i \in 1..Len(rows), NEW status \in Statuses
  PROVE  /\ SetStatus(i, status) \in Seq(Row)
         /\ Len(SetStatus(i, status)) = Len(rows)
         /\ SetStatus(i, status)[i] = [rows[i] EXCEPT !.status = status]
         /\ \A j \in 1..Len(rows) : j # i => SetStatus(i, status)[j] = rows[j]
<1>1. rows[i] \in Row
  OBVIOUS
<1>2. [rows[i] EXCEPT !.status = status] \in Row
  BY <1>1 DEF Row
<1>3. SetStatus(i, status) = [rows EXCEPT ![i] = [rows[i] EXCEPT !.status = status]]
  BY DEF SetStatus
<1>4. QED
  BY <1>2, <1>3, RowUpdate

LEMMA AlertUpdate ==
  ASSUME rows \in Seq(Row), NEW i \in 1..Len(rows), NEW time \in Nat,
         NEW t, t = [rows EXCEPT ![i].alertAt = time]
  PROVE  /\ t \in Seq(Row) /\ Len(t) = Len(rows)
         /\ t[i] = [rows[i] EXCEPT !.alertAt = time]
         /\ \A j \in 1..Len(rows) : j # i => t[j] = rows[j]
<1>1. rows[i] \in Row
  OBVIOUS
<1>2. [rows[i] EXCEPT !.alertAt = time] \in Row
  BY <1>1 DEF Row
<1>3. t = [rows EXCEPT ![i] = [rows[i] EXCEPT !.alertAt = time]]
  OBVIOUS
<1>4. QED
  BY <1>2, <1>3, RowUpdate

LEMMA NewRowIsRow ==
  ASSUME rows \in Seq(Row), NEW c \in Countries, NEW started \in Nat,
         NEW who \in {"scheduler", "command"}, NewRow(c, started, who)
  PROVE  /\ rows' \in Seq(Row) /\ Len(rows') = Len(rows) + 1
         /\ rows'[Len(rows) + 1].by = who
         /\ \A j \in 1..Len(rows) : rows'[j] = rows[j]
<1> DEFINE row == [country |-> c, status |-> "running", started |-> started,
                 alertAt |-> 0, by |-> who]
<1>1. row \in Row
  BY DEF Row, Statuses
<1>2. rows' = Append(rows, row)
  BY DEF NewRow
<1>3. QED
  BY <1>1, <1>2, AppendProperties

LEMMA OutcomeType ==
  ASSUME NEW err \in BOOLEAN, NEW storage \in BOOLEAN, NEW upstream \in BOOLEAN
  PROVE  RunOutcome(err, storage, upstream) \in Statuses \ {"running"}
BY DEF RunOutcome, Statuses

LEMMA IdleType == ASSUME NEW c \in Countries
                  PROVE  Idle(c) \in Run /\ Idle(c).id = 0 /\ Idle(c).pc = "idle"
BY DEF Idle, Run, Phases, Statuses

LEMMA DoneType == ASSUME Done PROVE cur' \in Run /\ cur'.id = 0 /\ cur'.pc = "idle"
BY IdleType DEF Done

LEMMA DeliverType ==
  ASSUME TypeOK, Deliver PROVE delivered' \in Seq(Alert)
<1>1. [country |-> cur.country, run |-> cur.id] \in Alert
  BY DEF TypeOK, Run, Alert
<1>2. QED
  BY <1>1, AppendProperties DEF TypeOK, Deliver

\* A run whose alert is handled has a row.
LEMMA AlertHasRow ==
  ASSUME IInv, cur.pc \in {"carry", "send", "mark"}
  PROVE  cur.id \in 1..Len(rows)
BY DEF IInv, TypeOK, AlertsOnNil, NilErrorMeansRecorded

LEMMA StampType == ASSUME TypeOK PROVE Stamp \in Nat
BY DEF TypeOK, Stamp, Run

LEMMA CountFaultType == TypeOK /\ CountFault => faults' \in 0..MaxFaults
BY DEF TypeOK, CountFault

\* The invariant is preserved by the steps that leave the table alone and by
\* the ends of runs, after which there is no current row to speak of.
LEMMA EndStep ==
  ASSUME IInv, Done, UNCHANGED <<clock, begun>>,
         rows' \in Seq(Row), enabled' \in BOOLEAN, delivered' \in Seq(Alert),
         flawed' \subseteq Nat, handled' \subseteq Nat, faults' \in 0..MaxFaults
  PROVE  IInv'
<1>1. cur' \in Run /\ cur'.id = 0 /\ cur'.pc = "idle"
  BY DoneType
<1>2. 0 \in 0..Len(rows')
  OBVIOUS
<1>3. TypeOK'
  BY <1>1, <1>2 DEF IInv, TypeOK
<1>4. QED
  BY <1>1, <1>3 DEF IInv, OwnRow, AlertsOnNil, NilErrorMeansRecorded

\* A step of the scheduled run that keeps its row, its outcome and its result,
\* and moves on while alerting is in order.
LEMMA MoveStep ==
  ASSUME IInv, UNCHANGED <<rows, clock, begun>>, cur' \in Run, cur'.id = cur.id,
         cur'.outcome = cur.outcome, cur'.failed = cur.failed,
         cur.pc \notin {"idle", "starting", "running"}, ~cur.failed,
         enabled' \in BOOLEAN, delivered' \in Seq(Alert),
         flawed' \subseteq Nat, handled' \subseteq Nat, faults' \in 0..MaxFaults
  PROVE  IInv'
<1>1. TypeOK'
  BY DEF IInv, TypeOK
<1>2. QED
  BY <1>1 DEF IInv, TypeOK, Run, OwnRow, AlertsOnNil, NilErrorMeansRecorded

\* Another ingester's row is added or completed: the current row is spared.
LEMMA OtherRowStep ==
  ASSUME IInv, rows' \in Seq(Row), Len(rows') >= Len(rows),
         cur.id # 0 => rows'[cur.id] = rows[cur.id],
         clock' \in Nat, begun' \subseteq [country : Countries, started : Nat],
         UNCHANGED <<cur, enabled, delivered, flawed, handled, faults>>
  PROVE  IInv'
<1>1. cur.id \in 0..Len(rows')
  BY LenProperties DEF IInv, TypeOK
<1>2. TypeOK'
  BY <1>1 DEF IInv, TypeOK
<1>3. QED
  BY <1>2 DEF IInv, OwnRow, AlertsOnNil, NilErrorMeansRecorded

LEMMA StartStep == IInv /\ (BeginRun \/ CreateRun \/ CreateRunFails) => IInv'
<1> SUFFICES ASSUME IInv, BeginRun \/ CreateRun \/ CreateRunFails PROVE IInv'
  OBVIOUS
<1> USE DEF IInv, TypeOK
<1>1. cur.country \in Countries /\ cur.started \in Nat
  BY DEF Run
<1>2. \A id \in Nat : Started(id) \in Run /\ Started(id).id = id /\ Started(id).pc = "running"
  BY DEF Started, Run, Phases
<1>3. CASE CreateRun
  <2>1. /\ rows' \in Seq(Row) /\ Len(rows') = Len(rows) + 1
        /\ rows'[Len(rows) + 1].by = "scheduler"
    BY <1>1, <1>3, NewRowIsRow DEF CreateRun
  <2>2. cur' = Started(Len(rows) + 1) /\ Len(rows) + 1 \in Nat
    BY <1>3 DEF CreateRun
  <2>3. cur' \in Run /\ cur'.id = Len(rows) + 1 /\ cur'.pc = "running"
    BY <1>2, <2>2
  <2>4. cur'.id \in 0..Len(rows')
    BY <2>1, <2>3, LenProperties
  <2>5. TypeOK'
    BY <1>3, <2>1, <2>3, <2>4 DEF CreateRun
  <2>6. QED
    BY <2>1, <2>3, <2>5 DEF OwnRow, AlertsOnNil, NilErrorMeansRecorded
<1>4. CASE CreateRunFails
  <2>1. rows' \in Seq(Row)
    BY <1>1, <1>4, NewRowIsRow DEF CreateRunFails
  <2>2. cur' \in Run /\ cur'.id = 0 /\ cur'.pc = "running"
    BY <1>2, <1>4 DEF CreateRunFails
  <2>3. cur'.id \in 0..Len(rows')
    BY <2>1, <2>2, LenProperties
  <2>4. faults' \in 0..MaxFaults
    BY <1>4, CountFaultType DEF CreateRunFails
  <2>5. UNCHANGED <<clock, begun, enabled, delivered, flawed, handled>>
    BY <1>4 DEF CreateRunFails
  <2>6. TypeOK'
    BY <2>1, <2>2, <2>3, <2>4, <2>5
  <2>7. QED
    BY <2>2, <2>6 DEF OwnRow, AlertsOnNil, NilErrorMeansRecorded
<1>5. CASE BeginRun
  <2>1. /\ clock' \in Nat /\ cur \in Run
        /\ cur' = [cur EXCEPT !.pc = "starting", !.started = clock']
    BY <1>5 DEF BeginRun, ReadClock
  <2> HIDE DEF IInv, TypeOK
  <2>2. cur' \in Run /\ cur'.pc = "starting" /\ cur'.id = cur.id
    BY <2>1 DEF Run, Phases
  <2>3. TypeOK'
    BY <1>5, <2>1, <2>2 DEF BeginRun, IInv, TypeOK
  <2>4. QED
    BY <1>5, <2>2, <2>3 DEF BeginRun, IInv, OwnRow, AlertsOnNil, NilErrorMeansRecorded
<1>6. QED
  BY <1>3, <1>4, <1>5

\* The run's own completion: a nil error only with the row written.
LEMMA CompleteStep == IInv /\ (CompleteRun \/ CompleteRunFails) => IInv'
<1> SUFFICES ASSUME IInv, CompleteRun \/ CompleteRunFails PROVE IInv'
  OBVIOUS
<1> USE DEF IInv, TypeOK
<1>1. CASE CompleteRun
  <2>1. PICK err, storage, upstream \in BOOLEAN :
          LET outcome == RunOutcome(err \/ cur.id = 0, storage, upstream)
          IN  /\ cur' = [cur EXCEPT !.pc = "notify", !.outcome = outcome,
                                    !.failed = Failed(outcome, TRUE)]
              /\ rows' = IF cur.id = 0 THEN rows ELSE SetStatus(cur.id, outcome)
    BY <1>1 DEF CompleteRun
  <2> DEFINE outcome == RunOutcome(err \/ cur.id = 0, storage, upstream)
  <2>2. outcome \in Statuses \ {"running"}
    BY OutcomeType
  <2>3. cur.id = 0 => outcome = "failure"
    BY DEF RunOutcome
  <2> HIDE DEF outcome
  <2>4. Failed(outcome, TRUE) \in BOOLEAN /\ (outcome = "failure" => Failed(outcome, TRUE))
    BY DEF Failed
  <2>5. /\ cur' \in Run /\ cur'.id = cur.id /\ cur'.pc = "notify"
        /\ cur'.outcome = outcome /\ cur'.failed = Failed(outcome, TRUE)
    BY <2>1, <2>2, <2>4 DEF Run, Phases, outcome
  <2>6. CASE cur.id = 0
    <3>1. rows' = rows
      BY <2>1, <2>6
    <3>2. TypeOK'
      BY <1>1, <2>5, <3>1 DEF CompleteRun
    <3>3. QED
      BY <2>3, <2>4, <2>5, <2>6, <3>2 DEF OwnRow, AlertsOnNil, NilErrorMeansRecorded
  <2>7. CASE cur.id # 0
    <3>1. cur.id \in 1..Len(rows) /\ outcome \in Statuses
      BY <2>2, <2>7
    <3>2. rows' = SetStatus(cur.id, outcome)
      BY <2>1, <2>7 DEF outcome
    <3>3. /\ rows' \in Seq(Row) /\ Len(rows') = Len(rows)
          /\ rows'[cur.id] = [rows[cur.id] EXCEPT !.status = outcome]
      BY <3>1, <3>2, StatusUpdate
    <3>4. rows[cur.id] \in Row
      BY <3>1
    <3>5. rows'[cur.id].status = outcome /\ rows'[cur.id].by = "scheduler"
      BY <2>7, <3>3, <3>4 DEF OwnRow, Row
    <3>6. TypeOK'
      BY <1>1, <2>5, <3>1, <3>3 DEF CompleteRun
    <3>7. QED
      BY <2>4, <2>5, <2>7, <3>5, <3>6 DEF OwnRow, AlertsOnNil, NilErrorMeansRecorded
  <2>8. QED
    BY <2>6, <2>7
<1>2. CASE CompleteRunFails
  <2>1. PICK err, storage, upstream \in BOOLEAN :
          LET outcome == RunOutcome(err, storage, upstream)
          IN  /\ cur' = [cur EXCEPT !.pc = "notify", !.outcome = outcome,
                                    !.failed = Failed(outcome, FALSE)]
              /\ rows' \in {rows, SetStatus(cur.id, outcome)}
    BY <1>2 DEF CompleteRunFails
  <2> DEFINE outcome == RunOutcome(err, storage, upstream)
  <2>2. outcome \in Statuses \ {"running"}
    BY OutcomeType
  <2> HIDE DEF outcome
  <2>3. Failed(outcome, FALSE) = TRUE
    BY DEF Failed
  <2>4. /\ cur' \in Run /\ cur'.id = cur.id /\ cur'.pc = "notify" /\ cur'.failed
    BY <2>1, <2>2, <2>3 DEF Run, Phases, outcome
  <2>5. /\ cur.id # 0 /\ CountFault /\ flawed' = flawed \cup {cur.id}
        /\ UNCHANGED <<clock, begun, enabled, delivered, handled>>
    BY <1>2 DEF CompleteRunFails
  <2>6. cur.id \in 1..Len(rows) /\ outcome \in Statuses
    BY <2>2, <2>5
  <2>7. /\ SetStatus(cur.id, outcome) \in Seq(Row)
        /\ Len(SetStatus(cur.id, outcome)) = Len(rows)
        /\ SetStatus(cur.id, outcome)[cur.id] = [rows[cur.id] EXCEPT !.status = outcome]
    BY <2>6, StatusUpdate
  <2>8. rows[cur.id] \in Row /\ rows[cur.id].by = "scheduler"
    BY <2>5, <2>6 DEF OwnRow
  <2>9. rows' = rows \/ rows' = SetStatus(cur.id, outcome)
    BY <2>1 DEF outcome
  <2>10. rows' \in Seq(Row) /\ Len(rows') = Len(rows)
    BY <2>7, <2>9
  <2>11. rows'[cur.id].by = "scheduler"
    BY <2>7, <2>8, <2>9 DEF Row
  <2>12. faults' \in 0..MaxFaults /\ flawed' \subseteq Nat
    <3>1. TypeOK
      OBVIOUS
    <3>2. faults' \in 0..MaxFaults
      BY <2>5, <3>1, CountFaultType
    <3>3. cur.id \in Nat
      BY <3>1 DEF Run
    <3>4. QED
      BY <2>5, <3>2, <3>3
  <2>13. TypeOK'
    BY <2>4, <2>5, <2>6, <2>10, <2>12
  <2>14. QED
    BY <2>4, <2>11, <2>13 DEF OwnRow, AlertsOnNil, NilErrorMeansRecorded
<1>3. QED
  BY <1>1, <1>2

LEMMA NotifyStep ==
  IInv /\ (NotifyFailure \/ NotifyNothing \/ NotifyDegraded \/ LookupFails) => IInv'
<1> SUFFICES ASSUME IInv,
                    NotifyFailure \/ NotifyNothing \/ NotifyDegraded \/ LookupFails
             PROVE  IInv'
  OBVIOUS
<1>1. TypeOK
  BY DEF IInv
<1>2. cur.id \in Nat
  BY <1>1 DEF TypeOK, Run
<1>3. CASE NotifyFailure
  BY <1>1, <1>3, EndStep DEF NotifyFailure, TypeOK
<1>4. CASE NotifyNothing
  <2>1. flawed' \subseteq Nat
    <3>1. flawed' = flawed \/ flawed' = flawed \cup {cur.id}
      BY <1>4 DEF NotifyNothing
    <3>2. QED
      BY <1>1, <1>2, <3>1 DEF TypeOK
  <2>2. QED
    BY <1>1, <1>4, <2>1, EndStep DEF NotifyNothing, TypeOK
<1>5. CASE NotifyDegraded
  <2>1. PICK prev \in 0..Len(rows) :
          cur' = IF Carries(prev)
                 THEN [cur EXCEPT !.pc = "carry", !.prevAlert = rows[prev].alertAt]
                 ELSE [cur EXCEPT !.pc = "send"]
    BY <1>5 DEF NotifyDegraded
  <2>2. Carries(prev) => rows[prev].alertAt \in Nat
    <3>1. prev # 0 => rows[prev] \in Row
      BY <1>1, ElementOfSeq DEF TypeOK
    <3>2. QED
      BY <3>1 DEF Carries, Row
  <2>3. cur \in Run
    BY <1>1 DEF TypeOK
  <2>4. /\ cur' \in Run /\ cur'.id = cur.id
        /\ cur'.outcome = cur.outcome /\ cur'.failed = cur.failed
    BY <2>1, <2>2, <2>3 DEF Run, Phases
  <2>5. QED
    BY <1>1, <1>5, <2>4, MoveStep DEF NotifyDegraded, TypeOK
<1>6. CASE LookupFails
  <2>1. flawed' \subseteq Nat /\ faults' \in 0..MaxFaults
    BY <1>1, <1>2, <1>6, CountFaultType DEF LookupFails, TypeOK
  <2>2. /\ cur' \in Run /\ cur'.id = cur.id
        /\ cur'.outcome = cur.outcome /\ cur'.failed = cur.failed
    BY <1>1, <1>6 DEF LookupFails, TypeOK, Run, Phases
  <2>3. QED
    BY <1>1, <1>6, <2>1, <2>2, MoveStep DEF LookupFails, TypeOK
<1>7. QED
  BY <1>3, <1>4, <1>5, <1>6

LEMMA SendStep == IInv /\ (SendAlert \/ SendAlertFails) => IInv'
<1> SUFFICES ASSUME IInv, SendAlert \/ SendAlertFails PROVE IInv'
  OBVIOUS
<1>1. TypeOK
  BY DEF IInv
<1>2. cur.id \in Nat
  BY <1>1 DEF TypeOK, Run
<1>3. CASE SendAlert
  <2>1. ~cur.failed
    BY <1>3 DEF IInv, AlertsOnNil, SendAlert
  <2>2. /\ cur' \in Run /\ cur'.id = cur.id
        /\ cur'.outcome = cur.outcome /\ cur'.failed = cur.failed
    BY <1>1, <1>3 DEF SendAlert, TypeOK, Run, Phases
  <2>3. delivered' \in Seq(Alert)
    BY <1>1, <1>3, DeliverType DEF SendAlert
  <2>4. QED
    BY <1>1, <1>3, <2>1, <2>2, <2>3, MoveStep DEF SendAlert, TypeOK
<1>4. CASE SendAlertFails
  <2>1. delivered' \in Seq(Alert)
    BY <1>1, <1>4, DeliverType DEF SendAlertFails, TypeOK
  <2>2. faults' \in 0..MaxFaults
    BY <1>1, <1>4, CountFaultType DEF SendAlertFails
  <2>3. flawed' \subseteq Nat
    BY <1>1, <1>2, <1>4 DEF SendAlertFails, TypeOK
  <2>4. QED
    BY <1>1, <1>4, <2>1, <2>2, <2>3, EndStep DEF SendAlertFails, TypeOK
<1>5. QED
  BY <1>3, <1>4

LEMMA MarkStep == IInv /\ (MarkAlerted \/ MarkAlertedFails) => IInv'
<1> SUFFICES ASSUME IInv, MarkAlerted \/ MarkAlertedFails PROVE IInv'
  OBVIOUS
<1>1. TypeOK /\ rows \in Seq(Row)
  BY DEF IInv, TypeOK
<1>2. cur.id \in 1..Len(rows) /\ cur.id \in Nat /\ Stamp \in Nat
  BY <1>1, AlertHasRow, StampType DEF MarkAlerted, MarkAlertedFails
<1>3. [rows EXCEPT ![cur.id].alertAt = Stamp] \in Seq(Row)
  BY <1>1, <1>2, AlertUpdate
<1>4. rows' \in Seq(Row) /\ handled' \subseteq Nat
  BY <1>1, <1>2, <1>3 DEF MarkAlerted, MarkAlertedFails, TypeOK
<1>5. flawed' \subseteq Nat /\ faults' \in 0..MaxFaults
  BY <1>1, <1>2, CountFaultType DEF MarkAlerted, MarkAlertedFails, TypeOK
<1>6. QED
  BY <1>1, <1>4, <1>5, EndStep DEF MarkAlerted, MarkAlertedFails, TypeOK

LEMMA RestartStep == IInv /\ Restart => IInv'
<1> SUFFICES ASSUME IInv, Restart PROVE IInv'
  OBVIOUS
<1>1. TypeOK /\ cur.id \in Nat
  BY DEF IInv, TypeOK, Run
<1>2. flawed' \subseteq Nat /\ faults' \in 0..MaxFaults
  BY <1>1, CountFaultType DEF Restart, TypeOK
<1>3. QED
  BY <1>1, <1>2, EndStep DEF Restart, TypeOK

\* The runs the command has begun have a country and a start.
LEMMA BegunType ==
  ASSUME TypeOK, NEW b \in begun
  PROVE  b.country \in Countries /\ b.started \in Nat
BY DEF TypeOK

LEMMA CommandStep == IInv /\ (CommandBegins \/ CommandCreates \/ CommandCompletes) => IInv'
<1> SUFFICES ASSUME IInv, CommandBegins \/ CommandCreates \/ CommandCompletes PROVE IInv'
  OBVIOUS
<1>1. TypeOK /\ rows \in Seq(Row) /\ cur.id \in 0..Len(rows)
  BY DEF IInv, TypeOK
<1>2. CASE CommandCreates
  <2>1. PICK b \in begun : NewRow(b.country, b.started, "command") /\ begun' = begun \ {b}
    BY <1>2 DEF CommandCreates
  <2>2. /\ rows' \in Seq(Row) /\ Len(rows') = Len(rows) + 1
        /\ \A j \in 1..Len(rows) : rows'[j] = rows[j]
    BY <1>1, <2>1, BegunType, NewRowIsRow
  <2>3. Len(rows') >= Len(rows) /\ (cur.id # 0 => rows'[cur.id] = rows[cur.id])
    BY <1>1, <2>2
  <2>4. clock' \in Nat /\ begun' \subseteq [country : Countries, started : Nat]
    BY <1>1, <1>2, <2>1 DEF CommandCreates, TypeOK
  <2>5. QED
    BY <1>2, <2>2, <2>3, <2>4, OtherRowStep DEF CommandCreates
<1>3. CASE CommandCompletes
  <2>1. PICK i \in 1..Len(rows) :
          /\ rows[i].by = "command" /\ rows[i].status = "running"
          /\ \E err, storage, upstream \in BOOLEAN :
               rows' = SetStatus(i, RunOutcome(err, storage, upstream))
    BY <1>3 DEF CommandCompletes
  <2>2. PICK status \in Statuses : rows' = SetStatus(i, status)
    BY <2>1, OutcomeType
  <2>3. /\ rows' \in Seq(Row) /\ Len(rows') = Len(rows)
        /\ \A j \in 1..Len(rows) : j # i => rows'[j] = rows[j]
    <3>1. /\ SetStatus(i, status) \in Seq(Row) /\ Len(SetStatus(i, status)) = Len(rows)
          /\ \A j \in 1..Len(rows) : j # i => SetStatus(i, status)[j] = rows[j]
      BY <1>1, StatusUpdate
    <3>2. QED
      BY <2>2, <3>1
  <2>4. cur.id # i
    BY <2>1 DEF IInv, OwnRow
  <2>5. Len(rows') >= Len(rows) /\ (cur.id # 0 => rows'[cur.id] = rows[cur.id])
    BY <1>1, <2>3, <2>4
  <2>6. clock' \in Nat /\ begun' \subseteq [country : Countries, started : Nat]
    BY <1>1, <1>3 DEF CommandCompletes, TypeOK
  <2>7. QED
    BY <1>3, <2>3, <2>5, <2>6, OtherRowStep DEF CommandCompletes
<1>4. CASE CommandBegins
  <2>1. PICK c \in Countries : begun' = begun \cup {[country |-> c, started |-> clock']}
    BY <1>4 DEF CommandBegins
  <2>2. clock' \in Nat
    BY <1>1, <1>4 DEF CommandBegins, ReadClock, TypeOK
  <2>3. begun' \subseteq [country : Countries, started : Nat]
    BY <1>1, <2>1, <2>2 DEF TypeOK
  <2>4. rows' = rows /\ Len(rows') >= Len(rows)
    BY <1>1, <1>4, LenProperties DEF CommandBegins
  <2>5. QED
    BY <1>1, <1>4, <2>2, <2>3, <2>4, OtherRowStep DEF CommandBegins
<1>5. QED
  BY <1>2, <1>3, <1>4

LEMMA Inductive == Spec => []IInv
<1>1. Init => IInv
  <2> SUFFICES ASSUME Init PROVE IInv
    OBVIOUS
  <2>1. cur \in Run /\ cur.id = 0 /\ cur.pc = "idle"
    BY IdleType DEF Init
  <2>2. rows \in Seq(Row) /\ delivered \in Seq(Alert) /\ faults \in 0..MaxFaults
    BY DEF Init
  <2>3. cur.id \in 0..Len(rows)
    BY <2>1, <2>2, LenProperties
  <2>4. TypeOK
    BY <2>1, <2>2, <2>3 DEF Init, TypeOK
  <2>5. QED
    BY <2>1, <2>4 DEF IInv, OwnRow, AlertsOnNil, NilErrorMeansRecorded
<1>2. IInv /\ UNCHANGED vars => IInv'
  BY DEF vars, IInv, TypeOK, OwnRow, AlertsOnNil, NilErrorMeansRecorded
<1>3. IInv /\ [Next]_vars => IInv'
  BY <1>2, StartStep, CompleteStep, NotifyStep, SendStep, MarkStep, RestartStep,
     CommandStep DEF Next
<1>4. QED
  BY <1>1, <1>3, PTL DEF Spec

\* Type correctness of the runs table and of the scheduled run.
THEOREM TypeCorrect == Spec => []TypeOK
<1>1. IInv => TypeOK
  BY DEF IInv
<1>2. QED
  BY <1>1, Inductive, PTL

\* Whenever the scheduler takes a run for done without a failure alert, the
\* run's row exists and records its outcome (IngestWithBudget).
THEOREM NilErrorRecorded == Spec => []NilErrorMeansRecorded
<1>1. IInv => NilErrorMeansRecorded
  BY DEF IInv
<1>2. QED
  BY <1>1, Inductive, PTL

(***************************************************************************)
(* What /health sees.                                                      *)
(***************************************************************************)

\* The row of a run in progress is in progress.
RunningRow == cur.pc = "running" /\ cur.id # 0 => rows[cur.id].status = "running"

\* The ids /health chooses c's last run from.
Completed(c) == CompletedBefore(c, Len(rows) + 1)

\* k began last of those in S.
IsNewest(k, S) == k \in S /\ \A j \in S : rows[j].started <= rows[k].started

\* A step after which the same rows are completed, with the same outcomes.
SameOutcomes ==
  /\ rows' \in Seq(Row)
  /\ \A c \in Countries : Completed(c)' = Completed(c)
  /\ \A i \in 1..Len(rows) :
       /\ rows[i].status # "running" => rows'[i].status = rows[i].status
       /\ rows'[i].started = rows[i].started
  /\ Len(rows') >= Len(rows)

LEMMA CompletedIs ==
  ASSUME rows \in Seq(Row), NEW c
  PROVE  Completed(c) =
           {i \in 1..Len(rows) : rows[i].country = c /\ rows[i].status # "running"}
BY LenProperties DEF Completed, CompletedBefore

LEMMA SameOutcomesKeep ==
  ASSUME rows \in Seq(Row), SameOutcomes, NEW c \in Countries, Failing(c)
  PROVE  Failing(c)'
<1>1. PICK k \in 1..Len(rows) :
        IsNewest(k, Completed(c)) /\ rows[k].status \in {"failure", "degraded"}
  BY DEF Failing, Reports, IsLastRun, IsNewest, Completed
<1>2. /\ Completed(c)' = Completed(c) /\ rows'[k].status = rows[k].status
      /\ Completed(c) \subseteq 1..Len(rows)
  BY <1>1, CompletedIs DEF SameOutcomes, IsNewest
<1>3. k \in 1..Len(rows')
  BY LenProperties DEF SameOutcomes
<1>4. IsNewest(k, Completed(c))'
  BY <1>1, <1>2 DEF IsNewest, SameOutcomes
<1>5. QED
  BY <1>1, <1>2, <1>3, <1>4 DEF Failing, Reports, IsLastRun, IsNewest, Completed

\* Completing row i can hide a country's failure only as its newest success.
LEMMA CompletionHides ==
  ASSUME rows \in Seq(Row), NEW i \in 1..Len(rows), rows[i].status = "running",
         NEW status \in Statuses \ {"running"}, rows' = SetStatus(i, status),
         NEW c \in Countries, Failing(c), ~Failing(c)'
  PROVE  /\ rows[i].country = c /\ rows'[i].status = "success"
         /\ \A j \in Completed(c) : rows[j].started < rows[i].started
<1>1. /\ rows' \in Seq(Row) /\ Len(rows') = Len(rows)
      /\ rows'[i] = [rows[i] EXCEPT !.status = status]
      /\ \A j \in 1..Len(rows) : j # i => rows'[j] = rows[j]
  BY StatusUpdate
<1>2. /\ rows'[i].status = status /\ rows'[i].country = rows[i].country
      /\ \A j \in 1..Len(rows) :
           rows'[j].started = rows[j].started /\ rows[j].started \in Nat
  <2>1. \A j \in 1..Len(rows) : rows[j] \in Row
    BY ElementOfSeq
  <2>2. QED
    BY <1>1, <2>1, ZenonT(60) DEF Row
<1>3. PICK k \in 1..Len(rows) :
        IsNewest(k, Completed(c)) /\ rows[k].status \in {"failure", "degraded"}
  BY DEF Failing, Reports, IsLastRun, IsNewest, Completed
<1>4. /\ k \in Completed(c) /\ Completed(c) \subseteq 1..Len(rows)
      /\ \A j \in Completed(c) : rows[j].started <= rows[k].started
  BY <1>3, CompletedIs DEF IsNewest
<1>5. Completed(c)' = {j \in 1..Len(rows') : rows'[j].country = c /\ rows'[j].status # "running"}
  BY <1>1, LenProperties DEF Completed, CompletedBefore
<1>6. Completed(c)' = IF rows[i].country = c THEN Completed(c) \cup {i} ELSE Completed(c)
  <2>1. Completed(c) = {j \in 1..Len(rows) : rows[j].country = c /\ rows[j].status # "running"}
    BY CompletedIs
  <2>2. Completed(c)' = {j \in 1..Len(rows) : rows'[j].country = c /\ rows'[j].status # "running"}
    BY <1>1, <1>5
  <2>3. \A j \in 1..Len(rows) : j # i =>
          (j \in Completed(c)' <=> j \in Completed(c))
    BY <1>1, <2>1, <2>2
  <2>4. i \in Completed(c)' <=> rows[i].country = c
    BY <1>2, <2>2
  <2>5. i \notin Completed(c)
    BY <2>1
  <2>6. Completed(c) \subseteq 1..Len(rows) /\ Completed(c)' \subseteq 1..Len(rows)
    BY <2>1, <2>2
  <2>7. CASE rows[i].country = c
    BY <2>3, <2>4, <2>6, <2>7, Zenon
  <2>8. CASE rows[i].country # c
    <3>1. \A j \in 1..Len(rows) : j \in Completed(c)' <=> j \in Completed(c)
      BY <2>3, <2>4, <2>5, <2>8, Zenon
    <3>2. Completed(c)' = Completed(c)
      BY <2>6, <3>1, Zenon
    <3>3. QED
      BY <2>8, <3>2, Zenon
  <2>9. QED
    BY <2>7, <2>8
<1>7. \A j \in 1..Len(rows) :
        ~(IsNewest(j, Completed(c))' /\ rows'[j].status \in {"failure", "degraded"})
  BY <1>1 DEF Failing, Reports, IsLastRun, IsNewest, Completed
<1>8. i # k /\ rows'[k].status = rows[k].status
  BY <1>1, <1>3
<1>9. rows[i].country = c /\ rows[k].started < rows[i].started
  <2>1. SUFFICES ASSUME ~(rows[i].country = c /\ rows[k].started < rows[i].started)
                 PROVE  FALSE
    OBVIOUS
  <2>2. ASSUME NEW j \in Completed(c)'
        PROVE  rows'[j].started <= rows'[k].started
    <3>1. CASE j \in Completed(c)
      BY <1>2, <1>4, <3>1
    <3>2. CASE j \notin Completed(c)
      <4>1. j = i /\ rows[i].country = c
        BY <1>6, <3>2
      <4>2. QED
        BY <1>2, <2>1, <4>1
    <3>3. QED
      BY <3>1, <3>2
  <2>3. k \in Completed(c)'
    BY <1>4, <1>6
  <2>4. IsNewest(k, Completed(c))'
    BY <2>2, <2>3 DEF IsNewest
  <2>5. QED
    BY <1>3, <1>7, <1>8, <2>4
<1>10. \A j \in Completed(c) : rows[j].started < rows[i].started
  BY <1>2, <1>4, <1>9
<1>11. IsNewest(i, Completed(c))'
  <2>1. i \in Completed(c)' /\ Completed(c)' = Completed(c) \cup {i}
    BY <1>6, <1>9
  <2>2. \A j \in Completed(c)' : rows'[j].started <= rows'[i].started
    BY <1>2, <1>4, <1>10, <2>1
  <2>3. QED
    BY <2>1, <2>2 DEF IsNewest
<1>12. status = "success"
  BY <1>2, <1>7, <1>11 DEF Statuses
<1>13. QED
  BY <1>2, <1>9, <1>10, <1>12

LEMMA RunningRowStep ==
  ASSUME IInv, RunningRow, [Next]_vars
  PROVE  RunningRow'
<1>1. TypeOK /\ rows \in Seq(Row) /\ cur \in Run /\ cur.id \in 0..Len(rows)
  BY DEF IInv, TypeOK
<1>2. CASE cur' \in {Idle(c) : c \in Countries}
  BY <1>2 DEF RunningRow, Idle
<1>3. CASE UNCHANGED <<rows, cur>>
  BY <1>3 DEF RunningRow
<1>4. CASE cur'.pc # "running"
  BY <1>4 DEF RunningRow
<1>5. CASE CreateRun \/ CreateRunFails
  <2>1. CASE CreateRun
    <3>1. cur'.id = Len(rows) + 1
      BY <1>1, <2>1 DEF CreateRun, Started, Run
    <3>2. Len(rows) \in Nat /\ rows'[Len(rows) + 1].status = "running"
      BY <1>1, <2>1 DEF CreateRun, NewRow
    <3>3. QED
      BY <3>1, <3>2 DEF RunningRow
  <2>2. CASE CreateRunFails
    <3>1. cur'.id = 0
      BY <1>1, <2>2 DEF CreateRunFails, Started, Run
    <3>2. QED
      BY <3>1 DEF RunningRow
  <2>3. QED
    BY <1>5, <2>1, <2>2
<1>6. CASE CommandCreates
  <2>1. PICK b \in begun : NewRow(b.country, b.started, "command")
    BY <1>6 DEF CommandCreates
  <2>2. \A j \in 1..Len(rows) : rows'[j] = rows[j]
    BY <1>1, <2>1, BegunType, NewRowIsRow
  <2>3. QED
    BY <1>1, <1>6, <2>2 DEF CommandCreates, RunningRow
<1>7. CASE CommandCompletes
  <2>1. PICK i \in 1..Len(rows) :
          /\ rows[i].by = "command" /\ rows[i].status = "running"
          /\ \E err, storage, upstream \in BOOLEAN :
               rows' = SetStatus(i, RunOutcome(err, storage, upstream))
    BY <1>7 DEF CommandCompletes
  <2>2. PICK status \in Statuses : rows' = SetStatus(i, status)
    BY <2>1, OutcomeType
  <2>3. \A j \in 1..Len(rows) : j # i => rows'[j] = rows[j]
    <3>1. \A j \in 1..Len(rows) : j # i => SetStatus(i, status)[j] = rows[j]
      BY <1>1, StatusUpdate
    <3>2. QED
      BY <2>2, <3>1
  <2>4. cur.id # i
    BY <2>1 DEF IInv, OwnRow
  <2>5. QED
    BY <1>1, <1>7, <2>3, <2>4 DEF CommandCompletes, RunningRow
<1>8. CASE CompleteRun \/ CompleteRunFails
  <2>1. cur'.pc = "notify"
    BY <1>1, <1>8 DEF CompleteRun, CompleteRunFails, Run
  <2>2. QED
    BY <1>4, <2>1
<1>9. CASE BeginRun \/ NotifyDegraded \/ LookupFails \/ SendAlert
  <2>1. cur'.pc \in {"starting", "carry", "send", "mark"}
    BY <1>1, <1>9 DEF BeginRun, NotifyDegraded, LookupFails, SendAlert, Run
  <2>2. QED
    BY <1>4, <2>1
<1>10. CASE \/ NotifyFailure \/ NotifyNothing \/ SendAlertFails
            \/ MarkAlerted \/ MarkAlertedFails \/ Restart
  BY <1>2, <1>10 DEF NotifyFailure, NotifyNothing, SendAlertFails, MarkAlerted,
     MarkAlertedFails, Restart, Done
<1>11. CASE CommandBegins
  BY <1>3, <1>11 DEF CommandBegins
<1>12. QED
  BY <1>3, <1>5, <1>6, <1>7, <1>8, <1>9, <1>10, <1>11 DEF Next, vars

LEMMA NewRowOutcomes ==
  ASSUME rows \in Seq(Row), NEW d \in Countries, NEW started \in Nat,
         NEW who \in {"scheduler", "command"}, NewRow(d, started, who)
  PROVE  SameOutcomes
<1>1. /\ rows' \in Seq(Row) /\ Len(rows') = Len(rows) + 1
      /\ \A j \in 1..Len(rows) : rows'[j] = rows[j]
  BY NewRowIsRow
<1>2. Len(rows) \in Nat /\ rows'[Len(rows) + 1].status = "running"
  BY DEF NewRow
<1>3. ASSUME NEW c \in Countries PROVE Completed(c)' = Completed(c)
  <2>1. Completed(c) = {j \in 1..Len(rows) : rows[j].country = c /\ rows[j].status # "running"}
    BY CompletedIs
  <2>2. Completed(c)' = {j \in 1..Len(rows') : rows'[j].country = c /\ rows'[j].status # "running"}
    BY <1>1, LenProperties DEF Completed, CompletedBefore
  <2>3. QED
    BY <1>1, <1>2, <2>1, <2>2
<1>4. QED
  BY <1>1, <1>2, <1>3 DEF SameOutcomes

LEMMA MarkOutcomes ==
  ASSUME rows \in Seq(Row), NEW i \in 1..Len(rows), NEW time \in Nat,
         rows' = [rows EXCEPT ![i].alertAt = time]
  PROVE  SameOutcomes
<1>1. /\ rows' \in Seq(Row) /\ Len(rows') = Len(rows)
      /\ rows'[i] = [rows[i] EXCEPT !.alertAt = time]
      /\ \A j \in 1..Len(rows) : j # i => rows'[j] = rows[j]
  BY AlertUpdate, SMTT(30)
<1>2. \A j \in 1..Len(rows) :
        /\ rows'[j].status = rows[j].status /\ rows'[j].country = rows[j].country
        /\ rows'[j].started = rows[j].started
  <2>1. rows[i] \in Row
    BY ElementOfSeq
  <2>2. QED
    BY <1>1, <2>1 DEF Row
<1>3. ASSUME NEW c \in Countries PROVE Completed(c)' = Completed(c)
  <2>1. Completed(c) = {j \in 1..Len(rows) : rows[j].country = c /\ rows[j].status # "running"}
    BY CompletedIs
  <2>2. Completed(c)' = {j \in 1..Len(rows') : rows'[j].country = c /\ rows'[j].status # "running"}
    BY <1>1, LenProperties DEF Completed, CompletedBefore
  <2>3. QED
    BY <1>1, <1>2, <2>1, <2>2
<1>4. QED
  BY <1>1, <1>2, <1>3, LenProperties DEF SameOutcomes

\* How a step that hides a country's failure must look.
Hidden(c) ==
  \E i \in DOMAIN rows :
    /\ rows[i].country = c
    /\ \A j \in CompletedBefore(c, Len(rows) + 1) : rows[j].started < rows[i].started
    /\ rows[i].status = "running" /\ rows'[i].status = "success"

\* A step leaves the table alone, leaves the outcomes alone, or completes a row.
LEMMA TableStep ==
  ASSUME IInv, RunningRow, [Next]_vars
  PROVE  \/ rows' = rows
         \/ SameOutcomes
         \/ \E i \in 1..Len(rows), status \in Statuses \ {"running"} :
              rows[i].status = "running" /\ rows' = SetStatus(i, status)
<1>1. TypeOK /\ rows \in Seq(Row) /\ cur.id \in 0..Len(rows) /\ Len(rows) \in Nat
  BY LenProperties DEF IInv, TypeOK
<1>2. CASE CreateRun \/ CreateRunFails
  <2>1. NewRow(cur.country, cur.started, "scheduler") \/ rows' = rows
    BY <1>2 DEF CreateRun, CreateRunFails
  <2>2. cur.country \in Countries /\ cur.started \in Nat
    BY <1>1 DEF TypeOK, Run
  <2>3. QED
    BY <1>1, <2>1, <2>2, NewRowOutcomes
<1>3. CASE CommandCreates
  BY <1>1, <1>3, BegunType, NewRowOutcomes DEF CommandCreates
<1>4. CASE CommandCompletes
  <2>1. PICK i \in 1..Len(rows), err \in BOOLEAN, storage \in BOOLEAN, upstream \in BOOLEAN :
          rows[i].status = "running" /\ rows' = SetStatus(i, RunOutcome(err, storage, upstream))
    BY <1>4 DEF CommandCompletes
  <2>2. QED
    BY <2>1, OutcomeType
<1>5. CASE CompleteRun
  <2>1. PICK err \in BOOLEAN, storage \in BOOLEAN, upstream \in BOOLEAN :
          rows' = IF cur.id = 0 THEN rows
                  ELSE SetStatus(cur.id, RunOutcome(err \/ cur.id = 0, storage, upstream))
    BY <1>5 DEF CompleteRun
  <2>2. CASE cur.id = 0
    BY <2>1, <2>2
  <2>3. CASE cur.id # 0
    <3>1. cur.id \in 1..Len(rows) /\ rows[cur.id].status = "running"
      BY <1>1, <1>5, <2>3 DEF CompleteRun, RunningRow
    <3>2. RunOutcome(err \/ cur.id = 0, storage, upstream) \in Statuses \ {"running"}
      BY OutcomeType
    <3>3. QED
      BY <2>1, <2>3, <3>1, <3>2
  <2>4. QED
    BY <2>2, <2>3
<1>6. CASE CompleteRunFails
  <2>1. PICK err \in BOOLEAN, storage \in BOOLEAN, upstream \in BOOLEAN :
          rows' \in {rows, SetStatus(cur.id, RunOutcome(err, storage, upstream))}
    BY <1>6 DEF CompleteRunFails
  <2>2. cur.id \in 1..Len(rows) /\ rows[cur.id].status = "running"
    BY <1>1, <1>6 DEF CompleteRunFails, RunningRow
  <2>3. RunOutcome(err, storage, upstream) \in Statuses \ {"running"}
    BY OutcomeType
  <2>4. QED
    BY <2>1, <2>2, <2>3
<1>7. CASE MarkAlerted \/ MarkAlertedFails
  <2>1. cur.id \in 1..Len(rows) /\ Stamp \in Nat
    BY <1>1, <1>7, AlertHasRow, StampType DEF MarkAlerted, MarkAlertedFails
  <2>2. rows' = rows \/ rows' = [rows EXCEPT ![cur.id].alertAt = Stamp]
    BY <1>7 DEF MarkAlerted, MarkAlertedFails
  <2>3. QED
    BY <1>1, <2>1, <2>2, MarkOutcomes
<1>8. CASE \/ NotifyFailure \/ NotifyNothing \/ NotifyDegraded \/ LookupFails
           \/ SendAlert \/ SendAlertFails \/ Restart \/ BeginRun \/ CommandBegins
           \/ UNCHANGED vars
  BY <1>8 DEF BeginRun, CommandBegins, NotifyFailure, NotifyNothing, NotifyDegraded, LookupFails,
     SendAlert, SendAlertFails, Restart, vars
<1>9. QED
  BY <1>2, <1>3, <1>4, <1>5, <1>6, <1>7, <1>8 DEF Next

LEMMA HidingStep ==
  ASSUME IInv, RunningRow, [Next]_vars, NEW c \in Countries,
         Failing(c), ~Failing(c)'
  PROVE  rows' = rows \/ Hidden(c)
<1>1. rows \in Seq(Row)
  BY DEF IInv, TypeOK
<1>2. ~SameOutcomes
  BY <1>1, SameOutcomesKeep
<1>3. ASSUME NEW i \in 1..Len(rows), NEW status \in Statuses \ {"running"},
             rows[i].status = "running", rows' = SetStatus(i, status)
      PROVE  Hidden(c)
  <2>1. /\ rows[i].country = c /\ rows'[i].status = "success"
        /\ \A j \in Completed(c) : rows[j].started < rows[i].started
    BY <1>1, <1>3, CompletionHides
  <2>2. i \in DOMAIN rows
    BY <1>1, LenProperties
  <2>3. QED
    BY <1>3, <2>1, <2>2 DEF Hidden, Completed
<1>4. QED
  BY <1>2, <1>3, TableStep

LEMMA RunningRowInductive == Spec => []RunningRow
<1>1. Init => RunningRow
  BY IdleType DEF Init, RunningRow
<1>2. IInv /\ RunningRow /\ [Next]_vars => RunningRow'
  BY RunningRowStep
<1>3. QED
  BY <1>1, <1>2, Inductive, PTL DEF Spec

\* A failed or degraded country stays so on /health until a run of it that began
\* after every completed one succeeds (GetLastIngestionRunAllCountries,
\* CompleteIngestionRun): no start, orphaned row, mark or late completion hides it.
THEOREM FailureVisible == Spec => FailureStaysVisible
<1>1. IInv /\ RunningRow /\ [Next]_vars =>
        [\A c \in Countries :
           Failing(c) /\ ~Failing(c)' =>
             \E i \in DOMAIN rows :
               /\ rows[i].country = c
               /\ \A j \in CompletedBefore(c, Len(rows) + 1) : rows[j].started < rows[i].started
               /\ rows[i].status = "running" /\ rows'[i].status = "success"]_rows
  BY HidingStep DEF Hidden
<1>2. QED
  BY <1>1, Inductive, RunningRowInductive, PTL DEF Spec, FailureStaysVisible

(***************************************************************************)
(* What the alerts say of the streaks.                                     *)
(***************************************************************************)

\* Delivery d was made for country c and for a run of the streak that i is in.
GoodAlert(c, d, i) ==
  /\ d \in 1..Len(delivered) /\ delivered[d].country = c
  /\ delivered[d].run \in 1..i
  /\ Streak(c, delivered[d].run, i)

AlertsGood ==
  \A i \in 1..Len(rows) :
    rows[i].alertAt # 0 =>
      rows[i].by = "scheduler" /\ GoodAlert(rows[i].country, rows[i].alertAt, i)

HandledGood ==
  \A i \in handled :
    /\ i \in 1..Len(rows) /\ rows[i].by = "scheduler"
    /\ \E d \in 1..Len(delivered) : GoodAlert(rows[i].country, d, i)

\* The current run's row is the scheduler's last one, and not yet marked.
CurAlone ==
  cur.id # 0 =>
    /\ rows[cur.id].country = cur.country /\ rows[cur.id].alertAt = 0
    /\ cur.id \notin handled
    /\ \A j \in 1..Len(rows) : rows[j].by = "scheduler" => j <= cur.id

\* What is about to be recorded is true of the streak.
CurAlert ==
  /\ cur.pc \in {"carry", "send", "mark"} => cur.outcome = "degraded"
  /\ cur.pc = "carry" => GoodAlert(cur.country, cur.prevAlert, cur.id)
  /\ cur.pc = "mark" => GoodAlert(cur.country, Len(delivered), cur.id)

StreakInv == AlertsGood /\ HandledGood /\ CurAlone /\ CurAlert

\* A step that may change row n, and else only adds rows and completes the command's.
Kept(n) ==
  /\ rows' \in Seq(Row) /\ Len(rows') >= Len(rows)
  /\ \A j \in 1..Len(rows) :
       /\ rows'[j].country = rows[j].country /\ rows'[j].by = rows[j].by
       /\ j # n => /\ rows'[j].alertAt = rows[j].alertAt
                   /\ rows[j].by = "scheduler" => rows'[j].status = rows[j].status
  /\ \A j \in 1..Len(rows') : j \notin 1..Len(rows) =>
       rows'[j].alertAt = 0 /\ rows'[j].status = "running"

\* Nothing the streaks up to i depend on has changed.
StatusKept(i) ==
  \A j \in 1..Len(rows) : j <= i =>
    /\ rows'[j].country = rows[j].country /\ rows'[j].by = rows[j].by
    /\ rows[j].by = "scheduler" => rows'[j].status = rows[j].status

DeliveredKept ==
  /\ delivered' \in Seq(Alert) /\ Len(delivered') >= Len(delivered)
  /\ \A d \in 1..Len(delivered) : delivered'[d] = delivered[d]

LEMMA StreakSame ==
  ASSUME rows \in Seq(Row), NEW i \in 1..Len(rows), StatusKept(i), NEW k \in 1..i, NEW c
  PROVE  Streak(c, k, i)' <=> Streak(c, k, i)
<1>1. \A j \in k..i : j \in 1..Len(rows) /\ j <= i
  BY LenProperties
<1>2. QED
  BY <1>1 DEF Streak, StatusKept

LEMMA GoodKept ==
  ASSUME rows \in Seq(Row), delivered \in Seq(Alert), DeliveredKept,
         NEW i \in 1..Len(rows), StatusKept(i), NEW c, NEW d, GoodAlert(c, d, i)
  PROVE  GoodAlert(c, d, i)'
<1>1. /\ d \in 1..Len(delivered') /\ delivered'[d] = delivered[d]
  BY LenProperties DEF GoodAlert, DeliveredKept
<1>2. Streak(c, delivered[d].run, i)'
  <2>1. delivered[d].run \in 1..i /\ Streak(c, delivered[d].run, i)
    BY DEF GoodAlert
  <2>2. PICK k \in 1..i : k = delivered[d].run
    BY <2>1
  <2>3. Streak(c, k, i)'
    BY <2>1, <2>2, StreakSame
  <2>4. delivered'[d].run = k
    BY <1>1, <2>2
  <2>5. QED
    BY <2>3, <2>4, <1>1 DEF Streak
<1>3. QED
  BY <1>1, <1>2 DEF GoodAlert, Streak

LEMMA SameRowsKept == ASSUME rows \in Seq(Row), rows' = rows PROVE Kept(0)
BY LenProperties DEF Kept

LEMMA NewRowKept ==
  ASSUME rows \in Seq(Row), NEW c \in Countries, NEW started \in Nat,
         NEW who \in {"scheduler", "command"}, NewRow(c, started, who)
  PROVE  Kept(0)
<1>1. /\ rows' \in Seq(Row) /\ Len(rows') = Len(rows) + 1 /\ Len(rows) \in Nat
      /\ \A j \in 1..Len(rows) : rows'[j] = rows[j]
  BY NewRowIsRow, LenProperties
<1>2. rows'[Len(rows) + 1].alertAt = 0 /\ rows'[Len(rows) + 1].status = "running"
  BY DEF NewRow
<1>3. QED
  BY <1>1, <1>2 DEF Kept

LEMMA StatusChangeKept ==
  ASSUME rows \in Seq(Row), NEW i \in 1..Len(rows), NEW status \in Statuses,
         rows' = SetStatus(i, status), NEW n, n = i \/ rows[i].by = "command"
  PROVE  Kept(n)
<1>1. /\ rows' \in Seq(Row) /\ Len(rows') = Len(rows)
      /\ rows'[i] = [rows[i] EXCEPT !.status = status]
      /\ \A j \in 1..Len(rows) : j # i => rows'[j] = rows[j]
  BY StatusUpdate
<1>2. rows[i] \in Row
  BY ElementOfSeq
<1>3. /\ rows'[i].country = rows[i].country /\ rows'[i].by = rows[i].by
      /\ rows'[i].alertAt = rows[i].alertAt
  BY <1>1, <1>2 DEF Row
<1>4. ASSUME NEW j \in 1..Len(rows)
      PROVE  /\ rows'[j].country = rows[j].country /\ rows'[j].by = rows[j].by
             /\ rows'[j].alertAt = rows[j].alertAt
             /\ j # n /\ rows[j].by = "scheduler" => rows'[j].status = rows[j].status
  <2>1. CASE j = i
    BY <1>3, <2>1
  <2>2. CASE j # i
    BY <1>1, <2>2
  <2>3. QED
    BY <2>1, <2>2
<1>5. QED
  BY <1>1, <1>4, LenProperties DEF Kept

LEMMA MarkKept ==
  ASSUME rows \in Seq(Row), NEW i \in 1..Len(rows), NEW time \in Nat,
         rows' = [rows EXCEPT ![i].alertAt = time]
  PROVE  /\ Kept(i) /\ rows'[i].alertAt = time /\ rows'[i].status = rows[i].status
         /\ Len(rows') = Len(rows)
<1>1. /\ rows' \in Seq(Row) /\ Len(rows') = Len(rows)
      /\ rows'[i] = [rows[i] EXCEPT !.alertAt = time]
      /\ \A j \in 1..Len(rows) : j # i => rows'[j] = rows[j]
  BY AlertUpdate, SMTT(30)
<1>2. rows[i] \in Row
  BY ElementOfSeq
<1>3. /\ rows'[i].country = rows[i].country /\ rows'[i].by = rows[i].by
      /\ rows'[i].status = rows[i].status /\ rows'[i].alertAt = time
  BY <1>1, <1>2 DEF Row
<1>4. QED
  BY <1>1, <1>3 DEF Kept

\* Only a run's completion and a mark change a row of the scheduler: its own.
Completes == CompleteRun \/ CompleteRunFails
Marks == MarkAlerted \/ MarkAlertedFails

LEMMA OthersKeep ==
  ASSUME IInv, [Next]_vars, ~Completes, ~Marks
  PROVE  Kept(0)
<1>1. TypeOK /\ rows \in Seq(Row)
  BY DEF IInv, TypeOK
<1>2. CASE CreateRun \/ CreateRunFails
  <2>1. NewRow(cur.country, cur.started, "scheduler") \/ rows' = rows
    BY <1>2 DEF CreateRun, CreateRunFails
  <2>2. cur.country \in Countries /\ cur.started \in Nat
    BY <1>1 DEF TypeOK, Run
  <2>3. QED
    BY <1>1, <2>1, <2>2, NewRowKept, SameRowsKept
<1>3. CASE CommandCreates
  BY <1>1, <1>3, BegunType, NewRowKept DEF CommandCreates
<1>4. CASE CommandCompletes
  <2>1. PICK i \in 1..Len(rows), err \in BOOLEAN, storage \in BOOLEAN, upstream \in BOOLEAN :
          rows[i].by = "command" /\ rows' = SetStatus(i, RunOutcome(err, storage, upstream))
    BY <1>4 DEF CommandCompletes
  <2>2. RunOutcome(err, storage, upstream) \in Statuses
    BY OutcomeType
  <2>3. QED
    BY <1>1, <2>1, <2>2, StatusChangeKept
<1>5. CASE \/ BeginRun \/ NotifyFailure \/ NotifyNothing \/ NotifyDegraded \/ LookupFails
           \/ SendAlert \/ SendAlertFails \/ Restart \/ CommandBegins \/ UNCHANGED vars
  <2>1. rows' = rows
    BY <1>5 DEF BeginRun, CommandBegins, NotifyFailure, NotifyNothing, NotifyDegraded,
       LookupFails, SendAlert, SendAlertFails, Restart, vars
  <2>2. QED
    BY <1>1, <2>1, SameRowsKept
<1>6. QED
  BY <1>2, <1>3, <1>4, <1>5 DEF Next, Completes, Marks

\* A completion sets the status of the run's row, if it has one.
LEMMA CompletesRow ==
  ASSUME Completes
  PROVE  \/ rows' = rows
         \/ cur.id # 0 /\ \E status \in Statuses : rows' = SetStatus(cur.id, status)
<1>1. CASE CompleteRun
  <2>1. PICK err \in BOOLEAN, storage \in BOOLEAN, upstream \in BOOLEAN :
          rows' = IF cur.id = 0 THEN rows
                  ELSE SetStatus(cur.id, RunOutcome(err \/ cur.id = 0, storage, upstream))
    BY <1>1 DEF CompleteRun
  <2>2. RunOutcome(err \/ cur.id = 0, storage, upstream) \in Statuses
    BY OutcomeType
  <2>3. QED
    BY <2>1, <2>2
<1>2. CASE CompleteRunFails
  <2>1. PICK err \in BOOLEAN, storage \in BOOLEAN, upstream \in BOOLEAN :
          rows' \in {rows, SetStatus(cur.id, RunOutcome(err, storage, upstream))}
    BY <1>2 DEF CompleteRunFails
  <2>2. RunOutcome(err, storage, upstream) \in Statuses /\ cur.id # 0
    BY <1>2, OutcomeType DEF CompleteRunFails
  <2>3. QED
    BY <2>1, <2>2
<1>3. QED
  BY <1>1, <1>2 DEF Completes

LEMMA CompletesKeep ==
  ASSUME IInv, Completes
  PROVE  /\ Kept(cur.id)
         /\ cur.id # 0 => rows'[cur.id].alertAt = rows[cur.id].alertAt
<1>1. rows \in Seq(Row) /\ cur.id \in 0..Len(rows) /\ Len(rows) \in Nat
  BY LenProperties DEF IInv, TypeOK
<1>2. \/ rows' = rows
      \/ cur.id # 0 /\ \E status \in Statuses : rows' = SetStatus(cur.id, status)
  BY CompletesRow
<1>3. CASE rows' = rows
  BY <1>1, <1>3 DEF Kept
<1>4. CASE cur.id # 0 /\ \E status \in Statuses : rows' = SetStatus(cur.id, status)
  <2>1. PICK status \in Statuses : rows' = SetStatus(cur.id, status)
    BY <1>4
  <2>2. cur.id \in 1..Len(rows)
    BY <1>1, <1>4
  <2>3. Kept(cur.id)
    BY <1>1, <2>1, <2>2, StatusChangeKept
  <2>4. rows'[cur.id] = [rows[cur.id] EXCEPT !.status = status] /\ rows[cur.id] \in Row
    BY <1>1, <2>1, <2>2, StatusUpdate, ElementOfSeq
  <2>5. QED
    BY <2>3, <2>4 DEF Row
<1>5. QED
  BY <1>2, <1>3, <1>4

LEMMA DeliveriesKept == ASSUME IInv, [Next]_vars PROVE DeliveredKept
<1>1. TypeOK /\ delivered \in Seq(Alert)
  BY DEF IInv, TypeOK
<1>2. CASE delivered' = delivered
  BY <1>1, <1>2, LenProperties DEF DeliveredKept
<1>3. CASE Deliver
  <2>1. [country |-> cur.country, run |-> cur.id] \in Alert
    BY <1>1 DEF TypeOK, Run, Alert
  <2>2. QED
    BY <1>1, <1>3, <2>1, AppendProperties, LenProperties DEF Deliver, DeliveredKept
<1>4. delivered' = delivered \/ Deliver
  BY DEF Next, vars, BeginRun, CreateRun, CreateRunFails, CompleteRun, CompleteRunFails,
     NotifyFailure, NotifyNothing, NotifyDegraded, LookupFails, SendAlert, SendAlertFails,
     MarkAlerted, MarkAlertedFails, Restart, CommandBegins, CommandCreates, CommandCompletes
<1>5. QED
  BY <1>2, <1>3, <1>4

\* Before it is marked, the current row is not one the streaks rest on.
LEMMA UpToOther ==
  ASSUME rows \in Seq(Row), NEW n, Kept(n), NEW i \in 1..Len(rows),
         n = 0 \/ i < n
  PROVE  StatusKept(i)
BY DEF StatusKept, Kept

LEMMA KeepGood ==
  ASSUME IInv, StreakInv, [Next]_vars, ~Marks
  PROVE  AlertsGood' /\ HandledGood'
<1>1. /\ rows \in Seq(Row) /\ delivered \in Seq(Alert) /\ DeliveredKept
      /\ cur.id \in 0..Len(rows) /\ Len(rows) \in Nat
  BY DeliveriesKept, LenProperties DEF IInv, TypeOK
<1>2. PICK n : /\ Kept(n) /\ n \in {0, cur.id}
               /\ n # 0 => rows'[n].alertAt = 0
  <2>1. CASE Completes
    BY <2>1, CompletesKeep DEF StreakInv, CurAlone
  <2>2. CASE ~Completes
    BY <2>2, OthersKeep
  <2>3. QED
    BY <2>1, <2>2
<1>3. ASSUME NEW i \in 1..Len(rows), rows[i].by = "scheduler", n = 0 \/ i # n
      PROVE  StatusKept(i)
  <2>1. n = 0 \/ i < n
    BY <1>1, <1>2, <1>3 DEF StreakInv, CurAlone
  <2>2. QED
    BY <1>1, <1>2, <2>1, UpToOther
<1>4. handled' = handled
  BY DEF Marks, Next, vars, BeginRun, CreateRun, CreateRunFails, CompleteRun,
     CompleteRunFails, NotifyFailure, NotifyNothing, NotifyDegraded, LookupFails,
     SendAlert, SendAlertFails, Restart, CommandBegins, CommandCreates, CommandCompletes
<1>5. ASSUME NEW i \in 1..Len(rows'), rows'[i].alertAt # 0
      PROVE  rows'[i].by = "scheduler" /\ GoodAlert(rows[i].country, rows[i].alertAt, i)'
  <2>1. i \in 1..Len(rows) /\ i # n
    BY <1>2, <1>5 DEF Kept
  <2>2. /\ rows'[i].by = rows[i].by /\ rows'[i].country = rows[i].country
        /\ rows'[i].alertAt = rows[i].alertAt
    BY <1>2, <2>1 DEF Kept
  <2>3. rows[i].by = "scheduler" /\ GoodAlert(rows[i].country, rows[i].alertAt, i)
    BY <1>5, <2>1, <2>2 DEF StreakInv, AlertsGood
  <2>4. GoodAlert(rows[i].country, rows[i].alertAt, i)
        => \E c, d : c = rows[i].country /\ d = rows[i].alertAt /\ GoodAlert(c, d, i)'
    <3>1. PICK c, d : c = rows[i].country /\ d = rows[i].alertAt
      OBVIOUS
    <3>2. GoodAlert(c, d, i)
      BY <2>3, <3>1
    <3>3. GoodAlert(c, d, i)'
      BY <1>1, <1>3, <2>1, <2>3, <3>2, GoodKept
    <3>4. QED
      BY <3>1, <3>3
  <2>5. QED
    BY <2>2, <2>3, <2>4
<1>6. ASSUME NEW i \in handled
      PROVE  /\ i \in 1..Len(rows') /\ rows'[i].by = "scheduler"
             /\ \E d \in 1..Len(delivered') : GoodAlert(rows[i].country, d, i)'
  <2>1. i \in 1..Len(rows) /\ rows[i].by = "scheduler"
    BY DEF StreakInv, HandledGood
  <2>2. PICK d \in 1..Len(delivered) : GoodAlert(rows[i].country, d, i)
    BY DEF StreakInv, HandledGood
  <2>3. n = 0 \/ i # n
    BY <1>2 DEF StreakInv, CurAlone
  <2>4. PICK c : c = rows[i].country
    OBVIOUS
  <2>5. GoodAlert(c, d, i)'
    BY <1>1, <1>3, <2>1, <2>2, <2>3, <2>4, GoodKept
  <2>6. i \in 1..Len(rows') /\ rows'[i].by = "scheduler" /\ rows'[i].country = c
    BY <1>1, <1>2, <2>1, <2>4, LenProperties DEF Kept
  <2>7. d \in 1..Len(delivered')
    BY <1>1, LenProperties DEF DeliveredKept
  <2>8. QED
    BY <2>5, <2>6, <2>7
<1>7. QED
  BY <1>4, <1>5, <1>6 DEF AlertsGood, HandledGood

\* A mark changes only the alert time of the run's row.
LEMMA MarksKeep ==
  ASSUME IInv, Marks
  PROVE  /\ Kept(cur.id) /\ rows'[cur.id].status = rows[cur.id].status
         /\ Len(rows') = Len(rows)
         /\ rows'[cur.id].alertAt \in {rows[cur.id].alertAt, Stamp}
         /\ MarkAlerted => rows'[cur.id].alertAt = Stamp
<1>1. /\ rows \in Seq(Row) /\ cur.id \in 1..Len(rows) /\ Len(rows) \in Nat /\ Stamp \in Nat
  <2>1. cur.pc \in {"carry", "send", "mark"}
    BY DEF Marks, MarkAlerted, MarkAlertedFails
  <2>2. QED
    BY <2>1, AlertHasRow, StampType, LenProperties DEF IInv, TypeOK
<1>2. CASE rows' = rows /\ ~MarkAlerted
  BY <1>1, <1>2 DEF Kept
<1>3. CASE rows' = [rows EXCEPT ![cur.id].alertAt = Stamp]
  BY <1>1, <1>3, MarkKept
<1>4. QED
  BY <1>2, <1>3 DEF Marks, MarkAlerted, MarkAlertedFails

\* A mark records what is true of the streak.
LEMMA MarkGood ==
  ASSUME IInv, StreakInv, Marks
  PROVE  AlertsGood' /\ HandledGood'
<1>1. /\ rows \in Seq(Row) /\ delivered \in Seq(Alert) /\ delivered' = delivered
      /\ DeliveredKept /\ cur.id \in 1..Len(rows) /\ Len(rows) \in Nat
      /\ handled' = handled \cup {cur.id}
  <2>1. [Next]_vars /\ cur.pc \in {"carry", "send", "mark"}
    BY DEF Marks, MarkAlerted, MarkAlertedFails, Next
  <2>2. QED
    BY <2>1, DeliveriesKept, AlertHasRow, LenProperties
       DEF IInv, TypeOK, Marks, MarkAlerted, MarkAlertedFails
<1>2. GoodAlert(cur.country, Stamp, cur.id) /\ Stamp \in Nat
  BY <1>1, StampType DEF IInv, StreakInv, CurAlert, Stamp, Marks, MarkAlerted, MarkAlertedFails
<1>3. /\ rows[cur.id].country = cur.country /\ rows[cur.id].by = "scheduler"
      /\ rows[cur.id].alertAt = 0
  BY <1>1 DEF IInv, OwnRow, StreakInv, CurAlone
<1>4. /\ Kept(cur.id) /\ rows'[cur.id].status = rows[cur.id].status
      /\ Len(rows') = Len(rows) /\ rows'[cur.id].alertAt \in {0, Stamp}
  BY <1>3, MarksKeep
<1>5. \A i \in 1..Len(rows) : StatusKept(i)
  BY <1>4 DEF StatusKept, Kept
<1>6. ASSUME NEW c, NEW d, NEW i \in 1..Len(rows), GoodAlert(c, d, i)
      PROVE  GoodAlert(c, d, i)'
  BY <1>1, <1>5, <1>6, GoodKept
<1>7. ASSUME NEW i \in 1..Len(rows), rows'[i].alertAt # 0
      PROVE  \E c, d : /\ c = rows'[i].country /\ d = rows'[i].alertAt
                       /\ rows[i].by = "scheduler" /\ GoodAlert(c, d, i)
  <2>1. CASE i = cur.id
    BY <1>2, <1>3, <1>4, <1>7, <2>1 DEF Kept
  <2>2. CASE i # cur.id
    BY <1>4, <1>7, <2>2 DEF Kept, StreakInv, AlertsGood
  <2>3. QED
    BY <2>1, <2>2
<1>8. ASSUME NEW i \in handled'
      PROVE  /\ i \in 1..Len(rows) /\ rows[i].by = "scheduler"
             /\ \E c, d : c = rows'[i].country /\ GoodAlert(c, d, i)
  <2>1. CASE i = cur.id
    BY <1>1, <1>2, <1>3, <1>4, <2>1 DEF Kept
  <2>2. CASE i \in handled
    BY <1>4, <2>2 DEF Kept, StreakInv, HandledGood
  <2>3. QED
    BY <1>1, <2>1, <2>2
<1>9. AlertsGood'
  <2> SUFFICES ASSUME NEW i \in 1..Len(rows'), rows'[i].alertAt # 0
               PROVE  rows'[i].by = "scheduler" /\ GoodAlert(rows[i].country, rows[i].alertAt, i)'
    BY DEF AlertsGood
  <2>1. i \in 1..Len(rows) /\ rows'[i].by = rows[i].by
    BY <1>4 DEF Kept
  <2>2. PICK c, d : /\ c = rows'[i].country /\ d = rows'[i].alertAt
                    /\ rows[i].by = "scheduler" /\ GoodAlert(c, d, i)
    BY <1>7, <2>1
  <2>3. GoodAlert(c, d, i)'
    BY <1>6, <2>1, <2>2
  <2>4. QED
    BY <2>1, <2>2, <2>3
<1>10. HandledGood'
  <2> SUFFICES ASSUME NEW i \in handled'
               PROVE  /\ i \in 1..Len(rows') /\ rows'[i].by = "scheduler"
                      /\ \E d \in 1..Len(delivered') : GoodAlert(rows[i].country, d, i)'
    BY DEF HandledGood
  <2>1. PICK c, d : c = rows'[i].country /\ GoodAlert(c, d, i)
    BY <1>8
  <2>2. i \in 1..Len(rows) /\ rows[i].by = "scheduler"
    BY <1>8
  <2>3. GoodAlert(c, d, i)'
    BY <1>6, <2>1, <2>2
  <2>4. d \in 1..Len(delivered')
    BY <2>3 DEF GoodAlert
  <2>5. i \in 1..Len(rows') /\ rows'[i].by = "scheduler"
    BY <1>4, <2>2 DEF Kept
  <2>6. QED
    BY <2>1, <2>3, <2>4, <2>5
<1>11. QED
  BY <1>9, <1>10

\* The only rows of the scheduler are the ones its runs create.
LEMMA NewRowsOfCommand ==
  ASSUME IInv, [Next]_vars, ~CreateRun, ~CreateRunFails,
         NEW j \in 1..Len(rows'), rows'[j].by = "scheduler"
  PROVE  j \in 1..Len(rows) /\ rows[j].by = "scheduler"
<1>1. TypeOK /\ rows \in Seq(Row) /\ Len(rows) \in Nat
  BY LenProperties DEF IInv, TypeOK
<1>2. CASE CommandCreates
  <2>1. PICK b \in begun : NewRow(b.country, b.started, "command")
    BY <1>2 DEF CommandCreates
  <2>2. /\ Len(rows') = Len(rows) + 1 /\ rows'[Len(rows) + 1].by = "command"
        /\ \A k \in 1..Len(rows) : rows'[k] = rows[k]
    BY <1>1, <2>1, BegunType, NewRowIsRow
  <2>3. QED
    BY <1>1, <2>2
<1>3. CASE Completes
  <2>1. Len(rows') = Len(rows)
    <3>1. rows' = rows \/ \E i \in 1..Len(rows) : \E status : rows' = SetStatus(i, status)
      BY <1>1, <1>3, CompletesRow DEF TypeOK
    <3>2. QED
      BY <1>1, <3>1 DEF SetStatus
  <2>2. QED
    BY <1>1, <1>3, <2>1, CompletesKeep DEF Kept
<1>4. CASE Marks
  <2>1. rows' = rows \/ rows' = [rows EXCEPT ![cur.id].alertAt = Stamp]
    BY <1>4 DEF Marks, MarkAlerted, MarkAlertedFails
  <2>2. cur.id \in 1..Len(rows) /\ Stamp \in Nat
    BY <1>1, <1>4, AlertHasRow, StampType DEF Marks, MarkAlerted, MarkAlertedFails
  <2>3. CASE rows' = [rows EXCEPT ![cur.id].alertAt = Stamp]
    BY <1>1, <2>2, <2>3, MarkKept DEF Kept
  <2>4. QED
    BY <2>1, <2>3
<1>5. CASE ~CommandCreates /\ ~Completes /\ ~Marks
  <2>1. Kept(0) /\ Len(rows') = Len(rows)
    <3>1. rows' = rows \/ \E i \in 1..Len(rows) : \E status : rows' = SetStatus(i, status)
      BY <1>5 DEF Next, vars, Completes, Marks, BeginRun, CommandBegins, NotifyFailure,
         NotifyNothing, NotifyDegraded, LookupFails, SendAlert, SendAlertFails, Restart,
         CommandCompletes
    <3>2. Len(rows') = Len(rows)
      BY <1>1, <3>1 DEF SetStatus
    <3>3. QED
      BY <1>5, <3>2, OthersKeep
  <2>2. QED
    BY <1>1, <2>1 DEF Kept
<1>6. QED
  BY <1>2, <1>3, <1>4, <1>5

\* The current row stays the same, or is left, or is the one just created.
LEMMA CurMoves ==
  ASSUME IInv, [Next]_vars, ~CreateRun, cur'.id # 0
  PROVE  /\ ~CreateRunFails /\ ~Marks /\ ~Done
         /\ cur'.id = cur.id /\ cur'.country = cur.country /\ handled' = handled
         /\ cur.pc = "mark" => cur' = cur
<1>1. cur \in Run
  BY DEF IInv, TypeOK
<1>2. ~CreateRunFails /\ ~Marks /\ ~Done
  BY <1>1, DoneType DEF CreateRunFails, Started, Run, Marks, MarkAlerted, MarkAlertedFails
<1>3. QED
  BY <1>1, <1>2
     DEF Next, vars, Marks, BeginRun, CompleteRun, CompleteRunFails, NotifyFailure,
         NotifyNothing, NotifyDegraded, LookupFails, SendAlert, SendAlertFails, Restart,
         CommandBegins, CommandCreates, CommandCompletes, Run

LEMMA AloneStep ==
  ASSUME IInv, StreakInv, [Next]_vars
  PROVE  CurAlone'
<1>1. /\ TypeOK /\ rows \in Seq(Row) /\ cur \in Run /\ cur.id \in 0..Len(rows)
      /\ Len(rows) \in Nat
  BY LenProperties DEF IInv, TypeOK
<1>2. CASE CreateRun
  <2>1. cur'.id = Len(rows) + 1 /\ cur'.country = cur.country
    BY <1>1, <1>2 DEF CreateRun, Started, Run
  <2>2. /\ Len(rows') = Len(rows) + 1
        /\ rows'[Len(rows) + 1] = [country |-> cur.country, status |-> "running",
               started |-> cur.started, alertAt |-> 0, by |-> "scheduler"]
    BY <1>1, <1>2 DEF CreateRun, NewRow
  <2>3. handled' = handled /\ Len(rows) + 1 \notin handled
    BY <1>1, <1>2 DEF CreateRun, StreakInv, HandledGood
  <2>4. QED
    BY <1>1, <2>1, <2>2, <2>3 DEF CurAlone
<1>3. CASE cur'.id = 0
  BY <1>3 DEF CurAlone
<1>4. CASE ~CreateRun /\ cur'.id # 0
  <2>1. ~CreateRunFails /\ ~Marks
    BY <1>4, CurMoves
  <2>2. cur'.id = cur.id /\ cur'.country = cur.country /\ handled' = handled
    BY <1>4, CurMoves
  <2>3. cur.id \in 1..Len(rows)
    BY <1>1, <1>4, <2>2
  <2>4. \E n : Kept(n) /\ rows'[cur.id].alertAt = rows[cur.id].alertAt
    <3>1. CASE Completes
      BY <1>4, <2>2, <3>1, CompletesKeep
    <3>2. CASE ~Completes
      BY <2>1, <2>3, <3>2, OthersKeep DEF Kept
    <3>3. QED
      BY <3>1, <3>2
  <2>5. rows'[cur.id].country = cur.country /\ rows'[cur.id].alertAt = 0
    BY <2>3, <2>4 DEF Kept, StreakInv, CurAlone
  <2>6. \A j \in 1..Len(rows') : rows'[j].by = "scheduler" => j <= cur.id
    BY <1>4, <2>1, <2>3, NewRowsOfCommand DEF StreakInv, CurAlone
  <2>7. QED
    BY <2>2, <2>3, <2>5, <2>6 DEF StreakInv, CurAlone
<1>5. QED
  BY <1>2, <1>3, <1>4

\* The alert that a previous run's row carries was made in the streak of the current run.
LEMMA CarriedGood ==
  ASSUME IInv, StreakInv, cur.pc = "notify", ~cur.failed, cur.outcome = "degraded",
         NEW prev \in 0..Len(rows), IsPreviousCompleted(prev, cur.country, cur.id),
         Carries(prev)
  PROVE  GoodAlert(cur.country, rows[prev].alertAt, cur.id)
<1>1. /\ cur.id \in 1..Len(rows) /\ rows[cur.id].status = "degraded" /\ Len(rows) \in Nat
  BY LenProperties DEF IInv, TypeOK, NilErrorMeansRecorded
<1>2. /\ prev \in CompletedBefore(cur.country, cur.id)
      /\ \A j \in CompletedBefore(cur.country, cur.id) : j <= prev
      /\ prev # 0 /\ rows[prev].alertAt # 0
  BY DEF IsPreviousCompleted, IsLatest, CompletedBefore, Carries
<1>3. prev \in 1..Len(rows) /\ prev < cur.id /\ rows[prev].country = cur.country
  BY <1>2 DEF CompletedBefore
<1>4. GoodAlert(cur.country, rows[prev].alertAt, prev)
  BY <1>2, <1>3 DEF StreakInv, AlertsGood
<1>5. PICK k : k = delivered[rows[prev].alertAt].run
  OBVIOUS
<1>6. k \in 1..prev /\ Streak(cur.country, k, prev)
  BY <1>4, <1>5 DEF GoodAlert
<1>7. ASSUME NEW j \in k..cur.id, rows[j].country = cur.country, rows[j].by = "scheduler"
      PROVE  rows[j].status \in {"degraded", "running"}
  <2>1. CASE j = cur.id
    BY <1>1, <2>1
  <2>2. CASE j <= prev
    BY <1>6, <1>7, <2>2 DEF Streak
  <2>3. CASE prev < j /\ j < cur.id
    BY <1>1, <1>2, <1>3, <1>7, <2>3 DEF CompletedBefore
  <2>4. QED
    BY <1>1, <1>3, <1>6, <2>1, <2>2, <2>3
<1>8. Streak(cur.country, k, cur.id)
  BY <1>7 DEF Streak
<1>9. QED
  BY <1>1, <1>3, <1>4, <1>5, <1>6, <1>8 DEF GoodAlert

LEMMA CurAlertStep ==
  ASSUME IInv, StreakInv, [Next]_vars
  PROVE  CurAlert'
<1>1. /\ TypeOK /\ rows \in Seq(Row) /\ delivered \in Seq(Alert) /\ DeliveredKept
      /\ cur \in Run /\ cur.id \in 0..Len(rows) /\ Len(rows) \in Nat
  BY DeliveriesKept, LenProperties DEF IInv, TypeOK
<1>2. CASE cur'.pc \notin {"carry", "send", "mark"}
  BY <1>2 DEF CurAlert
<1>3. CASE NotifyDegraded
  <2>1. PICK prev \in 0..Len(rows) :
          /\ IsPreviousCompleted(prev, cur.country, cur.id)
          /\ cur' = IF Carries(prev)
                    THEN [cur EXCEPT !.pc = "carry", !.prevAlert = rows[prev].alertAt]
                    ELSE [cur EXCEPT !.pc = "send"]
    BY <1>3 DEF NotifyDegraded
  <2>2. /\ cur'.outcome = "degraded" /\ cur'.pc # "mark"
        /\ cur'.country = cur.country /\ cur'.id = cur.id
    BY <1>1, <1>3, <2>1 DEF Run, NotifyDegraded
  <2>3. ASSUME cur'.pc = "carry"
        PROVE  GoodAlert(cur.country, cur.prevAlert, cur.id)'
    <3>1. Carries(prev) /\ cur'.prevAlert = rows[prev].alertAt
      BY <1>1, <2>1, <2>3 DEF Run
    <3>2. GoodAlert(cur.country, rows[prev].alertAt, cur.id)
      BY <1>3, <2>1, <3>1, CarriedGood DEF NotifyDegraded
    <3>3. rows' = rows /\ delivered' = delivered
      BY <1>3 DEF NotifyDegraded
    <3>4. QED
      BY <2>2, <3>1, <3>2, <3>3 DEF GoodAlert, Streak
  <2>4. QED
    BY <2>2, <2>3 DEF CurAlert
<1>4. CASE LookupFails
  BY <1>1, <1>4 DEF LookupFails, CurAlert, Run
<1>5. CASE SendAlert
  <2>1. /\ cur' = [cur EXCEPT !.pc = "mark"] /\ rows' = rows /\ cur.pc = "send"
        /\ delivered' = Append(delivered, [country |-> cur.country, run |-> cur.id])
    BY <1>5 DEF SendAlert, Deliver
  <2>2. /\ cur'.pc = "mark" /\ cur'.country = cur.country /\ cur'.id = cur.id
        /\ cur'.outcome = "degraded" /\ cur.outcome = "degraded"
    BY <1>1, <2>1 DEF Run, StreakInv, CurAlert
  <2>3. cur.id \in 1..Len(rows) /\ rows[cur.id].status = "degraded"
    BY <1>1, <2>1, <2>2 DEF IInv, AlertsOnNil, NilErrorMeansRecorded
  <2>4. /\ Len(delivered') \in 1..Len(delivered')
        /\ delivered'[Len(delivered')] = [country |-> cur.country, run |-> cur.id]
    BY <1>1, <2>1
  <2>5. Streak(cur.country, cur.id, cur.id)'
    BY <1>1, <2>1, <2>2, <2>3 DEF Streak
  <2>6. GoodAlert(cur.country, Len(delivered), cur.id)'
    BY <1>1, <2>2, <2>3, <2>4, <2>5 DEF GoodAlert, Streak
  <2>7. QED
    BY <2>2, <2>6 DEF CurAlert
<1>6. CASE CommandBegins \/ CommandCreates \/ CommandCompletes \/ UNCHANGED vars
  <2>1. cur' = cur /\ delivered' = delivered
    BY <1>6 DEF CommandBegins, CommandCreates, CommandCompletes, vars
  <2>2. CASE cur.pc = "carry" \/ cur.pc = "mark"
    <3>1. PICK c, d, i : /\ c = cur.country /\ i = cur.id
                         /\ d = IF cur.pc = "carry" THEN cur.prevAlert ELSE Len(delivered)
      OBVIOUS
    <3>2. GoodAlert(c, d, i) /\ i \in 1..Len(rows)
      BY <2>2, <3>1, AlertHasRow DEF StreakInv, CurAlert
    <3>3. ~Completes /\ ~Marks
      BY <1>1, <2>1, <2>2, DoneType
         DEF Completes, Marks, CompleteRun, CompleteRunFails, MarkAlerted, MarkAlertedFails
    <3>4. StatusKept(i)
      BY <1>1, <3>2, <3>3, OthersKeep, UpToOther
    <3>5. GoodAlert(c, d, i)'
      BY <1>1, <3>2, <3>4, GoodKept
    <3>6. QED
      BY <2>1, <2>2, <3>1, <3>5 DEF CurAlert, StreakInv
  <2>3. CASE cur.pc \notin {"carry", "mark"}
    BY <2>1, <2>3 DEF CurAlert, StreakInv
  <2>4. QED
    BY <2>2, <2>3
<1>7. QED
  <2>1. CASE BeginRun \/ CreateRun \/ CreateRunFails \/ CompleteRun \/ CompleteRunFails
    BY <1>1, <1>2, <2>1 DEF BeginRun, CreateRun, CreateRunFails, CompleteRun,
       CompleteRunFails, Started, Run
  <2>2. CASE Done
    BY <1>2, <2>2, DoneType
  <2>3. QED
    BY <1>3, <1>4, <1>5, <1>6, <2>1, <2>2 DEF Next, NotifyFailure, NotifyNothing,
       SendAlertFails, MarkAlerted, MarkAlertedFails, Restart

LEMMA StreakInductive == Spec => []StreakInv
<1>1. Init => StreakInv
  BY IdleType, EmptySeq DEF Init, StreakInv, AlertsGood, HandledGood, CurAlone, CurAlert
<1>2. IInv /\ StreakInv /\ [Next]_vars => StreakInv'
  BY KeepGood, MarkGood, AloneStep, CurAlertStep DEF StreakInv
<1>3. QED
  BY <1>1, <1>2, Inductive, PTL DEF Spec

\* alert_sent_at is always the time of a delivery to the same country, for this run
\* or an earlier one of the same streak (MarkIngestionRunAlerted), whatever faults,
\* restarts and rows of the command come between.
THEOREM AlertTimes == Spec => []AlertTimesAreDeliveries
<1>1. IInv /\ StreakInv => AlertTimesAreDeliveries
  BY DEF IInv, TypeOK, StreakInv, AlertsGood, GoodAlert, AlertTimesAreDeliveries
<1>2. QED
  BY <1>1, Inductive, StreakInductive, PTL

\* A degraded run is passed over in silence only when an e-mail about the same streak
\* was delivered (notifyIfDegraded, carrying on a recorded delivery).
THEOREM SilenceIsCovered == Spec => []NoSilentStreak
<1>1. IInv /\ StreakInv => NoSilentStreak
  <2> SUFFICES ASSUME IInv, StreakInv, NEW i \in handled
               PROVE  AlertedInStreak(rows[i].country, i)
    BY DEF NoSilentStreak
  <2>1. i \in 1..Len(rows) /\ Len(rows) \in Nat
    BY LenProperties DEF IInv, TypeOK, StreakInv, HandledGood
  <2>2. PICK d \in 1..Len(delivered) : GoodAlert(rows[i].country, d, i)
    BY DEF StreakInv, HandledGood
  <2>3. delivered[d].run <= i
    BY <2>1, <2>2 DEF GoodAlert
  <2>4. QED
    BY <2>2, <2>3 DEF AlertedInStreak, GoodAlert
<1>2. QED
  BY <1>1, Inductive, StreakInductive, PTL

(***************************************************************************)
(* One e-mail per streak.                                                  *)
(***************************************************************************)

\* A fault or a run of the command came between the runs k and i of c.
Excused(c, k, i) ==
  \E j \in k..i : j \in flawed \/ (rows[j].by = "command" /\ rows[j].country = c)

\* A run has no row before it begins; a failed one leaves no degraded row undisturbed.
OwnStatus ==
  /\ cur.pc \in {"idle", "starting"} => cur.id = 0
  /\ cur.pc = "notify" /\ cur.failed /\ cur.id # 0 =>
       cur.id \in flawed \/ rows[cur.id].status # "degraded"

\* A degraded row whose handling is over and was not disturbed is marked.
Marked ==
  \A i \in 1..Len(rows) :
    rows[i].by = "scheduler" /\ rows[i].status = "degraded" /\ i \notin flawed
      /\ i # cur.id => rows[i].alertAt # 0

\* Alerts are sent for degraded runs of the scheduler, one per run, in order.
DeliveredGood ==
  \A d \in 1..Len(delivered) :
    LET r == delivered[d].run
    IN  /\ r \in 1..Len(rows) /\ rows[r].by = "scheduler" /\ rows[r].status = "degraded"
        /\ rows[r].country = delivered[d].country
        /\ r = cur.id => cur.pc = "mark"
        /\ \A e \in 1..Len(delivered) : d < e => r < delivered[e].run

\* What is about to be sent was not yet said of this streak, or with an excuse.
SendGood ==
  cur.pc = "send" =>
    \A d \in 1..Len(delivered) :
      delivered[d].country = cur.country /\ Streak(cur.country, delivered[d].run, cur.id)
        => Excused(cur.country, delivered[d].run, cur.id)

OnceInv == OwnStatus /\ Marked /\ DeliveredGood /\ SendGood /\ AlertedOncePerStreak

\* What any step leaves of the table.
TableKept ==
  /\ rows' \in Seq(Row) /\ Len(rows') >= Len(rows) /\ flawed \subseteq flawed'
  /\ \A j \in 1..Len(rows) :
       /\ rows'[j].country = rows[j].country /\ rows'[j].by = rows[j].by
       /\ rows[j].by = "scheduler" /\ ~(Completes /\ j = cur.id)
            => rows'[j].status = rows[j].status
       /\ ~(Marks /\ j = cur.id) /\ ~(Completes /\ j = cur.id)
            => rows'[j].alertAt = rows[j].alertAt
  /\ \A j \in 1..Len(rows') : j \notin 1..Len(rows) => rows'[j].status = "running"

LEMMA TableKeeps == ASSUME IInv, [Next]_vars PROVE TableKept
<1>1. flawed \subseteq flawed'
  BY DEF Next, vars, BeginRun, CreateRun, CreateRunFails, CompleteRun, CompleteRunFails,
     NotifyFailure, NotifyNothing, NotifyDegraded, LookupFails, SendAlert, SendAlertFails,
     MarkAlerted, MarkAlertedFails, Restart, CommandBegins, CommandCreates, CommandCompletes
<1>2. CASE Completes
  BY <1>1, <1>2, CompletesKeep DEF Kept, TableKept
<1>3. CASE Marks
  BY <1>1, <1>3, MarksKeep DEF Kept, TableKept
<1>4. CASE ~Completes /\ ~Marks
  <2>1. Kept(0) /\ Len(rows) \in Nat
    BY <1>4, OthersKeep, LenProperties DEF IInv, TypeOK
  <2>2. QED
    BY <1>1, <1>4, <2>1 DEF Kept, TableKept
<1>5. QED
  BY <1>2, <1>3, <1>4

LEMMA ExcusedKept ==
  ASSUME TableKept, NEW c, NEW i \in Nat, i <= Len(rows), NEW k \in 1..i,
         Len(rows) \in Nat, Excused(c, k, i)
  PROVE  Excused(c, k, i)'
<1>1. PICK j \in k..i : j \in flawed \/ (rows[j].by = "command" /\ rows[j].country = c)
  BY DEF Excused
<1>2. j \in 1..Len(rows)
  OBVIOUS
<1>3. QED
  BY <1>1, <1>2 DEF Excused, TableKept

\* An alert's run is one a completion does not touch.
LEMMA AlertSettled ==
  ASSUME IInv, StreakInv, OnceInv, Completes, NEW d \in 1..Len(delivered)
  PROVE  cur.id = 0 \/ delivered[d].run < cur.id
<1>1. cur.pc = "running"
  BY DEF Completes, CompleteRun, CompleteRunFails
<1>2. PICK r : r = delivered[d].run
  OBVIOUS
<1>3. r \in 1..Len(rows) /\ rows[r].by = "scheduler" /\ r # cur.id
  BY <1>1, <1>2 DEF OnceInv, DeliveredGood
<1>4. cur.id # 0 => r <= cur.id
  BY <1>3 DEF StreakInv, CurAlone
<1>5. cur.id \in 0..Len(rows) /\ Len(rows) \in Nat
  BY LenProperties DEF IInv, TypeOK
<1>6. QED
  BY <1>2, <1>3, <1>4, <1>5

LEMMA OwnStatusStep ==
  ASSUME IInv, StreakInv, OnceInv, [Next]_vars
  PROVE  OwnStatus'
<1>1. /\ cur \in Run /\ rows \in Seq(Row) /\ Len(rows) \in Nat /\ cur.id \in 0..Len(rows)
  BY LenProperties DEF IInv, TypeOK
<1>2. CASE Done
  BY <1>2, DoneType DEF OwnStatus
<1>3. CASE BeginRun \/ CreateRun \/ CreateRunFails
  BY <1>1, <1>3 DEF OnceInv, OwnStatus, BeginRun, CreateRun, CreateRunFails, Started, Run
<1>4. CASE NotifyDegraded \/ LookupFails \/ SendAlert
  <2>1. cur'.pc \in {"carry", "send", "mark"}
    BY <1>1, <1>4 DEF NotifyDegraded, LookupFails, SendAlert, Run
  <2>2. QED
    BY <2>1 DEF OwnStatus
<1>5. CASE CompleteRun
  <2>1. PICK outcome \in Statuses :
          /\ cur' = [cur EXCEPT !.pc = "notify", !.outcome = outcome,
                                !.failed = Failed(outcome, TRUE)]
          /\ rows' = IF cur.id = 0 THEN rows ELSE SetStatus(cur.id, outcome)
    BY <1>5, OutcomeType DEF CompleteRun
  <2>2. outcome \in Statuses
    OBVIOUS
  <2>3. cur'.pc = "notify" /\ cur'.id = cur.id /\ cur'.failed = Failed(outcome, TRUE)
    BY <1>1, <2>1 DEF Run
  <2>4. cur.id # 0 => rows'[cur.id].status = outcome
    <3> SUFFICES ASSUME cur.id # 0 PROVE rows'[cur.id].status = outcome
      OBVIOUS
    <3>1. cur.id \in 1..Len(rows) /\ rows[cur.id] \in Row
      BY <1>1, ElementOfSeq
    <3>2. SetStatus(cur.id, outcome)[cur.id] = [rows[cur.id] EXCEPT !.status = outcome]
      BY <1>1, <2>2, <3>1, StatusUpdate
    <3>3. rows' = SetStatus(cur.id, outcome)
      BY <2>1
    <3>4. QED
      BY <3>1, <3>2, <3>3 DEF Row
  <2>5. QED
    BY <2>3, <2>4 DEF OwnStatus, Failed
<1>6. CASE CompleteRunFails
  <2>1. cur'.pc = "notify" /\ cur'.id = cur.id /\ cur.id \in flawed'
    BY <1>1, <1>6 DEF CompleteRunFails, Run
  <2>2. QED
    BY <2>1 DEF OwnStatus
<1>7. CASE CommandBegins \/ CommandCreates \/ CommandCompletes \/ UNCHANGED vars
  <2>1. cur' = cur /\ flawed' = flawed
    BY <1>7 DEF CommandBegins, CommandCreates, CommandCompletes, vars
  <2>2. cur.pc = "notify" /\ cur.id # 0 => rows'[cur.id].status = rows[cur.id].status
    <3> SUFFICES ASSUME cur.pc = "notify", cur.id # 0
                 PROVE  rows'[cur.id].status = rows[cur.id].status
      OBVIOUS
    <3>1. ~Completes
      BY DEF Completes, CompleteRun, CompleteRunFails
    <3>2. QED
      BY <1>1, <3>1, TableKeeps DEF TableKept, IInv, OwnRow
  <2>3. QED
    BY <2>1, <2>2 DEF OnceInv, OwnStatus
<1>8. QED
  BY <1>2, <1>3, <1>4, <1>5, <1>6, <1>7 DEF Next, NotifyFailure, NotifyNothing,
     SendAlertFails, MarkAlerted, MarkAlertedFails, Restart

\* A run that is over and whose row is degraded has marked it, or was disturbed.
LEMMA LeftMarked ==
  ASSUME IInv, RunningRow, StreakInv, OnceInv, [Next]_vars,
         cur.id # 0, cur'.id # cur.id, cur.id \notin flawed',
         rows'[cur.id].status = "degraded"
  PROVE  rows'[cur.id].alertAt # 0
<1>1. /\ cur \in Run /\ cur.id \in 1..Len(rows) /\ Len(rows) \in Nat
      /\ rows[cur.id].by = "scheduler"
  BY LenProperties DEF IInv, TypeOK, OwnRow
<1>2. ~Completes /\ ~CreateRun /\ ~CreateRunFails
  BY <1>1 DEF Completes, CompleteRun, CompleteRunFails, CreateRun, CreateRunFails, Run,
     OnceInv, OwnStatus
<1>3. rows[cur.id].status = "degraded" /\ cur.id \notin flawed
  BY <1>1, <1>2, TableKeeps DEF TableKept
<1>4. cur.pc \notin {"idle", "starting", "running"}
  BY <1>3 DEF RunningRow, OnceInv, OwnStatus
<1>5. CASE MarkAlerted
  <2>1. rows'[cur.id].alertAt = Stamp
    BY <1>5, MarksKeep DEF Marks
  <2>2. GoodAlert(cur.country, Stamp, cur.id)
    BY <1>5 DEF StreakInv, CurAlert, Stamp, MarkAlerted
  <2>3. QED
    BY <2>1, <2>2 DEF GoodAlert
<1>6. ~NotifyFailure /\ ~NotifyNothing
  BY <1>1, <1>3 DEF NotifyFailure, NotifyNothing, OnceInv, OwnStatus, IInv,
     NilErrorMeansRecorded
<1>7. ~SendAlertFails /\ ~MarkAlertedFails /\ ~Restart
  BY <1>4 DEF SendAlertFails, MarkAlertedFails, Restart
<1>8. ~(BeginRun \/ NotifyDegraded \/ LookupFails \/ SendAlert \/ CommandBegins
        \/ CommandCreates \/ CommandCompletes \/ UNCHANGED vars)
  BY <1>1 DEF BeginRun, NotifyDegraded, LookupFails, SendAlert, CommandBegins,
     CommandCreates, CommandCompletes, vars, Run
<1>9. QED
  BY <1>2, <1>5, <1>6, <1>7, <1>8 DEF Next, Completes

LEMMA MarkedStep ==
  ASSUME IInv, RunningRow, StreakInv, OnceInv, [Next]_vars
  PROVE  Marked'
<1> SUFFICES ASSUME NEW i \in 1..Len(rows'), rows'[i].by = "scheduler",
                    rows'[i].status = "degraded", i \notin flawed', i # cur'.id
             PROVE  rows'[i].alertAt # 0
  BY DEF Marked
<1>1. TableKept
  BY TableKeeps
<1>2. i \in 1..Len(rows) /\ rows[i].by = "scheduler" /\ i \notin flawed
  BY <1>1 DEF TableKept
<1>3. CASE i = cur.id
  BY <1>2, <1>3, LeftMarked
<1>4. CASE i # cur.id
  BY <1>1, <1>2, <1>4 DEF TableKept, OnceInv, Marked
<1>5. QED
  BY <1>3, <1>4

\* Alerts are sent by SendAlert and by a send that fails after all.
Sends == SendAlert \/ (SendAlertFails /\ Deliver)

LEMMA SendsOrNot ==
  ASSUME IInv, [Next]_vars PROVE delivered' = delivered \/ Sends
BY DEF Sends, Next, vars, BeginRun, CreateRun, CreateRunFails, CompleteRun, CompleteRunFails,
   NotifyFailure, NotifyNothing, NotifyDegraded, LookupFails, SendAlert, SendAlertFails,
   MarkAlerted, MarkAlertedFails, Restart, CommandBegins, CommandCreates, CommandCompletes

LEMMA SentGood ==
  ASSUME IInv, StreakInv, Sends
  PROVE  /\ rows' = rows /\ cur.id \in 1..Len(rows) /\ cur.pc = "send"
         /\ rows[cur.id].by = "scheduler" /\ rows[cur.id].status = "degraded"
         /\ rows[cur.id].country = cur.country
         /\ cur'.id = cur.id => cur'.pc = "mark"
         /\ Len(delivered') = Len(delivered) + 1
         /\ delivered'[Len(delivered) + 1] = [country |-> cur.country, run |-> cur.id]
         /\ \A d \in 1..Len(delivered) : delivered'[d] = delivered[d]
<1>1. /\ delivered \in Seq(Alert) /\ cur \in Run /\ Len(delivered) \in Nat
  BY LenProperties DEF IInv, TypeOK
<1>2. rows' = rows /\ cur.pc = "send" /\ Deliver
  BY DEF Sends, SendAlert, SendAlertFails
<1>3. cur.id \in 1..Len(rows)
  BY <1>2, AlertHasRow
<1>4. /\ rows[cur.id].by = "scheduler" /\ rows[cur.id].status = "degraded"
      /\ rows[cur.id].country = cur.country
  BY <1>2, <1>3 DEF IInv, OwnRow, AlertsOnNil, NilErrorMeansRecorded, StreakInv, CurAlone,
     CurAlert
<1>5. cur'.id = cur.id => cur'.pc = "mark"
  BY <1>1, <1>3, DoneType DEF Sends, SendAlert, SendAlertFails, Run
<1>6. [country |-> cur.country, run |-> cur.id] \in Alert
  BY <1>1 DEF Run, Alert
<1>7. QED
  BY <1>1, <1>2, <1>3, <1>4, <1>5, <1>6, AppendProperties DEF Deliver

LEMMA DeliveredStep ==
  ASSUME IInv, StreakInv, OnceInv, [Next]_vars
  PROVE  DeliveredGood'
<1>1. /\ TableKept /\ Len(rows) \in Nat /\ cur.id \in 0..Len(rows) /\ Len(delivered) \in Nat
      /\ cur \in Run
  BY TableKeeps, LenProperties DEF IInv, TypeOK
<1>2. ASSUME NEW d \in 1..Len(delivered), NEW r, r = delivered[d].run
      PROVE  /\ r \in 1..Len(rows) /\ rows[r].by = "scheduler" /\ r \in 1..Len(rows')
             /\ rows'[r].by = "scheduler" /\ rows'[r].status = "degraded"
             /\ rows'[r].country = delivered[d].country
  <2>1. /\ r \in 1..Len(rows) /\ rows[r].by = "scheduler" /\ rows[r].status = "degraded"
        /\ rows[r].country = delivered[d].country
    BY <1>2 DEF OnceInv, DeliveredGood
  <2>2. ~(Completes /\ r = cur.id)
    BY <1>1, <1>2, <2>1, AlertSettled
  <2>3. QED
    BY <1>1, <2>1, <2>2 DEF TableKept
<1>3. CASE delivered' = delivered
  <2> SUFFICES ASSUME NEW d \in 1..Len(delivered), NEW r, r = delivered[d].run
               PROVE  /\ r \in 1..Len(rows') /\ rows'[r].by = "scheduler"
                      /\ rows'[r].status = "degraded"
                      /\ rows'[r].country = delivered[d].country
                      /\ r = cur'.id => cur'.pc = "mark"
                      /\ \A e \in 1..Len(delivered) : d < e => r < delivered[e].run
    BY <1>3 DEF DeliveredGood
  <2>1. \A e \in 1..Len(delivered) : d < e => r < delivered[e].run
    BY DEF OnceInv, DeliveredGood
  <2>2. ASSUME r = cur'.id PROVE cur'.pc = "mark"
    <3>1. r \in 1..Len(rows)
      BY <1>2
    <3>2. ~CreateRun
      <4>1. CreateRun => cur'.id = Len(rows) + 1
        BY <1>1 DEF CreateRun, Started, Run
      <4>2. QED
        BY <1>1, <2>2, <3>1, <4>1
    <3>3. r = cur.id /\ (cur.pc = "mark" => cur' = cur)
      BY <2>2, <3>1, <3>2, CurMoves
    <3>4. cur.pc = "mark"
      BY <3>3 DEF OnceInv, DeliveredGood
    <3>5. QED
      BY <3>3, <3>4
  <2>3. QED
    BY <1>2, <2>1, <2>2
<1>4. CASE Sends
  <2>1. ASSUME NEW d \in 1..Len(delivered)
        PROVE  delivered[d].run < cur.id
    <3>1. PICK r : r = delivered[d].run
      OBVIOUS
    <3>2. r \in 1..Len(rows) /\ rows[r].by = "scheduler" /\ r # cur.id
      BY <1>4, <3>1, SentGood DEF OnceInv, DeliveredGood
    <3>3. cur.id \in 1..Len(rows) /\ r <= cur.id
      BY <1>4, <3>2, SentGood DEF StreakInv, CurAlone
    <3>4. QED
      BY <1>1, <3>1, <3>2, <3>3
  <2>2. cur'.id \in {0, cur.id}
    BY <1>1, <1>4, DoneType DEF Sends, SendAlert, SendAlertFails, Run
  <2> SUFFICES ASSUME NEW d \in 1..Len(delivered')
               PROVE  /\ delivered'[d].run \in 1..Len(rows)
                      /\ rows[delivered'[d].run].by = "scheduler"
                      /\ rows[delivered'[d].run].status = "degraded"
                      /\ rows[delivered'[d].run].country = delivered'[d].country
                      /\ delivered'[d].run = cur'.id => cur'.pc = "mark"
                      /\ \A e \in 1..Len(delivered') :
                           d < e => delivered'[d].run < delivered'[e].run
    BY <1>4, SentGood DEF DeliveredGood
  <2>3. CASE d \in 1..Len(delivered)
    <3>1. PICK r : r = delivered[d].run /\ r = delivered'[d].run
      BY <1>4, <2>3, SentGood
    <3>2. /\ r \in 1..Len(rows) /\ rows[r].by = "scheduler" /\ rows[r].status = "degraded"
          /\ rows[r].country = delivered'[d].country
      BY <1>4, <2>3, <3>1, SentGood DEF OnceInv, DeliveredGood
    <3>3. r < cur.id
      BY <2>1, <2>3, <3>1
    <3>4. r # cur'.id
      BY <1>1, <2>2, <3>2, <3>3
    <3>5. ASSUME NEW e \in 1..Len(delivered'), d < e PROVE r < delivered'[e].run
      <4>1. CASE e \in 1..Len(delivered)
        BY <1>4, <2>3, <3>1, <3>5, <4>1, SentGood DEF OnceInv, DeliveredGood
      <4>2. CASE e = Len(delivered) + 1
        BY <1>4, <3>3, <4>2, SentGood
      <4>3. QED
        BY <1>1, <1>4, <4>1, <4>2, SentGood
    <3>6. QED
      BY <3>1, <3>2, <3>4, <3>5
  <2>4. CASE d = Len(delivered) + 1
    <3>1. delivered'[d] = [country |-> cur.country, run |-> cur.id]
      BY <1>4, <2>4, SentGood
    <3>2. \A e \in 1..Len(delivered') : ~(d < e)
      BY <1>1, <1>4, <2>4, SentGood
    <3>3. QED
      BY <1>4, <2>2, <3>1, <3>2, SentGood
  <2>5. QED
    BY <1>1, <1>4, <2>3, <2>4, SentGood
<1>5. QED
  BY <1>3, <1>4, SendsOrNot

\* A run that does not carry has not been alerted for, or is excused.
LEMMA NotCarriedExcused ==
  ASSUME IInv, StreakInv, OnceInv, cur.pc = "notify",
         NEW prev \in 0..Len(rows), IsPreviousCompleted(prev, cur.country, cur.id),
         ~Carries(prev), NEW d \in 1..Len(delivered), delivered[d].country = cur.country,
         Streak(cur.country, delivered[d].run, cur.id), cur.id # 0
  PROVE  Excused(cur.country, delivered[d].run, cur.id)
<1>1. /\ cur.id \in 1..Len(rows) /\ Len(rows) \in Nat
  BY LenProperties DEF IInv, TypeOK
<1>2. PICK r : r = delivered[d].run
  OBVIOUS
<1>3. /\ r \in 1..Len(rows) /\ rows[r].by = "scheduler" /\ rows[r].status = "degraded"
      /\ rows[r].country = cur.country /\ r # cur.id
  BY <1>2 DEF OnceInv, DeliveredGood
<1>4. r < cur.id
  BY <1>1, <1>3 DEF StreakInv, CurAlone
<1>5. r \in CompletedBefore(cur.country, cur.id)
  BY <1>3, <1>4 DEF CompletedBefore
<1>6. prev \in CompletedBefore(cur.country, cur.id) /\ r <= prev
  BY <1>5 DEF IsPreviousCompleted, IsLatest
<1>7. /\ prev \in r..cur.id /\ prev \in 1..Len(rows) /\ prev < cur.id
      /\ rows[prev].country = cur.country /\ rows[prev].status # "running"
  BY <1>1, <1>3, <1>6 DEF CompletedBefore
<1>8. CASE rows[prev].by = "command"
  BY <1>2, <1>7, <1>8 DEF Excused
<1>9. CASE rows[prev].by = "scheduler"
  <2>1. rows[prev].status = "degraded"
    BY <1>2, <1>7, <1>9 DEF Streak
  <2>2. rows[prev].alertAt = 0
    BY <1>7, <2>1 DEF Carries
  <2>3. prev # cur.id
    BY <1>1, <1>7
  <2>4. prev \in flawed
    BY <1>7, <1>9, <2>1, <2>2, <2>3 DEF OnceInv, Marked
  <2>5. QED
    BY <1>2, <1>7, <2>4 DEF Excused
<1>10. rows[prev] \in Row
  BY <1>7, ElementOfSeq DEF IInv, TypeOK
<1>11. QED
  BY <1>8, <1>9, <1>10 DEF Row

LEMMA SendGoodStep ==
  ASSUME IInv, StreakInv, OnceInv, [Next]_vars
  PROVE  SendGood'
<1>1. /\ TableKept /\ rows \in Seq(Row) /\ Len(rows) \in Nat /\ cur.id \in 0..Len(rows)
      /\ cur \in Run
  BY TableKeeps, LenProperties DEF IInv, TypeOK
<1>2. CASE cur'.pc # "send"
  BY <1>2 DEF SendGood
<1>3. CASE cur'.pc = "send" /\ NotifyDegraded
  <2>1. PICK prev \in 0..Len(rows) :
          /\ IsPreviousCompleted(prev, cur.country, cur.id)
          /\ cur' = IF Carries(prev)
                    THEN [cur EXCEPT !.pc = "carry", !.prevAlert = rows[prev].alertAt]
                    ELSE [cur EXCEPT !.pc = "send"]
    BY <1>3 DEF NotifyDegraded
  <2>2. ~Carries(prev)
    BY <1>1, <1>3, <2>1 DEF Run
  <2>3. cur'.country = cur.country /\ cur'.id = cur.id
    BY <1>1, <2>1, <2>2 DEF Run
  <2>4. /\ rows' = rows /\ delivered' = delivered /\ flawed' = flawed
        /\ cur.pc = "notify" /\ cur.id # 0
    BY <1>3 DEF NotifyDegraded, IInv, NilErrorMeansRecorded
  <2>5. \A d \in 1..Len(delivered) :
          delivered[d].country = cur.country /\ Streak(cur.country, delivered[d].run, cur.id)
            => Excused(cur.country, delivered[d].run, cur.id)
    BY <2>1, <2>2, <2>4, NotCarriedExcused
  <2>6. QED
    BY <2>3, <2>4, <2>5 DEF SendGood, Streak, Excused
<1>4. CASE LookupFails
  <2>1. /\ rows' = rows /\ delivered' = delivered /\ cur.id \in flawed' /\ cur.pc = "notify"
        /\ cur'.country = cur.country /\ cur'.id = cur.id /\ cur.id # 0
    BY <1>1, <1>4 DEF LookupFails, Run, IInv, NilErrorMeansRecorded
  <2>2. ASSUME NEW d \in 1..Len(delivered) PROVE cur.id \in delivered[d].run..cur.id
    <3>1. PICK r : r = delivered[d].run
      OBVIOUS
    <3>2. r \in 1..Len(rows) /\ rows[r].by = "scheduler"
      BY <3>1 DEF OnceInv, DeliveredGood
    <3>3. r <= cur.id
      BY <2>1, <3>2 DEF StreakInv, CurAlone
    <3>4. QED
      BY <1>1, <3>1, <3>2, <3>3
  <2>3. QED
    BY <2>1, <2>2 DEF SendGood, Excused
<1>5. CASE CommandBegins \/ CommandCreates \/ CommandCompletes \/ UNCHANGED vars
  <2>1. cur' = cur /\ delivered' = delivered
    BY <1>5 DEF CommandBegins, CommandCreates, CommandCompletes, vars
  <2> SUFFICES ASSUME cur.pc = "send", NEW d \in 1..Len(delivered),
                      delivered[d].country = cur.country,
                      Streak(cur.country, delivered[d].run, cur.id)'
               PROVE  Excused(cur.country, delivered[d].run, cur.id)'
    BY <2>1 DEF SendGood
  <2>2. PICK c, k, i : c = cur.country /\ k = delivered[d].run /\ i = cur.id
    OBVIOUS
  <2>3. i \in 1..Len(rows) /\ k \in 1..Len(rows) /\ rows[k].by = "scheduler"
    BY <2>2, AlertHasRow DEF OnceInv, DeliveredGood
  <2>4. k \in 1..i
    BY <1>1, <2>2, <2>3 DEF StreakInv, CurAlone
  <2>5. ~Completes
    BY DEF Completes, CompleteRun, CompleteRunFails
  <2>6. StatusKept(i)
    BY <1>1, <2>3, <2>5 DEF TableKept, StatusKept
  <2>7. Streak(c, k, i)'
    BY <2>1, <2>2 DEF Streak
  <2>8. Streak(c, k, i)
    BY <1>1, <2>3, <2>4, <2>6, <2>7, StreakSame
  <2>9. Excused(c, k, i)
    BY <2>2, <2>8 DEF OnceInv, SendGood
  <2>10. i \in Nat /\ i <= Len(rows)
    BY <1>1, <2>3
  <2>11. Excused(c, k, i)'
    BY <1>1, <2>4, <2>9, <2>10, ExcusedKept
  <2>12. QED
    BY <2>1, <2>2, <2>11 DEF Excused
<1>6. QED
  <2>1. CASE BeginRun \/ CreateRun \/ CreateRunFails \/ CompleteRun \/ CompleteRunFails
             \/ SendAlert
    BY <1>1, <1>2, <2>1 DEF BeginRun, CreateRun, CreateRunFails, CompleteRun,
       CompleteRunFails, SendAlert, Started, Run
  <2>2. CASE Done
    BY <1>2, <2>2, DoneType
  <2>3. QED
    BY <1>2, <1>3, <1>4, <1>5, <2>1, <2>2 DEF Next, NotifyFailure, NotifyNothing,
       SendAlertFails, MarkAlerted, MarkAlertedFails, Restart

LEMMA OnceStep ==
  ASSUME IInv, StreakInv, OnceInv, [Next]_vars
  PROVE  AlertedOncePerStreak'
<1>1. /\ TableKept /\ rows \in Seq(Row) /\ Len(rows) \in Nat /\ cur.id \in 0..Len(rows)
      /\ Len(delivered) \in Nat /\ DeliveredKept
  BY TableKeeps, DeliveriesKept, LenProperties DEF IInv, TypeOK
<1> SUFFICES ASSUME NEW d \in 1..Len(delivered'), NEW e \in 1..Len(delivered'), d < e,
                    NEW c, c = delivered'[d].country, NEW k, k = delivered'[d].run,
                    NEW i, i = delivered'[e].run,
                    delivered'[e].country = c, Streak(c, k, i)'
             PROVE  Excused(c, k, i)'
  BY DEF AlertedOncePerStreak, Streak, Excused
<1>2. CASE e \in 1..Len(delivered)
  <2>1. /\ d \in 1..Len(delivered) /\ c = delivered[d].country /\ k = delivered[d].run
        /\ i = delivered[e].run /\ delivered[e].country = c
    BY <1>1, <1>2 DEF DeliveredKept
  <2>2. k \in 1..Len(rows) /\ i \in 1..Len(rows) /\ k < i
    BY <1>2, <2>1 DEF OnceInv, DeliveredGood
  <2>3. StatusKept(i)
    <3>1. Completes => cur.id = 0 \/ i < cur.id
      BY <1>2, <2>1, AlertSettled
    <3>2. \A j \in 1..Len(rows) : j <= i => ~(Completes /\ j = cur.id)
      BY <1>1, <2>2, <3>1
    <3>3. QED
      BY <1>1, <3>2 DEF TableKept, StatusKept
  <2>4. Streak(c, k, i)
    BY <1>1, <2>2, <2>3, StreakSame
  <2>5. Excused(c, k, i)
    BY <1>2, <2>1, <2>4 DEF OnceInv, AlertedOncePerStreak, Excused
  <2>6. QED
    BY <1>1, <2>2, <2>5, ExcusedKept
<1>3. CASE e \notin 1..Len(delivered)
  <2>1. Sends
    BY <1>3, SendsOrNot
  <2>2. /\ e = Len(delivered) + 1 /\ i = cur.id /\ c = cur.country
        /\ d \in 1..Len(delivered) /\ c = delivered[d].country /\ k = delivered[d].run
        /\ rows' = rows /\ cur.id \in 1..Len(rows) /\ cur.pc = "send"
    BY <1>1, <1>3, <2>1, SentGood, SMTT(30)
  <2>3. k \in 1..Len(rows) /\ rows[k].by = "scheduler"
    BY <2>2 DEF OnceInv, DeliveredGood
  <2>4. k \in 1..i
    BY <1>1, <2>2, <2>3 DEF StreakInv, CurAlone
  <2>5. Streak(c, k, i)
    BY <2>2 DEF Streak
  <2>6. Excused(c, k, i)
    BY <2>2, <2>5 DEF OnceInv, SendGood
  <2>7. QED
    BY <1>1, <2>2, <2>4, <2>6, ExcusedKept
<1>4. QED
  BY <1>2, <1>3

\* One e-mail per degraded streak (notifyIfDegraded): a second one of the same streak
\* has a fault, or a run of the command, between the runs of the two.
THEOREM OncePerStreak == Spec => []AlertedOncePerStreak
<1>1. Init => OnceInv
  BY IdleType DEF Init, OnceInv, OwnStatus, Marked, DeliveredGood, SendGood,
     AlertedOncePerStreak
<1>2. IInv /\ RunningRow /\ StreakInv /\ OnceInv /\ [Next]_vars => OnceInv'
  BY OwnStatusStep, MarkedStep, DeliveredStep, SendGoodStep, OnceStep DEF OnceInv
<1>3. OnceInv => AlertedOncePerStreak
  BY DEF OnceInv
<1>4. QED
  BY <1>1, <1>2, <1>3, Inductive, RunningRowInductive, StreakInductive, PTL DEF Spec
=============================================================================
