--------------------------- MODULE SchedulerLock ---------------------------
(***************************************************************************)
(* The ingestion scheduler of the API replicas and the database lease that *)
(* keeps them from ingesting at the same time (scheduler.go, and           *)
(* Try/ReleaseSchedulerLock in queries.go).                                *)
(*                                                                         *)
(* Time is explicit and relative: Tick moves every timer by one unit, and  *)
(* the lease holds the time left until locked_until <= NOW().  A replica   *)
(* computes locked_until from its own clock, Skew[r] ahead of (or behind)  *)
(* the database's, before the statement is sent.  Nothing bounds a call or *)
(* a run: time passes whatever the replicas do, and a run may outlast the  *)
(* lease it was started under.                                             *)
(***************************************************************************)
EXTENDS Integers

CONSTANTS
  Replicas,   \* API server processes sharing one database
  Holders,    \* lock holder strings, host:pid
  Nobody,     \* no lock row
  TTL,        \* schedulerLockTTL
  Interval,   \* INGEST_INTERVAL_MIN
  Skew,       \* Skew[r]: replica clock minus database clock
  MaxFaults   \* crashes, shutdowns and failed database calls explored

ASSUME TimesAssumption ==
  /\ TTL \in Nat /\ MaxFaults \in Nat
  /\ Interval \in Nat \ {0}
  /\ Skew \in [Replicas -> Int]

ASSUME NobodyAssumption == Nobody \notin Holders

VARIABLES
  lock,       \* the scheduler_locks row: holder and time left
  pc,         \* where the scheduler goroutine of a replica is
  ident,      \* schedulerLockHolder() of the process now running
  lease,      \* time until the locked_until the replica computed; 0 if past
  cancelled,  \* the server context is cancelled (SIGTERM)
  timer,      \* time to the next tick; 0 before NewTicker
  pending,    \* a tick waits in the ticker's channel (capacity one)
  faults

vars == <<lock, pc, ident, lease, cancelled, timer, pending, faults>>

Free == [holder |-> Nobody, left |-> 0]

Busy == {"acquiring", "ingesting"}   \* the phases that hold a locked_until

TypeOK ==
  /\ lock \in [holder : Holders \cup {Nobody}, left : Nat]
  /\ pc \in [Replicas -> {"down", "idle", "releasing"} \cup Busy]
  /\ ident \in [Replicas -> Holders]
  /\ lease \in [Replicas -> Nat]
  /\ cancelled \in [Replicas -> BOOLEAN]
  /\ timer \in [Replicas -> 0..Interval]
  /\ pending \in [Replicas -> BOOLEAN]
  /\ faults \in 0..MaxFaults

Init ==
  /\ lock = Free
  /\ pc = [r \in Replicas |-> "down"]
  /\ ident \in {f \in [Replicas -> Holders] :
                  \A r, s \in Replicas : f[r] = f[s] => r = s}
  /\ lease = [r \in Replicas |-> 0]
  /\ cancelled = [r \in Replicas |-> FALSE]
  /\ timer = [r \in Replicas |-> 0]
  /\ pending = [r \in Replicas |-> FALSE]
  /\ faults = 0

(***************************************************************************)
(* The two statements on the row.                                          *)
(***************************************************************************)
\* Faulty variants: no WHERE on the upsert; a lease given away one unit
\* early; a lease that does not expire; a delete by lock name alone; a
\* release that back-dates the row.
GrantAlways(r) == TRUE
GrantEarly(r) == lock.left <= 1 \/ lock.holder = ident[r]
GrantUnexpired(r) == lock.holder \in {Nobody, ident[r]}
DeleteAny(r) == Free
BackDated(r) == [lock EXCEPT !.left = -1]

Grantable(r) == lock.left = 0 \/ lock.holder = ident[r]

\* A statement that took longer than the lease writes a row already expired.
Granted(r) == [holder |-> ident[r], left |-> lease[r]]

Deleted(r) == IF lock.holder = ident[r] THEN Free ELSE lock

\* The answer to r's statement is lost: the statement ran, or it did not.
LostCall(r) ==
  \/ UNCHANGED lock
  \/ pc[r] = "acquiring" /\ Grantable(r) /\ lock' = Granted(r)
  \/ pc[r] = "releasing" /\ lock' = Deleted(r)

(***************************************************************************)
(* The scheduler goroutine of replica r.                                   *)
(***************************************************************************)

\* r computes locked_until: its clock, read now, plus the TTL.
ReadClock(r) ==
  lease' = [lease EXCEPT ![r] = IF TTL + Skew[r] > 0 THEN TTL + Skew[r] ELSE 0]

\* runAllCountriesWithLock returns; the first time, NewTicker follows.
Return(r) ==
  /\ pc' = [pc EXCEPT ![r] = "idle"]
  /\ lease' = [lease EXCEPT ![r] = 0]
  /\ timer' = [timer EXCEPT ![r] = IF @ = 0 THEN Interval ELSE @]
  /\ UNCHANGED <<ident, cancelled, pending>>

\* A process starts: as a new host:pid, or (a container restarted in place)
\* as the one that died.  It ingests at once, before any tick.
Start(r) ==
  /\ pc[r] = "down"
  /\ \E h \in Holders :
       /\ \A s \in Replicas \ {r} : ident[s] # h
       /\ ident' = [ident EXCEPT ![r] = h]
  /\ pc' = [pc EXCEPT ![r] = "acquiring"]
  /\ ReadClock(r)
  /\ UNCHANGED <<lock, cancelled, timer, pending, faults>>

\* select takes the tick: locked_until is computed and the upsert sent.
TakeTick(r) ==
  /\ pc[r] = "idle" /\ pending[r] /\ ~cancelled[r]
  /\ pc' = [pc EXCEPT ![r] = "acquiring"]
  /\ pending' = [pending EXCEPT ![r] = FALSE]
  /\ ReadClock(r)
  /\ UNCHANGED <<lock, ident, cancelled, timer, faults>>

\* select may still choose the tick after ctx.Done(): the call fails unsent.
TakeTickCancelled(r) ==
  /\ pc[r] = "idle" /\ pending[r] /\ cancelled[r]
  /\ pending' = [pending EXCEPT ![r] = FALSE]
  /\ UNCHANGED <<lock, pc, ident, lease, cancelled, timer, faults>>

Acquire(r) ==
  /\ pc[r] = "acquiring" /\ Grantable(r)
  /\ lock' = Granted(r)
  /\ pc' = [pc EXCEPT ![r] = "ingesting"]
  /\ UNCHANGED <<ident, lease, cancelled, timer, pending, faults>>

AcquireDenied(r) ==
  /\ pc[r] = "acquiring" /\ ~Grantable(r)
  /\ Return(r)
  /\ UNCHANGED <<lock, faults>>

\* runAllCountries returns.  The deferred release uses the same context, so
\* after a shutdown signal it fails unsent and the row stays.
EndRun(r) ==
  /\ pc[r] = "ingesting"
  /\ \/ /\ cancelled[r]
        /\ Return(r)
     \/ /\ ~cancelled[r]
        /\ pc' = [pc EXCEPT ![r] = "releasing"]
        /\ lease' = [lease EXCEPT ![r] = 0]
        /\ UNCHANGED <<ident, cancelled, timer, pending>>
  /\ UNCHANGED <<lock, faults>>

Release(r) ==
  /\ pc[r] = "releasing"
  /\ lock' = Deleted(r)
  /\ Return(r)
  /\ UNCHANGED faults

(***************************************************************************)
(* Faults.  A call in flight when the context is cancelled fails for free; *)
(* every other failed call is one of the MaxFaults.                        *)
(***************************************************************************)
CountFault == faults < MaxFaults /\ faults' = faults + 1

CallFails(r) ==
  /\ pc[r] \in {"acquiring", "releasing"}
  /\ LostCall(r)
  /\ Return(r)
  /\ IF cancelled[r] THEN UNCHANGED faults ELSE CountFault

\* SIGTERM cancels the context every later call of r uses.
Cancel(r) ==
  /\ pc[r] # "down" /\ ~cancelled[r]
  /\ CountFault
  /\ cancelled' = [cancelled EXCEPT ![r] = TRUE]
  /\ UNCHANGED <<lock, pc, ident, lease, timer, pending>>

\* The process ends: a crash, or main returning after SIGTERM without
\* waiting for the scheduler goroutine.
Exit(r) ==
  /\ pc[r] # "down"
  /\ IF cancelled[r] THEN UNCHANGED faults ELSE CountFault
  /\ LostCall(r)
  /\ pc' = [pc EXCEPT ![r] = "down"]
  /\ lease' = [lease EXCEPT ![r] = 0]
  /\ cancelled' = [cancelled EXCEPT ![r] = FALSE]
  /\ timer' = [timer EXCEPT ![r] = 0]
  /\ pending' = [pending EXCEPT ![r] = FALSE]
  /\ UNCHANGED ident

(***************************************************************************)
(* One unit of time, on the row, on every replica's locked_until and on    *)
(* every ticker; a tick that finds one waiting is dropped.                 *)
(***************************************************************************)
Tick ==
  /\ lock' = [lock EXCEPT !.left = IF @ = 0 THEN 0 ELSE @ - 1]
  /\ lease' = [r \in Replicas |-> IF lease[r] = 0 THEN 0 ELSE lease[r] - 1]
  /\ timer' = [r \in Replicas |->
                 CASE timer[r] = 0 -> 0
                   [] timer[r] = 1 -> Interval
                   [] OTHER -> timer[r] - 1]
  /\ pending' = [r \in Replicas |-> pending[r] \/ timer[r] = 1]
  /\ UNCHANGED <<pc, ident, cancelled, faults>>

Step(r) ==
  \/ TakeTick(r) \/ TakeTickCancelled(r)
  \/ Acquire(r) \/ AcquireDenied(r) \/ EndRun(r) \/ Release(r)

Fault(r) == CallFails(r) \/ Cancel(r) \/ Exit(r)

Next == Tick \/ \E r \in Replicas : Start(r) \/ Step(r) \/ Fault(r)

Spec == Init /\ [][Next]_vars

\* Time passes, and a live goroutine takes its next step.  Nothing makes a
\* dead process start again, and no fault has to happen.
FairSpec == Spec /\ WF_vars(Tick) /\ \A r \in Replicas : WF_vars(Step(r))

(***************************************************************************)
(* Properties.                                                             *)
(***************************************************************************)

\* A replica that is ingesting under a lease that has not run out owns the
\* row, and the row has exactly that much time left: no expiry, takeover,
\* lost answer or late release of another process takes it away in between.
LeaseCoversIngestion ==
  \A r \in Replicas :
    pc[r] = "ingesting" /\ lease[r] > 0 =>
      /\ lock.holder = ident[r]
      /\ lock.left = lease[r]

\* Two live replicas never share a holder string (ReleaseSchedulerLock and
\* the re-entrant branch of the upsert tell replicas apart by it alone).
HoldersDistinct ==
  \A r, s \in Replicas : ident[r] = ident[s] => r = s

\* Of two replicas in runAllCountries at once, one has outlasted its lease
\* (nothing stops a run when its lease runs out).
MutualExclusion ==
  \A r, s \in Replicas :
    pc[r] = "ingesting" /\ pc[s] = "ingesting" =>
      r = s \/ lease[r] = 0 \/ lease[s] = 0

\* The scheduler implements a single ingester, as far as its leases last: a
\* run that outlasts its lease has left when the lease runs out.
SI == INSTANCE SingleIngester
        WITH active <- {r \in Replicas : pc[r] = "ingesting" /\ lease[r] > 0}

OneIngester == SI!Spec

\* A live lease changes hands only when its own process gives it up: the
\* delete of a replica whose lease expired and was taken over, or a lost
\* call, never removes or replaces another replica's row.
LeaseNotStolen ==
  [][\/ lock.left = 0
     \/ lock'.holder = lock.holder
     \/ \E r \in Replicas : pc[r] = "releasing" /\ ident[r] = lock.holder]_lock

\* A crash, a shutdown or a lost release never stops ingestion for good: as
\* long as one replica stays up, runs keep starting.
IngestionContinues ==
  \A r \in Replicas :
    <>[](pc[r] # "down" /\ ~cancelled[r]) =>
      []<>(\E s \in Replicas : pc[s] = "ingesting")
=============================================================================
