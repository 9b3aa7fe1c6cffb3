----------------------- MODULE SchedulerLock_proofs -----------------------
(***************************************************************************)
(* Proofs about SchedulerLock for any number of replicas, any clocks, any  *)
(* lease length and runs of any length.                                    *)
(***************************************************************************)
EXTENDS SchedulerLock, TLAPS

USE TimesAssumption

\* The inductive invariant: MutualExclusion alone is not inductive, it needs
\* to know that the row of a replica within its lease is its own.
IInv == TypeOK /\ HoldersDistinct /\ LeaseCoversIngestion

Active(r) == pc[r] = "ingesting" /\ lease[r] > 0

\* The row of a replica within its lease is its own and has time left.
LEMMA LiveLease ==
  ASSUME IInv, NEW r \in Replicas, Active(r)
  PROVE  lock.holder = ident[r] /\ lock.left > 0
BY DEF IInv, TypeOK, LeaseCoversIngestion, Active

\* What a grant writes is a well-formed row.
LEMMA GrantedType ==
  ASSUME TypeOK, NEW r \in Replicas
  PROVE  Granted(r) \in [holder : Holders \cup {Nobody}, left : Nat]
BY DEF TypeOK, Granted

\* The lease computed from a clock is a length of time.
LEMMA ReadClockType ==
  ASSUME TypeOK, NEW r \in Replicas, ReadClock(r)
  PROVE  lease' \in [Replicas -> Nat]
<1>1. (IF TTL + Skew[r] > 0 THEN TTL + Skew[r] ELSE 0) \in Nat
  OBVIOUS
<1>2. QED
  BY <1>1 DEF TypeOK, ReadClock

LEMMA DeletedType ==
  ASSUME TypeOK, NEW r \in Replicas
  PROVE  Deleted(r) \in [holder : Holders \cup {Nobody}, left : Nat]
BY DEF TypeOK, Deleted, Free

LEMMA LostCallType ==
  ASSUME TypeOK, NEW r \in Replicas, LostCall(r)
  PROVE  lock' \in [holder : Holders \cup {Nobody}, left : Nat]
BY GrantedType, DeletedType DEF TypeOK, LostCall

\* No statement of another replica touches the row of one within its lease.
LEMMA LostCallSpares ==
  ASSUME IInv, NEW r \in Replicas, NEW s \in Replicas, s # r,
         Active(r), LostCall(s)
  PROVE  lock' = lock
BY LiveLease DEF IInv, HoldersDistinct, LostCall, Grantable, Deleted

LEMMA TypeStep == TypeOK /\ [Next]_vars => TypeOK'
<1> SUFFICES ASSUME TypeOK, [Next]_vars PROVE TypeOK'
  OBVIOUS
<1>1. CASE UNCHANGED vars
  BY <1>1 DEF TypeOK, vars
<1>2. CASE Tick
  BY <1>2 DEF TypeOK, Tick, Busy
<1>3. ASSUME NEW r \in Replicas, Start(r) PROVE TypeOK'
  BY <1>3, ReadClockType DEF TypeOK, Start, Busy
<1>4. ASSUME NEW r \in Replicas, Step(r) PROVE TypeOK'
  <2>1. CASE TakeTick(r)
    BY <2>1, ReadClockType DEF TypeOK, TakeTick, Busy
  <2>2. CASE TakeTickCancelled(r)
    BY <2>2 DEF TypeOK, TakeTickCancelled
  <2>3. CASE Acquire(r)
    BY <2>3, GrantedType DEF TypeOK, Acquire, Busy
  <2>4. CASE AcquireDenied(r)
    BY <2>4 DEF TypeOK, AcquireDenied, Return
  <2>5. CASE EndRun(r)
    BY <2>5 DEF TypeOK, EndRun, Return
  <2>6. CASE Release(r)
    BY <2>6, DeletedType DEF TypeOK, Release, Return
  <2>7. QED
    BY <1>4, <2>1, <2>2, <2>3, <2>4, <2>5, <2>6 DEF Step
<1>5. ASSUME NEW r \in Replicas, Fault(r) PROVE TypeOK'
  <2>1. CASE CallFails(r)
    BY <2>1, LostCallType DEF TypeOK, CallFails, Return, CountFault
  <2>2. CASE Cancel(r)
    BY <2>2 DEF TypeOK, Cancel, CountFault
  <2>3. CASE Exit(r)
    BY <2>3, LostCallType DEF TypeOK, Exit, CountFault
  <2>4. QED
    BY <1>5, <2>1, <2>2, <2>3 DEF Fault
<1>6. QED
  BY <1>1, <1>2, <1>3, <1>4, <1>5 DEF Next

\* Type correctness of the scheduler and its lock row (scheduler.go).
THEOREM TypeCorrect == Spec => []TypeOK
<1>1. Init => TypeOK
  BY DEF Init, TypeOK, Free
<1>2. QED
  BY <1>1, TypeStep, PTL DEF Spec

LEMMA DistinctStep == IInv /\ [Next]_vars => HoldersDistinct'
<1> SUFFICES ASSUME IInv, [Next]_vars PROVE HoldersDistinct'
  OBVIOUS
<1>1. CASE UNCHANGED ident
  BY <1>1 DEF IInv, HoldersDistinct
<1>2. ASSUME NEW r \in Replicas, Start(r) PROVE HoldersDistinct'
  BY <1>2 DEF IInv, TypeOK, HoldersDistinct, Start
<1>3. QED
  BY <1>1, <1>2 DEF Next, vars, Tick, Step, Fault, TakeTick, TakeTickCancelled,
     Acquire, AcquireDenied, EndRun, Release, Return, CallFails, Cancel, Exit

LEMMA LeaseStep == IInv /\ [Next]_vars => LeaseCoversIngestion'
<1> SUFFICES ASSUME IInv, [Next]_vars,
                    NEW r \in Replicas, pc'[r] = "ingesting", lease'[r] > 0
             PROVE  /\ lock'.holder = ident'[r]
                    /\ lock'.left = lease'[r]
  BY DEF LeaseCoversIngestion
<1> USE DEF TypeOK
\* Most steps leave alone all that LeaseCoversIngestion says of r.
<1> DEFINE Untouched == /\ pc[r] = "ingesting" /\ lock' = lock
                        /\ lease'[r] = lease[r] /\ ident'[r] = ident[r]
<1>1. ASSUME Untouched
      PROVE  /\ lock'.holder = ident'[r]
             /\ lock'.left = lease'[r]
  BY <1>1 DEF IInv, LeaseCoversIngestion
<1>2. CASE Tick
  <2>1. pc[r] = "ingesting" /\ ident' = ident
    BY <1>2 DEF Tick
  <2>2. lease[r] > 0 /\ lease'[r] = lease[r] - 1
    BY <1>2 DEF Tick, IInv
  <2>3. lock.holder = ident[r] /\ lock.left = lease[r]
    BY <2>1, <2>2 DEF IInv, LeaseCoversIngestion
  <2>4. lock'.holder = lock.holder /\ lock'.left = lock.left - 1
    BY <1>2, <2>2, <2>3 DEF Tick, IInv
  <2>5. QED
    BY <2>1, <2>2, <2>3, <2>4
\* Every other step is one replica's; r's own steps keep or create its row.
<1>3. ASSUME NEW s \in Replicas, Start(s) \/ TakeTick(s) PROVE Untouched
  <2>1. s # r
    BY <1>3 DEF IInv, Start, TakeTick
  <2>2. QED
    BY <1>3, <2>1 DEF IInv, Start, TakeTick, ReadClock
<1>4. ASSUME NEW s \in Replicas, Cancel(s) \/ TakeTickCancelled(s)
      PROVE  Untouched
  BY <1>4 DEF IInv, Cancel, TakeTickCancelled
<1>5. ASSUME NEW s \in Replicas, Acquire(s)
      PROVE  /\ lock'.holder = ident'[r]
             /\ lock'.left = lease'[r]
  <2>1. CASE s = r
    BY <1>5, <2>1 DEF Acquire, Granted
  <2>2. CASE s # r
    <3>1. Active(r)
      BY <1>5, <2>2 DEF IInv, Acquire, Active
    <3>2. ~Grantable(s)
      BY <2>2, <3>1, LiveLease DEF IInv, HoldersDistinct, Grantable
    <3>3. QED
      BY <1>5, <3>2 DEF Acquire
  <2>3. QED
    BY <2>1, <2>2
<1>6. ASSUME NEW s \in Replicas,
             AcquireDenied(s) \/ EndRun(s) \/ Release(s) \/ CallFails(s) \/ Exit(s)
      PROVE  Untouched
  <2>1. s # r
    BY <1>6 DEF IInv, AcquireDenied, EndRun, Release, CallFails, Exit, Return
  <2>2. pc[r] = "ingesting" /\ lease'[r] = lease[r] /\ ident' = ident
    BY <1>6, <2>1
       DEF IInv, AcquireDenied, EndRun, Release, CallFails, Exit, Return
  <2>3. Active(r)
    BY <2>2 DEF Active
  <2>4. lock' = lock
    <3>1. CASE AcquireDenied(s) \/ EndRun(s)
      BY <3>1 DEF AcquireDenied, EndRun
    <3>2. CASE Release(s)
      BY <3>2, <2>1, <2>3, LiveLease
         DEF IInv, HoldersDistinct, Release, Deleted
    <3>3. CASE CallFails(s) \/ Exit(s)
      BY <3>3, <2>1, <2>3, LostCallSpares DEF CallFails, Exit
    <3>4. QED
      BY <1>6, <3>1, <3>2, <3>3
  <2>5. QED
    BY <2>2, <2>4
<1>7. CASE UNCHANGED vars
  BY <1>7, <1>1 DEF vars
<1>8. QED
  BY <1>1, <1>2, <1>3, <1>4, <1>5, <1>6, <1>7 DEF Next, Step, Fault

LEMMA IInvStep == IInv /\ [Next]_vars => IInv'
BY TypeStep, DistinctStep, LeaseStep DEF IInv

LEMMA IInvInit == Init => IInv
BY DEF Init, IInv, TypeOK, Free, HoldersDistinct, LeaseCoversIngestion

LEMMA Inductive == Spec => []IInv
BY IInvInit, IInvStep, PTL DEF Spec

\* Until its lease runs out, a replica inside runAllCountries owns the row,
\* and the row lasts as long (TryAcquireSchedulerLock, ReleaseSchedulerLock).
THEOREM LeaseCovers == Spec => []LeaseCoversIngestion
<1>1. IInv => LeaseCoversIngestion
  BY DEF IInv
<1>2. QED
  BY <1>1, Inductive, PTL

LEMMA ExclusionFromIInv == IInv => MutualExclusion
<1> SUFFICES ASSUME IInv, NEW r \in Replicas, NEW s \in Replicas,
                    pc[r] = "ingesting", pc[s] = "ingesting",
                    lease[r] # 0, lease[s] # 0
             PROVE  r = s
  BY DEF MutualExclusion
<1>1. Active(r) /\ Active(s)
  BY DEF Active, IInv, TypeOK
<1>2. lock.holder = ident[r] /\ lock.holder = ident[s]
  BY <1>1, LiveLease
<1>3. QED
  BY <1>2 DEF IInv, HoldersDistinct

\* Two replicas ingest at once only after one has outlasted its lease,
\* whatever crashes, shutdowns, restarts, lost answers and clocks there are.
THEOREM Exclusion == Spec => []MutualExclusion
BY Inductive, ExclusionFromIInv, PTL

LEMMA StealStep ==
  ASSUME IInv, [Next]_vars
  PROVE  [\/ lock.left = 0
          \/ lock'.holder = lock.holder
          \/ \E r \in Replicas :
               pc[r] = "releasing" /\ ident[r] = lock.holder]_lock
<1>1. ASSUME NEW r \in Replicas, LostCall(r)
      PROVE  \/ lock.left = 0
             \/ lock'.holder = lock.holder
             \/ pc[r] = "releasing" /\ ident[r] = lock.holder
  BY <1>1 DEF LostCall, Grantable, Granted, Deleted
<1>2. ASSUME NEW r \in Replicas, Acquire(r) \/ Release(r)
      PROVE  \/ lock.left = 0
             \/ lock'.holder = lock.holder
             \/ pc[r] = "releasing" /\ ident[r] = lock.holder
  BY <1>2 DEF Acquire, Release, Grantable, Granted, Deleted
<1>3. CASE Tick
  BY <1>3 DEF Tick, IInv, TypeOK
<1>4. QED
  BY <1>1, <1>2, <1>3 DEF Next, vars, Step, Fault, Start, TakeTick,
     TakeTickCancelled, AcquireDenied, EndRun, CallFails, Cancel, Exit

\* An unexpired row is only ever given up by its own process: a late delete
\* never removes the row of the replica that took over.
THEOREM NotStolen == Spec => LeaseNotStolen
<1>1. IInv /\ [Next]_vars =>
        [\/ lock.left = 0
         \/ lock'.holder = lock.holder
         \/ \E r \in Replicas :
              pc[r] = "releasing" /\ ident[r] = lock.holder]_lock
  BY StealStep
<1>2. QED
  BY <1>1, Inductive, PTL DEF Spec, LeaseNotStolen

\* The replicas that are ingesting within their lease, the abstract active.
Ingesting == {r \in Replicas : pc[r] = "ingesting" /\ lease[r] > 0}

LEMMA IngestingIsActive ==
  ASSUME NEW r \in Replicas
  PROVE  /\ r \in Ingesting <=> Active(r)
         /\ r \in Ingesting' <=> pc'[r] = "ingesting" /\ lease'[r] > 0
BY DEF Ingesting, Active

LEMMA OneActive ==
  ASSUME IInv, NEW r \in Ingesting
  PROVE  Ingesting = {r}
<1>1. ASSUME NEW s \in Ingesting PROVE s = r
  <2>1. r \in Replicas /\ s \in Replicas /\ Active(r) /\ Active(s)
    BY <1>1 DEF Ingesting, Active
  <2>2. lock.holder = ident[r] /\ lock.holder = ident[s]
    BY <2>1, LiveLease
  <2>3. QED
    BY <2>1, <2>2 DEF IInv, HoldersDistinct
<1>2. QED
  BY <1>1

\* A step that lets nobody in ends the active replica's run or changes nothing.
LEMMA NobodyEnters ==
  ASSUME IInv, Ingesting' \subseteq Ingesting
  PROVE  [SI!Next]_Ingesting
<1>1. CASE Ingesting = {}
  BY <1>1
<1>2. ASSUME NEW r \in Ingesting PROVE [SI!Next]_Ingesting
  <2>1. Ingesting = {r} /\ r \in Replicas
    BY <1>2, OneActive DEF Ingesting
  <2>2. CASE r \in Ingesting'
    BY <2>1, <2>2
  <2>3. CASE r \notin Ingesting'
    <3>1. Ingesting' = Ingesting \ {r}
      BY <2>1, <2>3
    <3>2. SI!End(r)
      BY <3>1, <1>2 DEF SI!End, Ingesting
    <3>3. QED
      BY <2>1, <3>2 DEF SI!Next
  <2>4. QED
    BY <2>2, <2>3
<1>3. QED
  BY <1>1, <1>2

LEMMA RefinementStep ==
  ASSUME IInv, IInv', [Next]_vars
  PROVE  [SI!Next]_Ingesting
<1> USE DEF TypeOK
\* A grant: nobody else was within a lease.
<1>1. ASSUME NEW r \in Replicas, Acquire(r) PROVE [SI!Next]_Ingesting
  <2>1. ASSUME NEW s \in Ingesting PROVE FALSE
    <3>1. s \in Replicas /\ Active(s) /\ s # r
      BY <2>1, <1>1 DEF Ingesting, Active, Acquire
    <3>2. lock.holder = ident[s] /\ lock.left > 0
      BY <3>1, LiveLease
    <3>3. QED
      BY <1>1, <3>1, <3>2 DEF Acquire, Grantable, IInv, HoldersDistinct
  <2>2. Ingesting = {}
    BY <2>1
  <2>3. ASSUME NEW s \in Ingesting' PROVE s = r
    <3>1. s \in Replicas /\ pc'[s] = "ingesting" /\ lease'[s] > 0
      BY <2>3 DEF Ingesting
    <3>2. s \notin Ingesting
      BY <2>2
    <3>3. ~(pc[s] = "ingesting" /\ lease[s] > 0)
      BY <3>1, <3>2, IngestingIsActive DEF Active
    <3>4. QED
      BY <1>1, <3>1, <3>3 DEF Acquire, IInv
  <2>4. CASE r \in Ingesting'
    <3>1. Ingesting' = {r}
      BY <2>3, <2>4
    <3>2. SI!Begin(r)
      BY <2>2, <3>1 DEF SI!Begin, Ingesting
    <3>3. QED
      BY <3>2 DEF SI!Next
  <2>5. CASE r \notin Ingesting'
    BY <2>2, <2>3, <2>5
  <2>6. QED
    BY <2>4, <2>5
\* Time only ends runs; so does every step of another kind.
<1>2. ASSUME NEW r \in Replicas,
             \/ Start(r) \/ TakeTick(r) \/ TakeTickCancelled(r) \/ EndRun(r)
             \/ AcquireDenied(r) \/ Release(r)
             \/ CallFails(r) \/ Cancel(r) \/ Exit(r)
      PROVE  Ingesting' \subseteq Ingesting
  <2> SUFFICES ASSUME NEW s \in Ingesting' PROVE s \in Ingesting
    OBVIOUS
  <2>1. s \in Replicas /\ pc'[s] = "ingesting" /\ lease'[s] > 0
    BY DEF Ingesting
  <2>2. pc[s] = "ingesting" /\ lease[s] = lease'[s]
    <3>1. CASE Start(r) \/ TakeTick(r)
      BY <3>1, <2>1 DEF IInv, Start, TakeTick, ReadClock
    <3>2. CASE TakeTickCancelled(r) \/ Cancel(r) \/ AcquireDenied(r) \/ Release(r)
      BY <3>2, <2>1
         DEF IInv, TakeTickCancelled, Cancel, AcquireDenied, Release, Return
    <3>3. CASE EndRun(r) \/ CallFails(r) \/ Exit(r)
      BY <3>3, <2>1 DEF IInv, EndRun, CallFails, Exit, Return
    <3>4. QED
      BY <1>2, <3>1, <3>2, <3>3
  <2>3. QED
    BY <2>1, <2>2 DEF Ingesting
<1>3. ASSUME Tick PROVE Ingesting' \subseteq Ingesting
  <2> SUFFICES ASSUME NEW s \in Ingesting' PROVE s \in Ingesting
    OBVIOUS
  <2>1. s \in Replicas /\ pc'[s] = "ingesting" /\ lease'[s] > 0
    BY DEF Ingesting
  <2>2. pc[s] = "ingesting" /\ lease[s] > 0
    BY <1>3, <2>1 DEF Tick, IInv
  <2>3. QED
    BY <2>1, <2>2 DEF Ingesting
<1>4. CASE UNCHANGED vars
  BY <1>4 DEF vars, Ingesting
<1>5. QED
  BY <1>1, <1>2, <1>3, <1>4, NobodyEnters DEF Next, Step, Fault

\* The scheduler implements SingleIngester: every behaviour of the replicas,
\* seen through the set of replicas that are ingesting within their lease,
\* is one of the single ingester's; no run has to fit in its lease.
THEOREM Refinement == Spec => OneIngester
<1>1. Init => SI!Init
  BY DEF Init, SI!Init
<1>2. IInv /\ IInv' /\ [Next]_vars => [SI!Next]_Ingesting
  BY RefinementStep
<1>3. QED
  BY <1>1, <1>2, Inductive, PTL
     DEF Spec, OneIngester, SI!Spec, Ingesting
=============================================================================
