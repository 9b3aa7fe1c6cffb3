-------------------------- MODULE SingleIngester --------------------------
(***************************************************************************)
(* What the scheduler lock promises the rest of the system: of all the API *)
(* replicas, at most one is inside runAllCountries within its lease at any *)
(* time, and a replica enters only after the previous one has left, died   *)
(* or used up its lease.                                                   *)
(***************************************************************************)
CONSTANT Replicas   \* API server processes sharing one database

VARIABLE active     \* the replicas that are ingesting within their lease

Init == active = {}

Begin(r) ==
  /\ active = {}
  /\ active' = {r}

End(r) ==
  /\ r \in active
  /\ active' = active \ {r}

Next == \E r \in Replicas : Begin(r) \/ End(r)

Spec == Init /\ [][Next]_active
=============================================================================
