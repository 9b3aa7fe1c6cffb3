-------------------------- MODULE MCSchedulerLock --------------------------
(***************************************************************************)
(* Two replicas, three holder strings (a restart may reuse the old one or  *)
(* take a new one), one clock a unit behind the database's and one a unit  *)
(* ahead: leases of two and of four units against runs of any length.      *)
(***************************************************************************)
EXTENDS SchedulerLock, TLC

CONSTANTS r1, r2

MCSkew == (r1 :> -1) @@ (r2 :> 1)
=============================================================================
