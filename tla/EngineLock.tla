----------------------------- MODULE EngineLock -----------------------------
(***************************************************************************)
(* What an engine that runs nodes for other engines promises them: its     *)
(* leases hold it one at a time, and a lease that let it go, or that was   *)
(* turned away, never holds it again.  The module EngineLeases implements  *)
(* this (AcquireLeaseRequest and ReleaseLeaseRequest).                     *)
(***************************************************************************)
CONSTANT Leases

VARIABLES
  holders,  \* the leases that hold the engine
  gone      \* the leases that let go of it or were refused

lockVars == <<holders, gone>>

LockInit ==
  /\ holders = {}
  /\ gone = {}

Grant(l) ==
  /\ holders = {}
  /\ l \notin gone
  /\ holders' = {l}
  /\ gone' = gone

(* Leases end, in line or holding the engine, together when their engine   *)
(* is lost.                                                                *)
Depart(L) ==
  /\ gone' = gone \cup L
  /\ holders' = holders \ L

LockNext ==
  \/ \E l \in Leases : Grant(l)
  \/ \E L \in SUBSET Leases : Depart(L)

LockSpec == LockInit /\ [][LockNext]_lockVars
=============================================================================
