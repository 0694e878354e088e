------------------------------- MODULE RunLine -------------------------------
(***************************************************************************)
(* What the run queue of a workflow promises, without its machine: runs    *)
(* arrive, at most one is being served, the next one served is the one     *)
(* that has waited longest, and a run that left never comes back.  The     *)
(* module RunLifecycle implements this (FlowManager.submit_run,            *)
(* cancel_run, cancel_all_runs_in, _start_next_run_if_idle, _finish_run).  *)
(***************************************************************************)
EXTENDS RunQueue

CONSTANTS Runs, None

VARIABLES
  line,    \* the runs waiting to start
  active,  \* the run being served, or None
  over     \* the runs that ended, whether served or turned away

lineVars == <<line, active, over>>

LineInit ==
  /\ line = EmptyLine
  /\ active = None
  /\ over = {}

(* Serve the run that has waited longest in l, when nothing is served. *)
ServeNext(l) ==
  \E next \in Heads(l) :
    /\ active' = next
    /\ line' = Remove(l, {next})

(* A new run joins the line, and may be served at once if the server is    *)
(* idle.                                                                   *)
Arrive(run) ==
  /\ run \notin DOMAIN line \cup {active} \cup over
  /\ over' = over
  /\ \/ line' = Enqueue(line, run) /\ active' = active
     \/ active = None /\ ServeNext(Enqueue(line, run))

(* Waiting runs are turned away, the served run ends, or both at once; the *)
(* end of the served run may start the next.                               *)
Leave(gone) ==
  /\ gone # {}
  /\ gone \subseteq (DOMAIN line \cup {active}) \ {None}
  /\ over' = over \cup gone
  /\ \/ line' = Remove(line, gone) /\ active' = IF active \in gone THEN None ELSE active
     \/ active \in gone /\ ServeNext(Remove(line, gone))

LineNext ==
  \/ \E run \in Runs : Arrive(run)
  \/ \E gone \in SUBSET Runs : Leave(gone)

LineSpec == LineInit /\ [][LineNext]_lineVars
=============================================================================
