---------------------------- MODULE RunLifecycle ----------------------------
(***************************************************************************)
(* The runs of one open workflow: how FlowManager queues them, starts one  *)
(* at a time on the workflow's control flow machine, drives it, pauses,    *)
(* steps, cancels and ends it (flow_manager.py, run_queue.py, flows.py).   *)
(*                                                                         *)
(* Code between two awaits is one action.  Every await is a point where    *)
(* any other request may run.  A control flow machine is abstracted to     *)
(* what FlowManager reads of it; ParallelResolution models its inside.     *)
(***************************************************************************)
EXTENDS Naturals, RunQueue

CONSTANTS
  Runs,          \* the runs requests submit
  Flows,         \* the flows of the workflow
  FlowOf,        \* the flow each run executes
  FromNode,      \* the runs that start at a given node, not at the flow's start nodes
  Cancels,       \* cancel requests that may be under way at once
  CancelKinds,   \* what is cancelled: "run" the flow in progress, "all" every run
  CancelMayFail, \* whether awaiting the nodes' cancellation may raise
  Cancellable,   \* runs whose driver task may be cancelled, as when its loop is torn down
  MachineIds,    \* slots for machine objects; an unreferenced one is reused
  None

ASSUME RunsAssumption ==
  /\ None \notin Runs \cup Flows \cup MachineIds
  /\ Runs \cap {"free", "step"} = {}
  /\ FlowOf \in [Runs -> Flows]
  /\ FromNode \subseteq Runs /\ Cancellable \subseteq Runs
  /\ CancelKinds \subseteq {"run", "all"}
  /\ CancelMayFail \in BOOLEAN

VARIABLES
  line,       \* flows.run_queue
  inProgress, \* flows.run_in_progress
  driving,    \* flows.driving
  cancelling, \* flows.cancelling_all
  queued,     \* whether flows.global_flow_queue holds start nodes
  state,      \* Run.state of each run, "new" before it is submitted
  outcome,    \* Run.outcome: what the run's request was answered
  ended,      \* how often Run.ended was set
  driver,     \* where the run's driver task (_drive) is suspended
  machine,    \* flows.global_control_flow_machine
  mach,       \* the machine objects
  cancels,    \* the cancel requests under way
  deleted     \* the flows that were deleted

queueVars == <<line, inProgress, driving, state, ended, driver>>
vars == <<line, inProgress, driving, cancelling, queued, state, outcome, ended,
          driver, machine, mach, cancels, deleted>>

RunStates == {"new", "queued", "running", "paused", "finished", "failed", "cancelled"}
Outcomes == {"none", "ok", "failed", "refused", "raised", "twice"}
DriverStates == {"none", "scheduled", "validating", "driving", "abandoning", "over"}

(* What FlowManager reads of a machine: whether its flow goes on, whether  *)
(* nodes it started are still executing, the debug flag, and who advances  *)
(* it (a run's driver or a step request).                                  *)
Machines ==
  [flow : Flows \cup {None}, state : {"idle", "resolving", "complete", "errored"},
   busy : BOOLEAN, paused : BOOLEAN, holder : Runs \cup {"free", "step"}]

NewMachine(flow) ==
  [flow |-> flow, state |-> "idle", busy |-> FALSE, paused |-> FALSE, holder |-> "free"]

CancelStates ==
  [phase : {"sending", "gathering", "gathered"}, target : MachineIds, kind : {"run", "all"}]

NoCancel == [phase |-> "none", target |-> None, kind |-> "run"]

TypeOK ==
  /\ line \in Lines(Runs)
  /\ inProgress \in Runs \cup {None}
  /\ driving \in BOOLEAN /\ cancelling \in BOOLEAN /\ queued \in BOOLEAN
  /\ state \in [Runs -> RunStates]
  /\ outcome \in [Runs -> Outcomes]
  /\ ended \in [Runs -> Nat]
  /\ driver \in [Runs -> DriverStates]
  /\ machine \in MachineIds \cup {None}
  /\ mach \in [MachineIds -> Machines]
  /\ cancels \in [Cancels -> CancelStates \cup {NoCancel}]
  /\ deleted \in SUBSET Flows

Init ==
  /\ line = EmptyLine
  /\ inProgress = None
  /\ driving = FALSE /\ cancelling = FALSE /\ queued = FALSE
  /\ state = [r \in Runs |-> "new"]
  /\ outcome = [r \in Runs |-> "none"]
  /\ ended = [r \in Runs |-> 0]
  /\ driver = [r \in Runs |-> "none"]
  /\ machine = None
  /\ mach = [id \in MachineIds |-> NewMachine(None)]
  /\ cancels = [c \in Cancels |-> NoCancel]
  /\ deleted = {}

-----------------------------------------------------------------------------
(* Reading the machine.  Each takes the machine objects and the current    *)
(* one as they are at that point of the handler.                           *)

FlowRunning(mc, cur) == cur # None /\ mc[cur].state = "resolving"

RunAdvancing(mc, cur) == cur # None /\ mc[cur].holder # "free"

Reset(mc, cur) ==
  IF cur = None THEN mc
  ELSE [mc EXCEPT ![cur].state = "idle", ![cur].busy = FALSE, ![cur].paused = FALSE]

(* Whether the flow going on is this one, so deleting it must cancel it. *)
RunsFlow(flow) == FlowRunning(mach, machine) /\ mach[machine].flow = flow

(* The run's flow was deleted after the run was submitted. *)
FlowIsGoneUnseen(run) == FALSE  \* a broken variant: the flow is not looked up again

FlowIsGone(run) == FlowOf[run] \in deleted

(* _raise_if_run_cancelled. *)
CancelledUnseen(run) == FALSE  \* a broken variant: the cancellation goes unread

CancelledBeforeStart(run) == inProgress = run /\ state[run] = "cancelled"

(* A slot no one refers to any more. *)
Unused(id) ==
  /\ id # machine
  /\ mach[id].holder = "free"
  /\ \A c \in Cancels : cancels[c].target # id

-----------------------------------------------------------------------------
(* Steps of FlowManager that several handlers end with.  Each fixes the    *)
(* next value of every variable in queueVars, from the values the handler  *)
(* has given the line, the run states and the drivers before it.           *)

(* A broken variant: any waiting run may go first. *)
StartNextRunAnyOrder(l, st, dr) ==
  IF cancelling \/ DOMAIN l = {}
  THEN /\ inProgress' = None /\ driving' = FALSE
       /\ line' = l /\ state' = st /\ driver' = dr
  ELSE \E next \in DOMAIN l :
         /\ inProgress' = next /\ driving' = TRUE
         /\ line' = Remove(l, {next})
         /\ state' = [st EXCEPT ![next] = "running"]
         /\ driver' = [dr EXCEPT ![next] = "scheduled"]

(* A broken variant: cancelling_all is not read. *)
StartNextRunWhileCancelling(l, st, dr) ==
  IF Heads(l) = {}
  THEN /\ inProgress' = None /\ driving' = FALSE
       /\ line' = l /\ state' = st /\ driver' = dr
  ELSE \E next \in Heads(l) :
         /\ inProgress' = next /\ driving' = TRUE
         /\ line' = Remove(l, {next})
         /\ state' = [st EXCEPT ![next] = "running"]
         /\ driver' = [dr EXCEPT ![next] = "scheduled"]

StartNextRunIfIdle(l, st, dr) ==
  IF cancelling \/ Heads(l) = {}
  THEN /\ inProgress' = None /\ driving' = FALSE
       /\ line' = l /\ state' = st /\ driver' = dr
  ELSE \E next \in Heads(l) :
         /\ inProgress' = next /\ driving' = TRUE
         /\ line' = Remove(l, {next})
         /\ state' = [st EXCEPT ![next] = "running"]
         /\ driver' = [dr EXCEPT ![next] = "scheduled"]

(* A broken variant: the end of a run starts no other. *)
FinishRunStartingNone(run, l, st, dr, en) ==
  /\ ended' = [en EXCEPT ![run] = @ + 1]
  /\ inProgress' = None /\ driving' = FALSE
  /\ line' = l /\ state' = st /\ driver' = dr

FinishRun(run, l, st, dr, en) ==
  IF inProgress # run
  THEN /\ driving' = FALSE /\ inProgress' = inProgress
       /\ line' = l /\ state' = st /\ driver' = dr /\ ended' = en
  ELSE /\ ended' = [en EXCEPT ![run] = @ + 1]
       /\ StartNextRunIfIdle(l, st, dr)

(* A broken variant: only a run whose state is still paused is ended. *)
FinishPausedRunIfOver(mc, cur, l, st, en) ==
  IF inProgress = None \/ driving \/ RunAdvancing(mc, cur) \/ FlowRunning(mc, cur)
  THEN /\ line' = l /\ state' = st /\ ended' = en
       /\ UNCHANGED <<inProgress, driving, driver>>
  ELSE IF st[inProgress] = "paused"
  THEN FinishRun(inProgress, l, [st EXCEPT ![inProgress] = "finished"], driver, en)
  ELSE /\ line' = l /\ state' = st /\ ended' = en
       /\ UNCHANGED <<inProgress, driving, driver>>

FinishRunIfOver(mc, cur, l, st, en) ==
  IF inProgress = None \/ driving \/ RunAdvancing(mc, cur) \/ FlowRunning(mc, cur)
  THEN /\ line' = l /\ state' = st /\ ended' = en
       /\ UNCHANGED <<inProgress, driving, driver>>
  ELSE FinishRun(inProgress, l,
                 [st EXCEPT ![inProgress] = IF @ = "paused" THEN "finished" ELSE @],
                 driver, en)

Answer(out, run, result) ==
  [out EXCEPT ![run] = IF @ = "none" THEN result ELSE "twice"]

(* The end of _drive, once the run's request has its result. *)
Return(run, result, mc, cur) ==
  LET dr == [driver EXCEPT ![run] = "over"] IN
  /\ outcome' = Answer(outcome, run, result)
  /\ IF FlowRunning(mc, cur)
     THEN /\ state' = [state EXCEPT ![run] = "paused"]
          /\ driver' = dr /\ driving' = FALSE
          /\ UNCHANGED <<line, inProgress, ended>>
     ELSE FinishRun(run, line,
            [state EXCEPT ![run] = IF @ # "running" THEN @
                                   ELSE IF result = "ok" THEN "finished" ELSE "failed"],
            dr, ended)

(* _turn_away: the waiting runs in gone end without executing. *)
TurnedAwayState(st, gone) == [r \in Runs |-> IF r \in gone THEN "cancelled" ELSE st[r]]

TurnAway(gone) ==
  outcome' = [r \in Runs |-> IF r \notin gone THEN outcome[r]
                             ELSE IF outcome[r] = "none" THEN "refused" ELSE "twice"]

TurnedAwayEnded(gone) == [r \in Runs |-> IF r \in gone THEN ended[r] + 1 ELSE ended[r]]

(* A request marks the run in progress cancelled before it stops its flow. *)
MarkCancelled(st) ==
  IF inProgress = None THEN st ELSE [st EXCEPT ![inProgress] = "cancelled"]

(* _cancel_run, up to its first await. *)
BeginCancel(c, kind) ==
  /\ queued' = FALSE
  /\ cancels' = [cancels EXCEPT ![c] = [phase |-> "sending", target |-> machine, kind |-> kind]]

-----------------------------------------------------------------------------
(* Submitting a run, and withdrawing one that waits: cancel_run of a       *)
(* waiting run, or start_run whose request is cancelled meanwhile.         *)

(* A broken variant: run_in_progress is not read. *)
SubmitAndStart(run) ==
  /\ state[run] = "new"
  /\ FlowOf[run] \notin deleted
  /\ StartNextRunIfIdle(Enqueue(line, run), [state EXCEPT ![run] = "queued"], driver)
  /\ UNCHANGED <<cancelling, queued, outcome, ended, machine, mach, cancels, deleted>>

SubmitRun(run) ==
  LET st == [state EXCEPT ![run] = "queued"] IN
  /\ state[run] = "new"
  /\ FlowOf[run] \notin deleted
  /\ IF inProgress # None
     THEN /\ line' = Enqueue(line, run) /\ state' = st
          /\ UNCHANGED <<inProgress, driving, driver>>
     ELSE StartNextRunIfIdle(Enqueue(line, run), st, driver)
  /\ UNCHANGED <<cancelling, queued, outcome, ended, machine, mach, cancels, deleted>>

(* A broken variant: the run is answered but stays in the line. *)
CancelStaysInLine(run) ==
  /\ run \in DOMAIN line /\ state[run] = "queued"
  /\ state' = TurnedAwayState(state, {run})
  /\ TurnAway({run})
  /\ ended' = TurnedAwayEnded({run})
  /\ UNCHANGED <<line, inProgress, driving, driver, cancelling, queued, machine, mach,
                 cancels, deleted>>

CancelWaitingRun(run) ==
  /\ run \in DOMAIN line
  /\ line' = Remove(line, {run})
  /\ state' = TurnedAwayState(state, {run})
  /\ TurnAway({run})
  /\ ended' = TurnedAwayEnded({run})
  /\ UNCHANGED <<inProgress, driving, driver, cancelling, queued, machine, mach,
                 cancels, deleted>>

-----------------------------------------------------------------------------
(* _drive and execute_start_flow. *)

(* A run cancelled before its driver got to run does not execute. *)
DriveCancelled(run) ==
  /\ driver[run] = "scheduled"
  /\ state[run] = "cancelled"
  /\ outcome' = Answer(outcome, run, "refused")
  /\ FinishRun(run, line, state, [driver EXCEPT ![run] = "over"], ended)
  /\ UNCHANGED <<cancelling, queued, machine, mach, cancels, deleted>>

(* execute refuses a flow that is gone, or one that is already running. *)
DriveRefused(run) ==
  /\ driver[run] = "scheduled"
  /\ state[run] # "cancelled"
  /\ FlowIsGone(run) \/ FlowRunning(mach, machine)
  /\ Return(run, "failed", mach, machine)
  /\ UNCHANGED <<cancelling, queued, machine, mach, cancels, deleted>>

(* A run of the whole flow fills the start node queue, and is validated. *)
DriveValidates(run) ==
  /\ driver[run] = "scheduled"
  /\ state[run] # "cancelled"
  /\ ~FlowIsGone(run)
  /\ ~FlowRunning(mach, machine)
  /\ driver' = [driver EXCEPT ![run] = "validating"]
  /\ \/ run \in FromNode /\ UNCHANGED queued
     \/ run \notin FromNode /\ queued' \in BOOLEAN
  /\ UNCHANGED <<line, inProgress, driving, state, ended, outcome, cancelling, machine,
                 mach, cancels, deleted>>

ValidationFails(run) ==
  /\ driver[run] = "validating"
  /\ Return(run, "failed", mach, machine)
  /\ UNCHANGED <<cancelling, queued, machine, mach, cancels, deleted>>

(* start_flow raises before it makes a machine: the flow already runs, the *)
(* run was cancelled meanwhile, or there is no node to start from.         *)
StartFlowRefused(run) ==
  /\ driver[run] = "validating"
  /\ \/ FlowRunning(mach, machine)
     \/ CancelledBeforeStart(run)
     \/ run \notin FromNode /\ ~queued
  /\ Return(run, "failed", mach, machine)
  /\ UNCHANGED <<cancelling, queued, machine, mach, cancels, deleted>>

(* start_flow stores a new machine and drains the start nodes into it.  A  *)
(* flow deleted since the check fails, and its machine never started.  A   *)
(* debug run returns at its first pause; any other is driven on.           *)
StartFlow(run, id, debug) ==
  LET fresh == [NewMachine(FlowOf[run]) EXCEPT !.state = "resolving", !.paused = debug]
      gone  == FlowIsGone(run)
      mc    == [mach EXCEPT ![id] = IF gone THEN NewMachine(FlowOf[run])
                                    ELSE IF debug THEN fresh
                                    ELSE [fresh EXCEPT !.holder = run]]
  IN
  /\ driver[run] = "validating"
  /\ ~FlowRunning(mach, machine)
  /\ ~CancelledBeforeStart(run)
  /\ run \in FromNode \/ queued
  /\ Unused(id)
  /\ machine' = id
  /\ mach' = mc
  /\ queued' = FALSE
  /\ IF gone THEN Return(run, "failed", mc, id)
     ELSE IF debug THEN Return(run, "ok", mc, id)
     ELSE /\ driver' = [driver EXCEPT ![run] = "driving"]
          /\ UNCHANGED <<line, inProgress, driving, state, ended, outcome>>
  /\ UNCHANGED <<cancelling, cancels, deleted>>

(* The driver task is cancelled at whatever it awaits. *)
DriverCancelled(run) ==
  /\ run \in Cancellable
  /\ driver[run] \in {"validating", "driving", "abandoning"}
  /\ outcome' = Answer(outcome, run, "raised")
  /\ mach' = [id \in MachineIds |->
                IF mach[id].holder = run THEN [mach[id] EXCEPT !.holder = "free"] ELSE mach[id]]
  /\ FinishRun(run, line, state, [driver EXCEPT ![run] = "over"], ended)
  /\ UNCHANGED <<cancelling, queued, machine, cancels, deleted>>

-----------------------------------------------------------------------------
(* The machine, advanced by its holder. *)

NodeStarts(id) ==
  /\ mach[id].holder # "free" /\ mach[id].state = "resolving"
  /\ ~mach[id].paused /\ ~mach[id].busy
  /\ mach' = [mach EXCEPT ![id].busy = TRUE]
  /\ UNCHANGED <<queueVars, cancelling, queued, outcome, machine, cancels, deleted>>

(* The executing nodes end, which lets the cancels gathering them resume. *)
NodesFinish(id) ==
  /\ mach[id].busy
  /\ mach' = [mach EXCEPT ![id].busy = FALSE]
  /\ cancels' = [c \in Cancels |->
                   IF cancels[c].phase = "gathering" /\ cancels[c].target = id
                   THEN [cancels[c] EXCEPT !.phase = "gathered"] ELSE cancels[c]]
  /\ UNCHANGED <<queueVars, cancelling, queued, outcome, machine, deleted>>

(* The holder stops advancing the machine and its request goes on to its   *)
(* end: a driver's run returns, a step ends the run if it is over.         *)
LetGo(id, newState, result) ==
  LET mc == [mach EXCEPT ![id].state = newState, ![id].holder = "free"] IN
  /\ mach' = mc
  /\ \/ /\ mach[id].holder = "step"
        /\ FinishRunIfOver(mc, machine, line, state, ended)
        /\ UNCHANGED outcome
     \/ /\ mach[id].holder \in Runs
        /\ Return(mach[id].holder, result, mc, machine)
  /\ UNCHANGED <<cancelling, queued, machine, cancels, deleted>>

FlowEnds(id) ==
  /\ mach[id].holder # "free" /\ mach[id].state = "resolving" /\ ~mach[id].busy
  /\ \/ ~mach[id].paused /\ LetGo(id, "complete", "ok")
     \/ LetGo(id, "errored", "failed")

(* The debug flag makes the holder return, nodes it started going on. *)
HolderPauses(id) ==
  /\ mach[id].holder # "free" /\ mach[id].state = "resolving" /\ mach[id].paused
  /\ LetGo(id, "resolving", "ok")

(* The machine was reset while its holder was suspended: it returns having *)
(* raised nothing, so the run's request reads no error.                    *)
HolderUnaware(id) == FALSE  \* a broken variant: a reset wakes no one

HolderAbandons(id) ==
  /\ mach[id].holder # "free" /\ mach[id].state = "idle"
  /\ LetGo(id, "idle", "ok")

(* Advancing raises.  A driver gives up on its run, awaiting its nodes'    *)
(* cancellation; a step request answers with the error, and a granular one *)
(* cancels the flow, which it leaves resolving until then.                 *)
HolderRaises(id) ==
  /\ mach[id].holder # "free" /\ mach[id].state = "resolving"
  /\ mach' = [mach EXCEPT ![id].holder = "free"]
  /\ \/ /\ mach[id].holder \in Runs
        /\ driver' = [driver EXCEPT ![mach[id].holder] = "abandoning"]
        /\ queued' = FALSE
        /\ UNCHANGED cancels
     \/ /\ mach[id].holder = "step"
        /\ UNCHANGED <<driver, queued, cancels>>
     \/ /\ mach[id].holder = "step"
        /\ "run" \in CancelKinds
        /\ \E c \in Cancels : cancels[c].phase = "none" /\ BeginCancel(c, "run")
        /\ UNCHANGED driver
  /\ UNCHANGED <<line, inProgress, driving, state, ended, outcome, cancelling, machine,
                 deleted>>

(* _abandon_running_flow resets the machine whether or not cancelling      *)
(* politely worked, and the run's request fails.                           *)
AbandonEnds(run) ==
  LET mc == Reset(mach, machine) IN
  /\ driver[run] = "abandoning"
  /\ machine # None /\ mach[machine].busy => CancelMayFail
  /\ mach' = mc
  /\ Return(run, "failed", mc, machine)
  /\ UNCHANGED <<cancelling, queued, machine, cancels, deleted>>

-----------------------------------------------------------------------------
(* Step and continue requests. *)

(* Advance a running flow nobody advances; otherwise only the flag changes. *)
Step(paused) ==
  /\ FlowRunning(mach, machine)
  /\ mach' = [mach EXCEPT ![machine].paused = paused,
                          ![machine].holder = IF @ = "free" THEN "step" ELSE @]
  /\ UNCHANGED <<queueVars, cancelling, queued, outcome, machine, cancels, deleted>>

(* With no flow running, a step starts one from start nodes left in the    *)
(* queue, on the last machine if there is one.  A machine still held by    *)
(* someone refuses, its start nodes used up.                               *)
StepStartsFlow(id, flow, paused) ==
  /\ ~FlowRunning(mach, machine)
  /\ queued
  /\ flow \notin deleted
  /\ IF machine = None THEN Unused(id) ELSE id = machine
  /\ queued' = FALSE
  /\ IF mach[id].holder # "free" \/ (machine = id /\ mach[id].flow \in deleted)
     THEN UNCHANGED <<machine, mach>>
     ELSE /\ machine' = id
          /\ mach' = [mach EXCEPT ![id] =
               [NewMachine(IF machine = None THEN flow ELSE mach[id].flow) EXCEPT
                  !.state = "resolving", !.paused = paused, !.holder = "step"]]
  /\ UNCHANGED <<queueVars, cancelling, outcome, cancels, deleted>>

-----------------------------------------------------------------------------
(* Cancel requests.  Cancelling a flow tells the workers, then cancels the *)
(* node tasks and waits for them, each a suspension; then it resets the    *)
(* machine that is current when it resumes.                                *)

(* cancel_run of the run in progress, or CancelFlow with no run. *)
CancelUnchecked(c) ==  \* a broken variant: cancels whether or not a flow is going on
  /\ "run" \in CancelKinds
  /\ cancels[c].phase = "none"
  /\ inProgress # None
  /\ state' = MarkCancelled(state)
  /\ BeginCancel(c, "run")
  /\ UNCHANGED <<line, inProgress, driving, ended, driver, outcome, cancelling, machine,
                 mach, deleted>>

CancelRunInProgress(c) ==
  /\ "run" \in CancelKinds
  /\ cancels[c].phase = "none"
  /\ inProgress # None \/ FlowRunning(mach, machine)
  /\ state' = MarkCancelled(state)
  /\ IF FlowRunning(mach, machine) THEN BeginCancel(c, "run") ELSE UNCHANGED <<queued, cancels>>
  /\ UNCHANGED <<line, inProgress, driving, ended, driver, outcome, cancelling, machine,
                 mach, deleted>>

(* cancel_all_runs_in, up to its await. *)
CancelAllRuns(c) ==
  LET gone == DOMAIN line IN
  /\ "all" \in CancelKinds
  /\ cancels[c].phase = "none"
  /\ line' = Remove(line, gone)
  /\ state' = MarkCancelled(TurnedAwayState(state, gone))
  /\ TurnAway(gone)
  /\ ended' = TurnedAwayEnded(gone)
  /\ IF FlowRunning(mach, machine)
     THEN BeginCancel(c, "all") /\ cancelling' = TRUE
     ELSE cancelling' = FALSE /\ UNCHANGED <<queued, cancels>>
  /\ UNCHANGED <<inProgress, driving, driver, machine, mach, deleted>>

(* The workers are told; the tasks that are executing now are cancelled.   *)
(* With none executing there is nothing to wait for.                       *)
CancelTasks(c) ==
  /\ cancels[c].phase = "sending"
  /\ mach[cancels[c].target].busy
  /\ cancels' = [cancels EXCEPT ![c].phase = "gathering"]
  /\ UNCHANGED <<queueVars, cancelling, queued, outcome, machine, mach, deleted>>

(* _cancel_run resumes: it resets the current machine and ends the run if  *)
(* that is over; then cancel_all_runs_in turns away what was held, all but *)
(* the run that end started, if another cancel of all ended the hold.      *)
StartedByEnd ==
  IF inProgress = None \/ driving \/ RunAdvancing(mach, machine) \/ cancelling THEN {}
  ELSE Heads(line)

CancelResets(c) ==
  LET mc   == Reset(mach, machine)
      all  == cancels[c].kind = "all"
      gone == IF all THEN DOMAIN line \ StartedByEnd ELSE {}
  IN
  /\ \/ cancels[c].phase = "gathered"
     \/ cancels[c].phase = "sending" /\ ~mach[cancels[c].target].busy
  /\ mach' = mc
  /\ cancels' = [cancels EXCEPT ![c] = NoCancel]
  /\ cancelling' = (cancelling /\ ~all)
  /\ TurnAway(gone)
  /\ FinishRunIfOver(mc, machine, Remove(line, gone), TurnedAwayState(state, gone),
                     TurnedAwayEnded(gone))
  /\ UNCHANGED <<queued, machine, deleted>>

(* Telling a worker, or a node's own cancellation, raises. *)
CancelFails(c) ==
  /\ CancelMayFail
  /\ cancels[c].phase \in {"sending", "gathering"}
  /\ cancels' = [cancels EXCEPT ![c] = NoCancel]
  /\ cancelling' = (cancelling /\ cancels[c].kind # "all")
  /\ UNCHANGED <<queueVars, queued, outcome, machine, mach, deleted>>

-----------------------------------------------------------------------------
(* Deleting a flow, and closing the workflow.  Both are synchronous: a     *)
(* cancel they need blocks the loop, so it fails while node tasks of that  *)
(* loop are executing.                                                     *)

DeleteFlow(flow) ==
  LET gone    == {r \in DOMAIN line : FlowOf[r] = flow}
      mine    == machine # None /\ mach[machine].flow = flow
      running == RunsFlow(flow)
      blocked == running /\ mach[machine].busy
      mc      == IF running /\ ~blocked THEN Reset(mach, machine) ELSE mach
      cur     == IF mine /\ ~blocked THEN None ELSE machine
      st      == TurnedAwayState(state, gone)
  IN
  /\ flow \notin deleted
  /\ TurnAway(gone)
  /\ mach' = mc
  /\ machine' = cur
  /\ queued' = (queued /\ ~running)
  /\ deleted' = IF blocked THEN deleted ELSE deleted \cup {flow}
  /\ IF mine /\ ~blocked
     THEN FinishRunIfOver(mc, cur, Remove(line, gone), IF running THEN MarkCancelled(st) ELSE st,
                          TurnedAwayEnded(gone))
     ELSE /\ line' = Remove(line, gone)
          /\ state' = IF running THEN MarkCancelled(st) ELSE st
          /\ ended' = TurnedAwayEnded(gone)
          /\ UNCHANGED <<inProgress, driving, driver>>
  /\ UNCHANGED <<cancelling, cancels>>

(* _tear_down_workflow: cancel every run, drop the machine, delete all. *)
CloseWorkflow ==
  LET gone == DOMAIN line
      mc   == Reset(mach, machine)
  IN
  /\ deleted # Flows
  /\ deleted' = Flows
  /\ TurnAway(gone)
  /\ mach' = mc
  /\ machine' = None
  /\ queued' = FALSE
  /\ cancelling' = FALSE
  /\ FinishRunIfOver(mc, None, Remove(line, gone), MarkCancelled(TurnedAwayState(state, gone)),
                     TurnedAwayEnded(gone))
  /\ UNCHANGED cancels

-----------------------------------------------------------------------------
Drive(run) ==
  \/ DriveCancelled(run) \/ DriveRefused(run) \/ DriveValidates(run)
  \/ ValidationFails(run) \/ StartFlowRefused(run)
  \/ \E id \in MachineIds, debug \in BOOLEAN : StartFlow(run, id, debug)
  \/ AbandonEnds(run)

Advance(id) ==
  NodeStarts(id) \/ FlowEnds(id) \/ HolderPauses(id) \/ HolderAbandons(id) \/ HolderRaises(id)

CancelGoesOn(c) == CancelTasks(c) \/ CancelResets(c)

Next ==
  \/ \E run \in Runs : SubmitRun(run) \/ CancelWaitingRun(run) \/ Drive(run) \/ DriverCancelled(run)
  \/ \E id \in MachineIds : Advance(id) \/ NodesFinish(id)
  \/ \E paused \in BOOLEAN :
       Step(paused) \/ \E id \in MachineIds, flow \in Flows : StepStartsFlow(id, flow, paused)
  \/ \E c \in Cancels :
       CancelRunInProgress(c) \/ CancelAllRuns(c) \/ CancelGoesOn(c) \/ CancelFails(c)
  \/ \E flow \in Flows : DeleteFlow(flow)
  \/ CloseWorkflow

Spec == Init /\ [][Next]_vars

(* The event loop runs what is ready, nodes return, and a run has finitely *)
(* many nodes to start; no request is ever certain to come.                *)
Fairness ==
  /\ \A run \in Runs : WF_vars(Drive(run))
  /\ \A id \in MachineIds : WF_vars(NodesFinish(id))
  /\ \A id \in MachineIds : SF_vars(FlowEnds(id)) /\ WF_vars(HolderPauses(id) \/ HolderAbandons(id))
  /\ \A c \in Cancels : WF_vars(CancelGoesOn(c))

FairSpec == Spec /\ Fairness

-----------------------------------------------------------------------------
(* Properties. *)

(* A driver goes on only for the run in progress, and `driving` says       *)
(* whether it does: no two drivers share the workflow's machine, and       *)
(* _finish_run_if_over never ends a run under its own driver.              *)
OneDriver ==
  \A run \in Runs :
    driver[run] \in {"scheduled", "validating", "driving", "abandoning"}
      <=> driving /\ inProgress = run

(* Every run submitted waits, is in progress, or has ended with its        *)
(* request answered, and only one of these: a second answer or end would   *)
(* raise InvalidStateError in whichever handler came second, and a run in  *)
(* none of them would leave its request waiting for good.                  *)
EveryRunAccountedFor ==
  \A run \in Runs :
    LET waiting == run \in DOMAIN line
        served  == inProgress = run
        isOver  == ended[run] > 0
    IN
    /\ waiting => ~served /\ ~isOver /\ state[run] = "queued" /\ outcome[run] = "none"
    /\ served => ~isOver
    /\ isOver => ended[run] = 1 /\ outcome[run] \notin {"none", "twice"}
    /\ state[run] # "new" => waiting \/ served \/ isOver

(* A run in progress whose request has returned still has something that   *)
(* will end it: a flow going on, or someone advancing the machine.         *)
NoStuckRun ==
  inProgress # None /\ ~driving =>
    FlowRunning(mach, machine) \/ RunAdvancing(mach, machine)

(* Runs wait only behind a run in progress, or while a cancel of every run *)
(* is under way, which turns them away.                                    *)
NoStrandedLine ==
  DOMAIN line # {} /\ inProgress = None => cancelling

(* A flow that goes on, driven, stepped or paused, was not deleted: its    *)
(* deletion stops it first, one still validating is refused, and no step   *)
(* starts it from start nodes left behind.                                 *)
NoDeletedFlowRuns ==
  FlowRunning(mach, machine) => mach[machine].flow \notin deleted

(* A run cancelled before its flow started never starts it.                *)
CancelledNeverStarts ==
  [][\A run \in Runs :
       state[run] = "cancelled" /\ driver[run] \in {"none", "scheduled", "validating"}
         => driver'[run] # "driving"]_vars

(* The flow of a run being driven is torn down only if that run was        *)
(* cancelled: a cancel that resumes late must not hit the next run.        *)
TornDownOnlyIfCancelled ==
  [][\A id \in MachineIds, run \in Runs :
       mach[id].holder = run /\ mach[id].state = "resolving" /\ mach'[id].state = "idle"
         => state'[run] = "cancelled"]_vars

(* A waiting run leaves the line, unless the flow ahead of it comes to be  *)
(* parked, as at a pause: going on, with nobody advancing it.  Its user    *)
(* steps, continues or cancels it, or a failed run that had been paused is *)
(* still being abandoned.                                                  *)
Parked == FlowRunning(mach, machine) /\ ~RunAdvancing(mach, machine)

WaitingRunLeaves ==
  \A run \in Runs : state[run] = "queued" ~> state[run] # "queued" \/ Parked

(* The runs of a workflow form a line: one is served at a time, the one    *)
(* that waited longest next, and none comes back.                          *)
Line == INSTANCE RunLine WITH active <- inProgress, over <- {r \in Runs : ended[r] > 0}

ImplementsRunLine == Line!LineSpec
=============================================================================
