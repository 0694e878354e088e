------------------------- MODULE ParallelResolution -------------------------
(***************************************************************************)
(* A run's resolution machine (parallel_resolution.py): one driver builds  *)
(* the run's graphs, starts nodes while there are slots, waits for their   *)
(* tasks and lets each finished node release the ones after it.  Requests  *)
(* act on it while the driver is suspended: a node joins a single-node     *)
(* run, the run is paused, continued or cancelled, tasks end.              *)
(*                                                                         *)
(* The event loop is cooperative: between two awaits the driver holds it.  *)
(* drv.at says where the driver is; at a label outside Suspended it holds  *)
(* the loop and nobody else acts.  Publishing an event is no suspension,   *)
(* since the event queue is unbounded, nor is passing a value into a node, *)
(* whose handler is synchronous.                                           *)
(***************************************************************************)
EXTENDS Naturals, DagBuilder

CONSTANTS
  Workflows,  \* the workflows a run may be of (see DagBuilder)
  Capacity,   \* max_nodes_in_parallel
  AfterLoad,  \* whether a node may be resolved below an unresolved one at first
  Requests,   \* the nodes that may be resolved on their own
  FlowRuns,   \* whether a run of the whole flow may be started
  MayPause,   \* whether the run may be paused and continued
  MayCancel   \* whether the run may be cancelled

ASSUME MachineAssumption ==
  /\ Capacity \in Nat \ {0}
  /\ Requests \subseteq Nodes
  /\ {AfterLoad, FlowRuns, MayPause, MayCancel} \subseteq BOOLEAN
  /\ Workflows \subseteq WorkflowShapes

VARIABLES
  shape,    \* the workflow of the run
  state,    \* BaseNode.state of each node
  dag,      \* the workflow's global_dag_builder
  queue,    \* context.node_priority_queue
  swept,    \* context.unresolved_this_run
  task,     \* the tasks of context.task_to_node, "none" for a node without one
  count,    \* context.running_tasks_count
  newWork,  \* context.new_work_event
  cur,      \* the machine's current state
  wfs,      \* context.workflow_state
  failing,  \* whether context.error_message is set
  paused,   \* context.paused
  single,   \* flows.global_single_node_resolution
  drv,      \* the driver: where it is and the locals it holds
  cancel,   \* the cancel request under way: where it is, the tasks it gathers
  orphans,  \* nodes executing in a task no machine holds any more
  late,     \* nodes being validated by a driver whose run was reset
  ran,      \* nodes the run has started executing
  refused,  \* nodes whose request to run on their own was answered with an error
  outdated  \* nodes whose value is from before something they depend on started again

machineVars == <<queue, swept, task, count, newWork, cur, wfs, failing, paused>>
vars == <<shape, state, dag, queue, swept, task, count, newWork, cur, wfs, failing,
          paused, single, drv, cancel, orphans, late, ran, refused, outdated>>

Live == {"running", "cancelling"}
Ended == {"ok", "failed", "cancelled"}
Suspended == {"idle", "validating", "waiting", "parked", "reaping"}
Holding == {"seed", "update", "sinks", "drain", "pop", "popping", "failing", "error"}

Mapped == {n \in Nodes : task[n] # "none"}
Finished == {n \in Nodes : task[n] \in Ended}
Running == cur \in {"dag", "error"}
Executing == {n \in Nodes : task[n] \in Live} \cup orphans

TypeOK ==
  /\ shape \in WorkflowShapes
  /\ state \in [Nodes -> {"unresolved", "resolving", "resolved"}]
  /\ dag \in Dags
  /\ queue \subseteq Nodes /\ swept \subseteq Nodes
  /\ task \in [Nodes -> {"none"} \cup Live \cup Ended]
  /\ count \in 0..Capacity
  /\ newWork \in BOOLEAN /\ failing \in BOOLEAN /\ paused \in BOOLEAN /\ single \in BOOLEAN
  /\ cur \in {"none", "dag", "error", "complete"}
  /\ wfs \in {"no_error", "complete", "errored", "canceled"}
  /\ drv \in [at : Suspended \cup Holding, node : Graphs, todo : SUBSET Graphs,
              leaves : SUBSET Nodes, starts : SUBSET Nodes]
  /\ cancel \in [at : {"none", "asking", "gathering"}, nodes : SUBSET Nodes]
  /\ orphans \subseteq Nodes /\ late \subseteq Nodes
  /\ ran \subseteq Nodes /\ refused \subseteq Nodes /\ outdated \subseteq Nodes

Rest == [at |-> "idle", node |-> DefaultGraph, todo |-> {}, leaves |-> {}, starts |-> {}]
GoTo(label) == drv' = [Rest EXCEPT !.at = label]
NoCancel == [at |-> "none", nodes |-> {}]
Others == drv.at \in Suspended

Init ==
  /\ shape \in Workflows
  /\ state \in [Nodes -> {"unresolved", "resolved"}]
  /\ AfterLoad \/ \A e \in shape.feeds : state[e[1]] = "unresolved" => state[e[2]] = "unresolved"
  /\ dag = EmptyDag
  /\ queue = {} /\ swept = {}
  /\ task = [n \in Nodes |-> "none"]
  /\ count = 0
  /\ newWork = FALSE /\ failing = FALSE /\ paused = FALSE /\ single = FALSE
  /\ cur = "none" /\ wfs = "no_error"
  /\ drv = Rest /\ cancel = NoCancel
  /\ orphans = {} /\ late = {} /\ ran = {} /\ refused = {} /\ outdated = {}

-----------------------------------------------------------------------------
(* What the actions are built from.                                        *)

(* The data connections a walk upstream follows, given the nodes' states.  *)
Needed(st) == {e \in shape.feeds : st[e[1]] # "resolved"}

(* The data connections a value passes along: a locked node keeps its own. *)
Flowing == {e \in shape.feeds : e[2] \notin shape.locked}

Unresolved(st, S) == [n \in Nodes |-> IF n \in S THEN "unresolved" ELSE st[n]]

(* A node that did not finish is given back when its run ends.             *)
LeftResolving(st) == st  \* a broken variant: it stays RESOLVING
GivenBack(st) == Unresolved(st, {n \in Recorded(dag) : st[n] = "resolving"})

(* connections.unresolve_future_nodes: the nodes the walk descends to and  *)
(* the RESOLVED ones it marks, none when n itself was already visited.     *)
Walk(n, visited) ==
  IF n \in visited THEN {} ELSE Reach({e \in shape.feeds : e[2] \notin visited}, {n})
MarkNone(st, walk) == {}  \* a broken variant: nothing becomes stale
Marked(st, walk) ==
  {n \in Nodes : st[n] = "resolved" /\ \E m \in walk : <<m, n>> \in shape.feeds}

(* ExecuteDagState.add_and_queue_nodes for n in graph g.                   *)
AddAndQueue(d, st, n, g) ==
  LET S == NewNodes(d, Needed(st), n) \cup {n}
      added == Add(d, Needed(st), n, g)
  IN /\ dag' = TryQueue(added, shape, S)
     /\ queue' = queue \cup Queueable(added, shape, S)

(* A slot is free.                                                         *)
RoomForOneMore == count <= Capacity  \* a broken variant: off by one
Room == count < Capacity

(* The machine _make_control_flow_machine makes for a new run.             *)
NewMachine ==
  /\ ~Running /\ drv.at = "idle" /\ cancel = NoCancel
  /\ queue' = {} /\ swept' = {} /\ count' = 0
  /\ task' = [n \in Nodes |-> "none"]
  /\ newWork' = FALSE /\ failing' = FALSE /\ paused' = FALSE
  /\ cur' = "dag" /\ wfs' = "no_error"
  /\ ran' = {}
  /\ UNCHANGED <<shape, cancel, orphans, late, outdated>>

(* DagCompleteState: the run is over, its graphs are cleared.              *)
Complete(outcome) ==
  /\ cur' = "complete" /\ wfs' = outcome
  /\ dag' = EmptyDag
  /\ single' = FALSE
  /\ drv' = Rest

(* A node could not be started: the run fails.                             *)
Fail ==
  /\ failing' = TRUE /\ wfs' = "errored"
  /\ GoTo("failing")

-----------------------------------------------------------------------------
(* Starting a run.                                                         *)

(* start_flow: the first node in the queue of start nodes is the root of   *)
(* the first graph, the others are seeded after it.                        *)
StartFlow(n) ==
  /\ FlowRuns
  /\ NewMachine
  /\ n \in IF Entries(shape) = {} THEN Sinks(shape) ELSE Entries(shape)
  /\ dag' = Add(dag, Needed(state), n, n)
  /\ drv' = [Rest EXCEPT !.at = "seed", !.starts = {n},
                         !.todo = (Entries(shape) \cup Sinks(shape)) \ {n}]
  /\ single' = FALSE
  /\ UNCHANGED <<state, refused>>

(* resolve_singular_node when nothing runs: n's graph is the default one,  *)
(* start_flow then makes an empty one named after n.                       *)
ResolveNode(n) ==
  /\ NewMachine
  /\ state' = Unresolved(state, Marked(state, Walk(n, {})) \cup {n})
  /\ dag' = Add(Add(dag, Needed(state'), n, DefaultGraph), Needed(state'), n, n)
  /\ drv' = [Rest EXCEPT !.at = "seed", !.starts = {n}]
  /\ single' = TRUE
  /\ refused' = refused \ {n}

(* _seed_dag_from_categories, pass 1: an entry node no walk has recorded   *)
(* yet becomes the root of a graph of its own.                             *)
SeedEntry(n) ==
  /\ drv.at = "seed" /\ n \in drv.todo \cap Entries(shape)
  /\ state' = Unresolved(state, {n})
  /\ IF n \in Recorded(dag)
     THEN /\ drv' = [drv EXCEPT !.todo = @ \ {n}]
          /\ UNCHANGED dag
     ELSE /\ drv' = [drv EXCEPT !.todo = @ \ {n}, !.starts = @ \cup {n}]
          /\ dag' = Add(dag, Needed(state), n, n)
  /\ UNCHANGED <<shape, machineVars, single, cancel, orphans, late, ran, refused, outdated>>

(* Everything the control walk from the start nodes will run again, and    *)
(* what any of it feeds.                                                   *)
MayBeStale == Reach(shape.feeds, Reach(shape.wires, drv.starts))

(* A broken variant: a sink that is put off is forgotten.                  *)
PutOffForever(n) == IF n \in Recorded(dag) \cup MayBeStale THEN dag
                    ELSE Add(dag, Needed(state), n, n)

(* Pass 2: a sink below the control path is put off until it is done.      *)
Seeded(n) ==
  IF n \in Recorded(dag) THEN dag
  ELSE IF n \in MayBeStale THEN [dag EXCEPT !.deferred = @ \cup {n}]
  ELSE Add(dag, Needed(state), n, n)

SeedSink(n) ==
  /\ drv.at = "seed" /\ n \in drv.todo
  /\ drv.todo \cap Entries(shape) = {}
  /\ state' = Unresolved(state, {n})
  /\ drv' = [drv EXCEPT !.todo = @ \ {n}]
  /\ dag' = Seeded(n)
  /\ UNCHANGED <<shape, machineVars, single, cancel, orphans, late, ran, refused, outdated>>

(* ResolveNodeState prepares the start nodes; ExecuteDagState.on_enter     *)
(* queues what is ready.                                                   *)
EnterDag ==
  /\ drv.at = "seed" /\ drv.todo = {}
  /\ state' = Unresolved(state, drv.starts \ shape.locked)
  /\ LET S == {n \in Nodes : dag.ref[n] = "waiting"}
     IN /\ dag' = TryQueue(dag, shape, S)
        /\ queue' = queue \cup Queueable(dag, shape, S)
  /\ GoTo("update")
  /\ UNCHANGED <<shape, swept, task, count, newWork, cur, wfs, failing, paused, single,
                 cancel, orphans, late, ran, refused, outdated>>

-----------------------------------------------------------------------------
(* ExecuteDagState.on_update, from its start to the wait.                  *)

Canceled == {n \in AllLeaves(dag) : dag.ref[n] = "canceled"}

(* The run is over when no graph has a node left, or only canceled ones    *)
(* could go next; deferred sinks are seeded first.                         *)
Update ==
  /\ drv.at = "update"
  /\ IF paused
     THEN /\ drv' = Rest
          /\ UNCHANGED <<dag, newWork, cur, wfs, single>>
     ELSE IF AllLeaves(dag) = {} /\ dag.deferred # {}
     THEN /\ GoTo("sinks")
          /\ UNCHANGED <<dag, newWork, cur, wfs, single>>
     ELSE IF Canceled = AllLeaves(dag)
     THEN /\ Complete(IF AllLeaves(dag) = {} THEN "complete" ELSE "canceled")
          /\ UNCHANGED newWork
     ELSE /\ newWork' = FALSE
          /\ GoTo("drain")
          /\ UNCHANGED <<dag, cur, wfs, single>>
  /\ UNCHANGED <<shape, state, queue, swept, task, count, failing, paused,
                 cancel, orphans, late, ran, refused, outdated>>

(* _seed_deferred_data_sinks, one sink after another.                      *)
SeedDeferred(n) ==
  /\ drv.at = "sinks" /\ n \in dag.deferred
  /\ LET rest == [dag EXCEPT !.deferred = @ \ {n}]
     IN IF n \in Recorded(dag) THEN dag' = rest /\ UNCHANGED queue
        ELSE AddAndQueue(rest, state, n, n)
  /\ GoTo(IF dag.deferred = {n} THEN "update" ELSE "sinks")
  /\ UNCHANGED <<shape, state, swept, task, count, newWork, cur, wfs, failing, paused,
                 single, cancel, orphans, late, ran, refused, outdated>>

(* A node is taken off the queue and its slot counted before its           *)
(* validation, which runs in a thread.  Any queued node may be the next:   *)
(* the priority heuristics are left out.                                   *)
Take(n) ==
  /\ drv.at = "drain" /\ Room
  /\ n \in queue \cap Recorded(dag)
  /\ queue' = (queue \cap Recorded(dag)) \ {n}
  /\ count' = count + 1
  /\ drv' = [Rest EXCEPT !.at = "validating", !.node = n]
  /\ outdated' = IF \E e \in Flowing : e[2] = n /\ e[1] \in outdated
                 THEN outdated ELSE outdated \ {n}
  /\ UNCHANGED <<shape, state, dag, swept, task, newWork, cur, wfs, failing, paused,
                 single, cancel, orphans, late, ran, refused>>

(* Passing the node its inputs failed; its slot was given back.            *)
CollectFails(n) ==
  /\ drv.at = "drain" /\ Room
  /\ n \in queue \cap Recorded(dag)
  /\ queue' = (queue \cap Recorded(dag)) \ {n}
  /\ Fail
  /\ UNCHANGED <<shape, state, dag, swept, task, count, newWork, cur, paused,
                 single, cancel, orphans, late, ran, refused, outdated>>

(* No slot or nothing queued: wait for a task or new work, or, with no     *)
(* task to wait for, for a short while.                                    *)
Wait ==
  /\ drv.at = "drain"
  /\ ~Room \/ queue \cap Recorded(dag) = {}
  /\ queue' = IF Room THEN {} ELSE queue
  /\ GoTo(IF Mapped = {} THEN "parked" ELSE "waiting")
  /\ UNCHANGED <<shape, state, dag, swept, task, count, newWork, cur, wfs, failing, paused,
                 single, cancel, orphans, late, ran, refused, outdated>>

(* The validated node is dispatched: what it feeds is marked stale, its    *)
(* task is created.                                                        *)
Dispatch ==
  /\ drv.at = "validating"
  /\ LET n == drv.node
         walk == Walk(n, swept)
     IN /\ dag' = [dag EXCEPT !.ref[n] = "processing"]
        /\ swept' = swept \cup walk
        /\ state' = [Unresolved(state, Marked(state, walk)) EXCEPT ![n] = "resolving"]
        /\ task' = [task EXCEPT ![n] = "running"]
        /\ ran' = ran \cup {n}
        /\ outdated' = outdated \cup (Reach(Flowing, {n}) \ {n})
  /\ GoTo("drain")
  /\ UNCHANGED <<shape, queue, count, newWork, cur, wfs, failing, paused, single, cancel,
                 orphans, late, refused>>

(* A broken variant: the slot is not given back. *)
ValidationFailsKeepingSlot ==
  /\ drv.at = "validating"
  /\ Fail
  /\ UNCHANGED <<shape, state, dag, queue, swept, task, count, newWork, cur, paused, single,
                 cancel, orphans, late, ran, refused, outdated>>

ValidationFails ==
  /\ drv.at = "validating"
  /\ count' = count - 1
  /\ Fail
  /\ UNCHANGED <<shape, state, dag, queue, swept, task, newWork, cur, paused, single,
                 cancel, orphans, late, ran, refused, outdated>>

-----------------------------------------------------------------------------
(* ExecuteDagState.on_update, from the wait on.                            *)

AwakeOnFinish == Finished # {}  \* a broken variant: new work wakes nobody
Awake == newWork \/ Finished # {}

(* A failed or cancelled task is taken before any other and ends the       *)
(* update; the rest stays in the task map.                                 *)
WakeToFailure(n) ==
  /\ drv.at = "waiting" /\ Awake
  /\ task[n] \in {"failed", "cancelled"}
  /\ task' = [task EXCEPT ![n] = "none"]
  /\ count' = count - 1
  /\ IF task[n] = "failed"
     THEN /\ dag' = [dag EXCEPT !.ref[n] = "errored"]
          /\ Fail
     ELSE /\ dag' = [dag EXCEPT !.ref[n] = "canceled"]
          /\ GoTo("failing")
          /\ UNCHANGED <<wfs, failing>>
  /\ UNCHANGED <<shape, state, queue, swept, newWork, cur, paused, single, cancel,
                 orphans, late, ran, refused, outdated>>

StartPop == drv' = [Rest EXCEPT !.at = "pop", !.todo = dag.nets]

Wake ==
  /\ drv.at = "waiting" /\ Awake
  /\ \A n \in Finished : task[n] = "ok"
  /\ task' = [n \in Nodes |-> IF n \in Finished THEN "none" ELSE task[n]]
  /\ count' = count - Cardinality(Finished)
  /\ dag' = [dag EXCEPT !.ref = [n \in Nodes |-> IF n \in Finished THEN "done" ELSE @[n]]]
  /\ StartPop
  /\ UNCHANGED <<shape, state, queue, swept, newWork, cur, wfs, failing, paused, single,
                 cancel, orphans, late, ran, refused, outdated>>

(* The idle wait ends after _IDLE_RECHECK_SECONDS, or when work arrives.   *)
Recheck ==
  /\ drv.at = "parked"
  /\ StartPop
  /\ UNCHANGED <<shape, state, dag, machineVars, single, cancel, orphans, late, ran, refused, outdated>>

(* pop_done_states visits the graphs there were when it began.             *)
PopGraph(g) ==
  /\ drv.at = "pop" /\ g \in drv.todo
  /\ drv' = [drv EXCEPT !.at = "popping", !.node = g, !.todo = @ \ {g},
                        !.leaves = Leaves(dag, g)]
  /\ UNCHANGED <<shape, state, dag, machineVars, single, cancel, orphans, late, ran, refused, outdated>>

IsDone(n) == n \in Recorded(dag) /\ (n \in shape.locked \/ dag.ref[n] = "done")

(* get_next_control_graph.  Control may end at any node: it was only there *)
(* to supply data, is resolved on its own, stops the flow, has no next     *)
(* output or nothing connected to it.  Or it goes on to one of the nodes   *)
(* the node is wired to.                                                   *)
ControlEnds(d, st, n) ==
  /\ dag' = d
  /\ state' = st
  /\ queue' = queue \ {n}

ControlGoesOn(d, st, n, next, g) ==
  LET ready == Unresolved(st, {next} \ shape.locked)
      S == NewNodes(d, Needed(ready), next) \cup {next}
      added == Add(d, Needed(ready), next, g)
  IN /\ state' = ready
     /\ dag' = TryQueue(added, shape, S)
     /\ queue' = (queue \ {n}) \cup Queueable(added, shape, S)

Advance(d, st, n, g) ==
  IF single
  THEN ControlEnds(IF d.members[g] = {} THEN CleanUp(d, g) ELSE d, st, n)
  ELSE \/ ControlEnds(d, st, n)
       \/ \E e \in shape.wires :
            /\ e[1] = n /\ n \notin d.dataOnly
            /\ ControlGoesOn(d, st, n, e[2], g)

(* A finished leaf leaves every graph and is handled (handle_done_nodes).  *)
PopNode(n) ==
  /\ drv.at = "popping" /\ n \in drv.leaves /\ IsDone(n)
  /\ drv' = [drv EXCEPT !.leaves = @ \ {n}]
  /\ swept' = swept \ {n}
  /\ LET freed == Release([dag EXCEPT !.ref[n] = "done"], n)
     IN IF state[n] = "resolved" /\ n \notin shape.locked
        THEN /\ dag' = freed
             /\ queue' = queue \ {n}
             /\ UNCHANGED state
        ELSE Advance(freed, [state EXCEPT ![n] = "resolved"], n, drv.node)
  /\ UNCHANGED <<shape, task, count, newWork, cur, wfs, failing, paused, single, cancel,
                 orphans, late, ran, refused, outdated>>

(* A broken variant: no leaf is queued. *)
LeaveGraphUnqueued ==
  /\ drv.at = "popping"
  /\ \A n \in drv.leaves : ~IsDone(n)
  /\ drv' = [Rest EXCEPT !.at = "pop", !.todo = drv.todo]
  /\ UNCHANGED <<shape, state, dag, machineVars, single, cancel, orphans, late, ran, refused, outdated>>

(* The graph's leaves that are ready are queued before the next graph.     *)
LeaveGraph ==
  /\ drv.at = "popping"
  /\ \A n \in drv.leaves : ~IsDone(n)
  /\ LET S == Leaves(dag, drv.node)
     IN /\ dag' = TryQueue(dag, shape, S)
        /\ queue' = queue \cup Queueable(dag, shape, S)
  /\ drv' = [Rest EXCEPT !.at = "pop", !.todo = drv.todo]
  /\ UNCHANGED <<shape, state, swept, task, count, newWork, cur, wfs, failing, paused,
                 single, cancel, orphans, late, ran, refused, outdated>>

PopEnds ==
  /\ drv.at = "pop" /\ drv.todo = {}
  /\ GoTo(IF paused THEN "idle" ELSE "update")
  /\ UNCHANGED <<shape, state, dag, machineVars, single, cancel, orphans, late, ran, refused, outdated>>

-----------------------------------------------------------------------------
(* ErrorState.                                                             *)

EveryRunning == {n \in Nodes : task[n] = "running"}  \* a broken variant: a failure cancels too
ToCancel == IF failing THEN {} ELSE EveryRunning

(* Nothing queued starts any more.  Without an error message the run is    *)
(* being cancelled, and its other tasks with it.                           *)
EnterError ==
  /\ drv.at = "failing"
  /\ cur' = "error"
  /\ queue' = {n \in queue : dag.ref[n] # "queued"}
  /\ dag' = [dag EXCEPT !.ref = [n \in Nodes |-> IF @[n] = "queued" THEN "canceled" ELSE @[n]]]
  /\ task' = [n \in Nodes |-> IF n \in ToCancel THEN "cancelling" ELSE task[n]]
  /\ GoTo("error")
  /\ UNCHANGED <<shape, state, swept, count, newWork, wfs, failing, paused, single, cancel,
                 orphans, late, ran, refused, outdated>>

ErrorWaits ==
  /\ drv.at = "error" /\ Mapped # {} /\ Finished = {}
  /\ newWork' = FALSE
  /\ GoTo("reaping")
  /\ UNCHANGED <<shape, state, dag, queue, swept, task, count, cur, wfs, failing, paused,
                 single, cancel, orphans, late, ran, refused, outdated>>

ErrorWakes ==
  /\ drv.at = "reaping" /\ Awake
  /\ GoTo("error")
  /\ UNCHANGED <<shape, state, dag, machineVars, single, cancel, orphans, late, ran, refused, outdated>>

Reaped(n) ==
  CASE task[n] = "ok" -> "done"
    [] task[n] = "failed" -> "errored"
    [] task[n] = "cancelled" -> "canceled"

(* Finished tasks are reaped, the ones that succeeded are published.  With *)
(* the last one the run ends, and what did not finish is given back.       *)
ErrorReaps ==
  /\ drv.at = "error" /\ (Mapped = {} \/ Finished # {})
  /\ task' = [n \in Nodes |-> IF n \in Finished THEN "none" ELSE task[n]]
  /\ count' = count - Cardinality(Finished)
  /\ LET published == {n \in Finished : task[n] = "ok"}
         after == [n \in Nodes |-> IF n \in published THEN "resolved" ELSE state[n]]
     IN IF Mapped \subseteq Finished
        THEN /\ state' = GivenBack(after)
             /\ Complete(IF failing THEN "errored" ELSE "canceled")
        ELSE /\ state' = after
             /\ dag' = [dag EXCEPT !.ref =
                          [n \in Nodes |-> IF n \in Finished THEN Reaped(n) ELSE @[n]]]
             /\ GoTo("error")
             /\ UNCHANGED <<cur, wfs, single>>
  /\ UNCHANGED <<shape, queue, swept, newWork, failing, paused, cancel,
                 orphans, late, ran, refused, outdated>>

-----------------------------------------------------------------------------
(* What happens while the driver is suspended.                             *)

(* A node's execution ends.  One asked to cancel may end in any way.       *)
TaskEnds(n) ==
  /\ Others /\ task[n] \in Live
  /\ \E end \in IF task[n] = "running" THEN {"ok", "failed"} ELSE Ended :
       task' = [task EXCEPT ![n] = end]
  /\ UNCHANGED <<shape, state, dag, queue, swept, count, newWork, cur, wfs, failing, paused,
                 single, drv, cancel, orphans, late, ran, refused, outdated>>

OrphanEnds(n) ==
  /\ Others /\ n \in orphans
  /\ orphans' = orphans \ {n}
  /\ UNCHANGED <<shape, state, dag, machineVars, single, drv, cancel, late, ran, refused, outdated>>

(* execute_resolve_node and inject_node: n joins the single-node run.      *)
(* Unless a failed run is ending, or n is in its graphs.                   *)
Join(n) ==
  /\ Others /\ cur = "dag" /\ single
  /\ n \notin Recorded(dag)
  /\ state' = Unresolved(state, Marked(state, Walk(n, {})) \cup ({n} \ shape.locked))
  /\ IF AddRaises(dag, n, n)
     THEN /\ dag' = AddRaised(dag, n, n)
          /\ refused' = refused \cup {n}
          /\ UNCHANGED <<queue, newWork>>
     ELSE /\ AddAndQueue(dag, state', n, n)
          /\ newWork' = TRUE
          /\ refused' = refused \ {n}
  /\ UNCHANGED <<shape, swept, task, count, cur, wfs, failing, paused, single, drv, cancel,
                 orphans, late, ran, outdated>>

(* A node whose dependencies do not validate is refused, but what it feeds *)
(* is marked stale first.                                                  *)
ResolveInvalid(n) ==
  /\ Others
  /\ (cur = "dag" /\ single) \/ (~Running /\ drv.at = "idle" /\ cancel = NoCancel)
  /\ n \notin Recorded(dag)
  /\ state' = Unresolved(state, Marked(state, Walk(n, {})))
  /\ UNCHANGED <<shape, dag, machineVars, single, drv, cancel, orphans, late, ran, refused, outdated>>

(* A step request pauses the run, which its driver sees between updates.   *)
Pause ==
  /\ MayPause /\ Others /\ Running /\ ~paused
  /\ paused' = TRUE
  /\ UNCHANGED <<shape, state, dag, queue, swept, task, count, newWork, cur, wfs, failing,
                 single, drv, cancel, orphans, late, ran, refused, outdated>>

(* Continuing drives the run unless its driver has not stopped yet.        *)
Continue ==
  /\ Others /\ Running /\ paused
  /\ paused' = FALSE
  /\ IF drv.at = "idle" THEN GoTo(IF cur = "dag" THEN "update" ELSE "error")
     ELSE UNCHANGED drv
  /\ UNCHANGED <<shape, state, dag, queue, swept, task, count, newWork, cur, wfs, failing,
                 single, cancel, orphans, late, ran, refused, outdated>>

(* _cancel_run: the nodes' cancellation flags are set, then workers are    *)
(* told, which suspends.                                                   *)
CancelRun ==
  /\ MayCancel /\ Others /\ Running /\ cancel = NoCancel
  /\ cancel' = [NoCancel EXCEPT !.at = "asking"]
  /\ UNCHANGED <<shape, state, dag, machineVars, single, drv, orphans, late, ran, refused, outdated>>

(* ParallelResolutionContext.reset(cancel=True): the run is torn down, its *)
(* driver abandons it on waking, tasks still executing go on unheld.       *)
Reset ==
  /\ orphans' = orphans \cup {n \in Nodes : task[n] \in Live}
  /\ late' = IF drv.at = "validating" THEN late \cup {drv.node} ELSE late
  /\ state' = GivenBack(state)
  /\ task' = [n \in Nodes |-> "none"]
  /\ dag' = EmptyDag
  /\ queue' = {} /\ swept' = {} /\ count' = 0
  /\ newWork' = TRUE /\ paused' = FALSE /\ single' = FALSE
  /\ cur' = "none" /\ wfs' = "canceled"
  /\ drv' = Rest /\ cancel' = NoCancel
  /\ UNCHANGED <<shape, failing, ran, refused, outdated>>

(* cancel_all_nodes cancels the tasks there are and gathers them, which    *)
(* does not suspend when there are none; telling a worker may raise.       *)
CancelTasks ==
  /\ Others /\ cancel.at = "asking"
  /\ IF Mapped = {} THEN Reset
     ELSE /\ task' = [n \in Nodes |-> IF task[n] = "running" THEN "cancelling" ELSE task[n]]
          /\ cancel' = [at |-> "gathering", nodes |-> Mapped]
          /\ UNCHANGED <<shape, state, dag, queue, swept, count, newWork, cur, wfs, failing,
                         paused, single, drv, orphans, late, ran, refused, outdated>>

CancelRaises ==
  /\ Others /\ cancel.at = "asking"
  /\ cancel' = NoCancel
  /\ UNCHANGED <<shape, state, dag, machineVars, single, drv, orphans, late, ran, refused, outdated>>

Gathered == {n \in cancel.nodes : task[n] \notin Live}

CancelEnds ==
  /\ Others /\ cancel.at = "gathering"
  /\ cancel.nodes = Gathered
  /\ Reset

(* A driver whose run was reset sees it when the validation returns, and   *)
(* starts nothing.                                                         *)
ValidatedLate(n) ==
  /\ Others /\ n \in late
  /\ late' = late \ {n}
  /\ UNCHANGED <<shape, state, dag, machineVars, single, drv, cancel, orphans, ran, refused, outdated>>

-----------------------------------------------------------------------------
Driver ==
  \/ \E n \in Nodes : SeedEntry(n) \/ SeedSink(n) \/ SeedDeferred(n)
  \/ EnterDag \/ Update
  \/ \E n \in Nodes : Take(n) \/ CollectFails(n) \/ WakeToFailure(n) \/ PopNode(n)
  \/ Wait \/ Dispatch \/ ValidationFails \/ Wake \/ Recheck
  \/ \E g \in Graphs : PopGraph(g)
  \/ LeaveGraph \/ PopEnds
  \/ EnterError \/ ErrorWaits \/ ErrorWakes \/ ErrorReaps

Canceller == CancelTasks \/ CancelRaises \/ CancelEnds

Next ==
  \/ Driver \/ Canceller
  \/ \E n \in Nodes : StartFlow(n) \/ TaskEnds(n) \/ OrphanEnds(n) \/ ValidatedLate(n)
  \/ \E n \in Requests : ResolveNode(n) \/ Join(n) \/ ResolveInvalid(n)
  \/ Pause \/ Continue \/ CancelRun

(* The event loop runs the driver and the canceller on, and every node's   *)
(* execution ends some time, which the node's library must provide.        *)
Fairness ==
  /\ WF_vars(Driver) /\ WF_vars(Canceller)
  /\ \A n \in Nodes : WF_vars(TaskEnds(n))

Spec == Init /\ [][Next]_vars /\ Fairness

-----------------------------------------------------------------------------
(* Properties.                                                             *)

Starts(n) == task[n] = "none" /\ task'[n] = "running"
FlowRun == ~single

(* running_tasks_count is always the tasks the machine holds and the node  *)
(* it is about to start: no failure, cancel or reset loses or leaks a slot *)
(* (ParallelResolutionContext.running_tasks_count).                        *)
SlotsBalance ==
  count = Cardinality(Mapped) + (IF drv.at = "validating" THEN 1 ELSE 0)

(* A run of a flow starts no node twice, whichever graphs it stands in and *)
(* however often control or data reaches it.                               *)
OncePerRun == [][\A n \in Nodes : Starts(n) /\ FlowRun => n \notin ran]_vars

(* A node starts with every input it reads resolved or frozen by a lock.   *)
InputsResolved ==
  [][\A n \in Nodes : Starts(n) =>
       \A e \in shape.feeds :
         e[2] = n /\ e[1] \notin shape.locked => state[e[1]] = "resolved"]_vars

(* A node shown as resolved was computed from the latest values of all it  *)
(* depends on, whatever ran again, joined or failed meanwhile ("anything   *)
(* resolved against its previous outputs is stale").                       *)
ResolvedIsFresh == \A n \in outdated : state[n] # "resolved"

(* However a run ends, no task of it is left in the machine, no slot is    *)
(* taken and no node goes on showing that it is executing.                 *)
EndsClean ==
  ~Running => Mapped = {} /\ count = 0 /\ \A n \in Nodes : state[n] # "resolving"

(* No node that is finished is handled as finished again                   *)
(* (handle_done_nodes: "shouldn't happen").                                *)
NoDuplicateCompletion ==
  drv.at = "popping" =>
    \A n \in drv.leaves \ shape.locked : IsDone(n) => state[n] # "resolved"

(* A run of a flow that completes ran everything it was seeded with and    *)
(* everything that came into its graphs, by control or to supply data: no  *)
(* branch of work is dropped without a word.  What it ran stands: nothing  *)
(* was made stale after it ran and left that way.                          *)
Completing == FlowRun /\ Running /\ cur' = "complete" /\ wfs' = "complete"
RunsWholeFlow ==
  [][Completing =>
       /\ Entries(shape) \cup Sinks(shape) \cup Recorded(dag) \subseteq ran \cup shape.locked
       /\ \A n \in ran : state[n] = "resolved"]_vars

(* A failed node stops the run, but the nodes that run beside it finish:   *)
(* nothing starts and nothing is cancelled by it.                          *)
FailureSparesRunning ==
  [][failing /\ cancel = NoCancel =>
       \A n \in Nodes : ~Starts(n) /\ (task[n] = "running" => task'[n] # "cancelling")]_vars

(* A run that is not paused ends.                                          *)
RunEnds == Running ~> ~Running \/ paused

(* A queued node starts when a slot is free, even if no node that runs     *)
(* ever finishes: no wakeup is lost between the requests that queue nodes  *)
(* and the driver that waits (signal_new_work).  The driver alone is fair. *)
DriverSpec == Init /\ [][Next]_vars /\ WF_vars(Driver)
QueuedNodeStarts ==
  \A n \in Nodes : n \in queue /\ count < Capacity /\ cur = "dag"
                     ~> n \notin queue \/ count = Capacity \/ paused

(* A node refused to run on its own does not run.                          *)
RefusedNeverRuns == [][\A n \in refused : ~Starts(n)]_vars

(* A cancelled run leaves nothing executing.                               *)
CancelStopsAll == ~Running => orphans = {}

(* What the machine shows of an evaluation.                                *)
Current == {n \in Nodes : state[n] = "resolved"}
Busy == {n \in Nodes : task[n] \in Live}
Stage == IF ~Running THEN "off" ELSE IF failing THEN "failed" ELSE "going"
Eval == INSTANCE Evaluation
          WITH flow <- shape, current <- Current, started <- ran, busy <- Busy, stage <- Stage

(* A run of the flow is an evaluation of the workflow in the order of its  *)
(* data, whatever order its graphs, tasks and requests come in             *)
(* (ControlFlowMachine.start_flow).                                        *)
ImplementsEvaluation == Eval!EvalSpec
=============================================================================
