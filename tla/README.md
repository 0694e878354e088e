# Verification of the griptape-nodes engine

TLA+ models of the engine that runs workflows, TLC configurations that check
them on small instances, and TLAPS proofs. The models are written from the
code under `src/src/griptape_nodes/`; paths below are relative to that
directory unless they start with `docs/` (`src/docs/`). `FM` stands for
`retained_mode/managers/flow_manager.py`, `PR` for
`machines/parallel_resolution.py`, `DB` for `machines/dag_builder.py`, `WM`
for `retained_mode/managers/worker_manager.py`, `RM` for
`retained_mode/managers/resource_manager.py` and `RC` for
`api_client/request_client.py`.

```
tlc -workers 2 -config RunLifecycle_core.cfg MCRunLifecycle
tlc -workers 2 -config ParallelResolution_flow.cfg MCParallelResolution
tlc -workers 2 -config EngineLeases_leases.cfg MCEngineLeases
tlc -workers 2 -config LocalObjects_objects.cfg MCLocalObjects
tlc -workers 2 -config Workers_workers.cfg MCWorkers
tlapm RunLifecycleProofs.tla
tlapm ParallelResolutionProofs.tla
tlapm ParallelResolutionInputsProofs.tla
tlapm EvaluationProofs.tla
tlapm EngineLeasesProofs.tla
tlapm EngineLeasesGrantProofs.tla
tlapm LocalObjectsProofs.tla
tlapm WorkersProofs.tla
```

## 1. The system

An engine holds open workflows. Requests arrive from an editor, scripts, MCP
clients and other engines, and are handled on the engine's event loop. The
loop is cooperative: a handler runs until it awaits, and every await is a
point where any other request may run. Nodes run as asyncio tasks, their
checks in threads, some of them in worker processes or on other engines.

### Components

| component | state | operations | what is hard |
|---|---|---|---|
| **Run queue and run lifecycle** (FM, `managers/run_queue.py`, `runtime/flows.py`) | the line of waiting runs, the run in progress, its driver task, the workflow's current machine, the flag that holds new runs back | submit, drive, pause, step, continue, cancel one or all, delete a flow, close the workflow | a run ends from six handlers; cancels and deletions arrive while a driver is suspended; a handler reads the current machine again after an await |
| **Parallel resolution** (PR, DB, `machines/control_flow.py`, `machines/node_priority_queue.py`, `machines/fsm.py`) | the run's graphs, a state per node, the queue, the tasks, the slot count, the set of nodes already marked stale | start and seed a run, take and validate a node, dispatch, wait, complete and release, advance control, join, fail, cancel, reset | tasks end in any order; a node stands in several graphs; nodes join while the driver is suspended; a driver outlives its run |
| **Engine leases and engine runs** (WM 1014-1125, 1502-1561, 1894-2240) | the leases an engine holds elsewhere, the engine runs a host keeps for others, their line, the sessions registered | offer and withdraw a session, acquire, wait in line, hand over, check before a node, release with retries, hear of a lost connection | the two sides learn of everything late or never; the host's driver suspends in the hand-over; a withdrawal travels while the next offer is answered |
| **Worker processes** (WM 457-960, 1174-1204, 1270-1410, 2324-2475, `managers/library/workers.py`) | spawn claims, start requests, processes, registrations, heartbeats, readiness gates | start, spawn, register, report a load, say goodbye, challenge, evict, reset, reload, wait until executable | every table is read before an await and used after it; forks, exits, evictions, resets and reloads overlap |
| **Request client** (RC) | pending requests, abandoned ones | send, settle, time out, cancel, fail by tag | settled on one loop while abandoned on another |
| **Local object store** (RM 399-800, `exe_types/local_objects.py`) | entries, slots, deferred release hooks | put, park, get, drop one or a workflow's or a library's, drain | hooks run once per object, on any thread, held back while nodes execute |
| **Connections** (`exe_types/connections.py`) | connections and their indexes | connect, disconnect, walks | walks over states that change while a run goes on |
| **Open workflows** (`runtime/open_workflow_set.py`, `runtime/worker_workflow_set.py`, `retained_mode/engine.py`) | open workflows, ids that moved | open, close, move | an id reused after it moved |
| **Keyed mutex** (`utils/keyed_mutex.py`) | a lock per key, its users | lock, wait, drop | the last user drops the lock while another arrives |
| **Event manager** (`managers/event_manager.py`) | subscriptions, post-dispatch hooks | dispatch, from other threads too | hooks and scopes around an await |

The remaining parts (nodes and parameters, iterative nodes, libraries,
workflows on disk, serialization, projects, files, configuration, agents,
artifacts, macros, budgets, variables, sessions, cloud sync, bootstrap,
diagnostics) are listed in `PROJECT.json` with the reason each is left out:
sequential editing of data, parsing, or input and output.

### How they interact

A request to run something becomes a `Run` (`run_queue.py`). FlowManager puts
it in the workflow's line and, when nothing is in progress, creates its driver
task (`_drive`). The driver validates the flow, makes a control flow machine
(`_make_control_flow_machine`) and awaits it. The machine seeds the run's
graphs (`_seed_dag_from_categories`) and advances its resolution machine
through `ExecuteDagState`, `ErrorState` and `DagCompleteState` (`fsm.py`), each
awaiting node tasks. Other requests reach the same objects: step and continue
advance the machine themselves, cancel and delete reset it, resolving a node
adds it to the graphs of a single-node run in progress. The driver recognises
a reset by the context's generation and abandons the run.

A node of a library that runs in a worker is routed there: the node waits for
the library's readiness gate (`wait_until_executable`), the worker registered
first is picked, and the request is tracked in the RequestClient under the
worker's tag, so that an eviction, a reset or a reload can fail it. If the
worker runs on another engine, the node's run first acquires a lease there;
the host lines leases up with the same queue code that orders runs, and its
worker asks it before each node. In the worker the node runs inside
`node_execution_scope`; when it leaves, its live outputs are parked in the
local object store and the release hooks held back meanwhile are drained.

### What makes them correct

- *Run lifecycle*: at most one driver goes on and it is the run in progress's;
  every run ends once and is answered once; runs start in the order they came;
  a run that is cancelled before it starts never starts; a deleted flow does
  not go on; a cancel hits the run it was for; nobody waits behind nothing.
- *Parallel resolution*: a node starts when what it reads is resolved, once per
  run; a run that completes ran everything it was seeded with and whatever came
  into its graphs by control or to supply data; a node shown as resolved has the
  value its inputs give; slots are neither lost nor leaked; failures and cancels
  leave nothing behind; a node that joins is not forgotten; every run ends.
- *Leases*: an engine runs nodes for one lease at a time, and a lease that
  let go or was refused never holds it again; what an engine believes it holds
  is what the host holds itself for; a run never waits behind its own lease; a
  line moves on unless somebody really uses the host or every report was lost.
- *Workers*: one process per library, and a reset leaves none; whoever waits
  for a library is let go, whatever becomes of its worker; a worker's death
  ends what was sent to it. *Requests*: a late reply is dropped rather than
  passed on.
- *Local objects*: an object's release hook runs once each time it lost its last
  entry, never while another entry holds it or a node uses it, and always in
  the end. (An object put again after it lost its last entry is another matter:
  section 4.)

## 2. The modules

| module | models | role |
|---|---|---|
| `RunQueue` | `run_queue.py`, the line as operators | used by the next two |
| `RunLine` | what a line of runs promises | abstract specification |
| `RunLifecycle` | FlowManager's run handlers | implements `RunLine` |
| `RunLifecycleProofs` | | theorems about `RunLifecycle` |
| `MCRunLifecycle` | | instances for TLC |
| `DagBuilder` | the graphs of a run, as operators on one record | used by the next |
| `Evaluation` | what a run of a workflow promises | abstract specification |
| `ParallelResolution` | the resolution machine and its driver | implements `Evaluation` in runs of orderly flows |
| `ParallelResolutionProofs` | | theorems about `ParallelResolution`, for every workflow |
| `OrderlyWorkflows` | | workflows in which control and data agree: what the next three modules assume of them |
| `ParallelResolutionInputsProofs` | | theorems about `ParallelResolution`: the values it computes |
| `EvaluationProofs` | | theorem about `ParallelResolution`: the refinement |
| `MCParallelResolution` | | workflows for TLC |
| `EngineLock` | what a host promises its leases | abstract specification |
| `EngineLeases` | the leases of WM, engines, host and transport; uses `RunQueue` | implements `EngineLock` |
| `EngineLeasesProofs` | | theorems about `EngineLeases`: types, refinement |
| `EngineLeasesGrantProofs` | | theorems about `EngineLeases`: the two sides agree |
| `MCEngineLeases` | | instances for TLC |
| `LocalObjects` | RM's local objects and the scopes they wait for | |
| `LocalObjectsProofs` | | theorems about `LocalObjects` |
| `MCLocalObjects` | | instances for TLC |
| `Workers` | the worker processes of a library, the gate and the requests; uses `RunQueue` for the registrations | |
| `WorkersProofs` | | theorems about `Workers` |
| `MCWorkers` | | instances for TLC |

### RunLifecycle

An action is the code of a handler between two awaits. `driver[run]` says
where the run's driver is suspended: `scheduled` (its task not yet run),
`validating` (`execute_start_flow` awaits the nodes' checks), `driving` (it
advances the machine), `abandoning` (it awaits the reset of the flow it
raised out of). A machine is a record of what FlowManager reads of it: its
flow, its state, whether tasks of it still execute (`busy`), the debug flag
and who advances it (`holder`: a run, a step request or nobody). Machine
objects live in slots, since a handler may hold an old one while a new one is
current; `StartFlow` takes any slot nobody refers to. A cancel under way is a
record of the awaits of `_cancel_run`: telling the workers, gathering the
tasks, resuming. `_start_next_run_if_idle`, `_finish_run` and
`_finish_run_if_over` are operators that every action ending a run uses.

The kinds of run are StartFlow, StartFlowFromNode and ResolveNode requests;
`FromNode` says which refuse a flow's own start nodes. A ResolveNode request
that joins a run in progress makes no run and is part of ParallelResolution.

### DagBuilder and ParallelResolution

`DagBuilder` holds one record with the fields of the class: the node
references, `graphs` (`nets`, `members`, `edges`), `graph_to_nodes` (`known`,
`homes`) and the deferred sinks; `ref[n] = "absent"` is a name missing from
`node_to_reference`. A workflow is a record of its data connections, control
connections, locked nodes and start nodes, from which the seeds of a run are
derived as `classify_nodes_for_dag_in` does (FM 3112-3210). A node's edges are
added by reachability rather than by the code's recursion, and
`unresolve_future_nodes` and the control walk likewise. Control that leaves a
node goes on to one of the nodes it is wired to, or ends: at a node with
`stop_flow` (PR 355-357), without a next output, or whose output has nothing
connected to it (PR 388, 398-401, `node_types.py` 2642-2659). Which of these
happens is the node's own affair, so that `Advance` leaves it open at every node
(`ControlEnds`, `ControlGoesOn`).

`drv.at` says where the driver is. At `idle`, `validating`, `waiting`,
`parked` and `reaping` it is suspended and others may act; at the labels in
`Holding` it holds the loop. These are the suspensions the code really has:
the thread that validates (PR 763), the wait for a task or new work (870), the
idle recheck (941), the wait of `ErrorState` and, for the cancel, telling the
workers and gathering the tasks. Publishing an event puts it in an unbounded
queue and passing a value into a node is a synchronous handler; neither lets
anybody else run, so they are part of the step around them.

| driver label | code |
|---|---|
| `seed` | `ControlFlowMachine._seed_dag_from_categories`, `ResolveNodeState` |
| `update`, `sinks` | the head of `ExecuteDagState.on_update`, `_seed_deferred_data_sinks` |
| `drain` | the loop that takes nodes while there are slots |
| `validating` | `await to_thread(validate_before_node_run)` |
| `waiting`, `parked` | the wait for tasks, the idle recheck |
| `pop`, `popping` | `pop_done_states`, a graph at a time, a node at a time |
| `failing`, `error`, `reaping` | entering `ErrorState`, its update, its wait |

Three variables record history and no action reads them to decide anything:
`ran`, `refused`, and `outdated`, the nodes whose value is older than the last
start of something they depend on. A node leaves `outdated` when it takes its
inputs and none of these is outdated; a locked node passes nothing on.

Where the model is wider than the code: entry nodes are seeded in any order
(the code's is the order nodes were created in); any queued node may be taken
next (the code sorts by heuristics); the gathering end of a cancel may lag
behind steps the driver takes meanwhile. Property violations that need any of
these were looked at one by one; the findings below need only a creation order.

### EngineLeases

Three parties: the engines that ask (each its table `_leases`, its kept
registration `offer`, one report task per ended lease), one host (its sessions,
its line, `_engine_runs` with the futures `granted` and `released`) and the
transport. The source has only the interface of the transport
(`engine_transports.py` 27-58), so `Send`, `Reply`, `Take`, `Lose`, `Disconnect`
and `Reconnect` model what its callers rely on. Requests travel in one channel
per engine, a line of `RunQueue`, so that order can be kept or not (`Ordered`);
replies are a set. `AcquireLease` sends and `ReceiveAcquire` enters the line;
the acquire is answered only when `granted` resolves, which is why its pending
answer is a set of the host (`answering`) and not a message. The driver of the
lease at the front is at `starting` (its task not yet run), `freeing`
(`_free_for_handoff` awaits) or `holding`. `Disconnect` drops what travels; each
side hears of it by itself (`unheard`) and forgets the other, and a connection
comes back only after both did and what was under way has failed.

| action | code |
|---|---|
| `StartNode`, `AcquireLease`, `NodeHears`, `NodeEnds`, `RunEnds` | `acquire_lease`, `_lease_for`, `release_after_node`, the callback of a run's end |
| `TellReleased`, `ReleaseAnswered`, `ReleaseUnanswered` | `_report_until_answered` |
| `Offer*`, `Withdraw`, `EngineHearsLoss` | `_register_with_engine`, `_withdraw_session_offers`, `on_engine_lost` |
| `Receive*`, `HostHearsLoss` | the host's handlers, `_forget_engine` |
| `DriveFront`, `WorkersFreed`, `LetGo` | `hold_for_engine_run`, with the queue's `_drive` and `_finish_run` |
| `CheckLease`, `RunNode` | `lease_refusal` in the worker and `handle_check_lease_request` |

### LocalObjects

Code under `_local_objects_lock` is one action, and between two of those other
threads run. A thread that removed entries is at `decide` (it asks whether a
node executes, before it takes the lock again), `defer` (it takes the lock to
hold the entries back) or `hooks`. `_hydrate_and_run_node` is synchronous on
the loop after its node returned, so the loop's `tail` (outputs parked, drain)
keeps other nodes from starting, not other threads from dropping. `hand` is
what a node's code refers to, which no data structure of the code records; it
is what the hooks must not hit. `cache_outputs_for_egress` parks one output
after another (`unsent` are those to come) and runs the hooks of what each
displaces before the next (`local_objects.py` 581-586). Any object may be put at
any time, whatever became of it before; `lives` counts how often it was put
while no entry held it and `frees` how often its hook ran, and no action reads
them to decide anything but the bound `MaxLives`. `Places` says which outputs a
node has and whether it puts under a key of its own.

### Workers

One library's key. A start request and the process it forks are one attempt;
the attempt's number also names its readiness gate, its worker and its place
in the tables (`requested`, `claim`, `managed`, `workers`), so a table that
holds the wrong attempt shows. Registered workers are kept like waiting runs,
each with those registered before it, since only the oldest is ever picked.
`stopper` is the reset or reload under way,
`sweep` the heartbeat loop, which runs beside it, and each is suspended at the
awaits of `_stop_workers` and `evict_worker`. A node picks a worker and tracks
its request in two steps, since evictions run on the transport's thread.
`strays` and `disturbed` record history: the two circumstances, described
below, under which the promises of the code do not hold. A stray is an attempt
whose process or claim left the records without having been told to stop;
`ForksCounted` says that of any two processes that run one is a stray. The
strays are named rather than counted: a count of the events that lose a
process does not bound the processes, which the search for an inductive
invariant showed.

## 3. What is checked

Each property of a passing run has a mutant in `PROJECT.json`: a definition of
the model changed as a plausible bug would change the code, under which TLC
finds the property violated. The mutated forms stand beside the definitions
they vary, marked as broken variants, and no action uses them.

### RunLifecycle

| run | instance | shows |
|---|---|---|
| `core` | two runs of two flows, two cancels that overlap and may raise, a driver that may be cancelled | `OneDriver`, `EveryRunAccountedFor`, `NoStuckRun`, `NoDeletedFlowRuns`, `CancelledNeverStarts` |
| `line` | three runs of one flow, cancel-all that does not raise | `ImplementsRunLine`, `NoStrandedLine`, `TornDownOnlyIfCancelled` |
| `live` | two runs, one cancel, fairness | `WaitingRunLeaves` |

Two runs reach every pair of a run being driven and one waiting or being
driven next; three are needed to have two waiting, which the order of the
line is about. Three machine slots hold the current machine and the targets of
two late cancels. The runs stop when all their runs have ended, so deadlock is
not an error there. Symmetry permutes machine slots and cancels, never with a
liveness property.

*Fairness* (`live`): a driver that is ready runs on, nodes that were started
return, an awaiting cancel resumes: the event loop does all three as long as
node code returns. A flow ends only if it keeps being advanced, and it has
finitely many nodes, hence the strong fairness of `FlowEnds`. No request is
assumed to come: a flow paused with nobody to step it may hold the line, and
`WaitingRunLeaves` says so.

### ParallelResolution

| run | instance | shows |
|---|---|---|
| `flow` | every acyclic workflow of three nodes that is *in order*, at most one node locked, two slots; run after run | `ResolvedIsFresh`, `NoDuplicateCompletion`, `OncePerRun`, `ImplementsEvaluation`, `RunsWholeFlow`, `RunEnds` |
| `joins` | two nodes with suppliers in common resolved on their own, with pauses | `InputsResolved`, `FailureSparesRunning`, `QueuedNodeStarts` |
| `cancel` | a chain that feeds a sink, two chains that meet, two sinks; cancels anywhere; any resolution states at first | `SlotsBalance`, `EndsClean` |
| `rejoin`, `orphan` | the smallest workflows that show them | findings 1 and 2 |

A workflow is *in order* (`InOrder`) when control reaches a node of the control
path before the nodes of the control path that its value goes to. Outside these
lie two of the observations below, and what they break is not claimed; with four
nodes being in order is no longer enough (*Limits of freshness*), and section 5
proves the properties of values for what is. Three nodes already give a node
in two graphs, two suppliers of one node, a sink below a control path, two
chains that meet, and a lock at every
place in them; with two slots one node runs while another validates. `joins`
uses a fourth node so that the supplier in common may be one step further
away, locked or not. In these passing runs the nodes asked to run feed nobody.
The first states of `flow` and `joins` have no resolved node below an
unresolved one; `cancel` starts from any (`AfterLoad`). Both restrictions on
freshness are genuine: see *Limits of freshness* below.

*Fairness*: the event loop runs the driver and a cancel on, and node tasks
end, which is up to the libraries that hold the nodes. `QueuedNodeStarts` is
checked with the driver alone fair (`DriverSpec`): a queued node must start on
the wakeup it was given even if no node that executes ever returns. Deadlock
is an error in all these runs.

Two of the properties deserve a word. `ResolvedIsFresh` says that no node is
shown as resolved whose value is older than the start of something it depends
on, at any moment, which is what marking downstream nodes on every dispatch,
clearing the visited set on completion and deferring sinks exist for.
`RunsWholeFlow` says that a run that reports completion ran every seed, locked
nodes aside, and whatever else came into its graphs, and that all it ran is
still resolved, wherever control ended; together they make the result of a run
the one a fresh evaluation gives.

### EngineLeases

| run | instance | shows |
|---|---|---|
| `leases` | two engines with a node each, one in a run and one on its own; the first's release notices and the second's acquires, or their answers, may be lost; two attempts per report; fairness (47,900 states) | `HostIsLock`, `NodesApart`, `LineMoves` |
| `leases_faults` | one engine's run of two nodes with two leases, one more offer, one withdrawal, one lost connection, nothing else lost (1.1 million states) | `GrantIsTrue`, `NotBehindItself`, `ReportOverMeansFreed` |

Two engines with a lease each reach every pair of a lease that holds and one
in line, is handed over to, or was lost; two leases of one run reach a lease
ended and the next asked for while the first is still held. One disturbance
of each kind interleaves with every step of the other two. Losses and lost
connections are kept apart because both at once make the second instance too
large, not because anything is known to go wrong there: one engine with two
nodes and one lease, losses of both kinds and every disturbance together
(331,579 states, not kept as a run) violates none of these properties.

*Fairness* (`FairSpec`): the host's handlers and the line's driver go on, the
engine hears its answers and its lost connection, and a report task makes its
next attempt: event loops and `asyncio.wait_for` see to that. No run or node
need end, no connection come back, nothing need be lost. `LineMoves` therefore
speaks of a line held up by nobody: the lease at the front is out of its
engine's table and its report was not given up on.

### LocalObjects

| run | instance | shows |
|---|---|---|
| `objects` | two objects, one of which may be put again after it lost all its entries; two nodes of two libraries, one with two outputs, the other putting under a key; one pool thread and the loop, every object hooked; fairness (629,815 states) | `HeldIsLive`, `NotFreedInUse`, `FreedOnce`, `EventuallyFreed` |

Two entries of one object in different libraries, a displaced and a remaining
entry, and two threads at different points of removing them all occur; a
second object is needed for a slot that passes from one to the other, and two
outputs for an object that moves from slot to slot in one egress, or sits in
both. Two lives let the object be put again at every point of its first one's
end: before, while and after the hook runs.
`EventuallyFreed` assumes that every thread finishes what it began, and says
itself that nodes go on starting and that there are moments without one: the
drain happens at the end of a node.

### Workers

| run | instance | shows |
|---|---|---|
| `workers` | two attempts, two nodes, one challenge allowed unanswered, one abandoned request remembered, and three starts, node runs, resets and reloads in all; fairness (149,200 states) | `ForksCounted`, `ResetLeavesNone`, `LateRepliesDropped`, `GateReleased`, `DeathReleases` |

Three events are the least that show a reset or a reload between two starts,
and two nodes beside one start; the two invariants and the action property
were also checked with three attempts and four events. Processes fork, die,
leave, register and answer without a bound.

*Fairness*: spawn tasks, handlers, stops and the heartbeat loop go on; a
process that was told to stop ends (SIGKILL follows SIGTERM, WM 1288-1303); a
challenge is sent in the end. No worker need answer anything and no node,
reset or reload need come; `GateReleased` and `DeathReleases` lean on the
sweep, which evicts a registered worker that never answers, and `Handles` on a
process that is alive coming to register and to report its load, unless it
ends.

## 4. Findings

| | where | what happens | what the repository says |
|---|---|---|---|
| 1 | DB 474 | `cleanup_empty_graph_nodes` drops a graph from `graph_to_nodes` but not from `graphs`; resolving that node again while another runs raises a KeyError (DB 147) after recording it: the request fails and the node runs | PR 1119: the driver only sees an injection as one atomic change |
| 2 | PR 1164 | a cancel takes the tasks there are while a node validates; the node is then dispatched with its cancellation cleared, and goes on after the reset | PR 760-762: if they did, stop here, otherwise the node runs anyway |

The runs `rejoin` and `orphan` print the traces; each needs one or two
requests.

**Where properties stop.** These were met while modelling; each is excluded by
a constant or a ghost variable named here, and the property named shows it
when that is changed.

*Runs.* `_cancel_run` resets whatever machine is current when it resumes (FM
2686): if the cancelled run's flow ended meanwhile, that is the next run's,
which is torn down and reported as a success (`TornDownOnlyIfCancelled` with the
constants of `core`). When the await in `cancel_all_runs_in` raises (FM 2431),
runs submitted meanwhile wait with no run in progress and nothing that starts
them (`NoStrandedLine` with `CancelMayFail = TRUE` in `line`). A run cancelled
while paused is shown as PAUSED again by its own driver (FM 2540); two
overlapping cancels of every run share one flag, and the first to end clears it
under the second: a run it starts then goes on, and the second cancel turns away
only those behind it (FM 2430-2434); a failed validation leaves the flow's start
nodes queued, so a later step starts the flow with no run to account for it; a
flow whose deletion fails keeps going while its run is marked as cancelled;
`start_node_candidates` is cleared and never filled.

*Entries that read entries.* With the control connections a to b, c to d and
the data connection a to c, whose entries are a and c, control does not reach
a before c reads it, so the workflow is not in order. If c is seeded first, its
upstream walk records a as `data_dependency_only`, which stays when a's own
turn comes (`control_flow.py:399`); b never runs and the run completes
(`RunsWholeFlow`). If c is seeded first in a second run, it runs beside a on
the last run's value (`control_flow.py:398`, `ResolvedIsFresh`).

**Limits of freshness.** More ways to a stale result lie outside the instances
and are why the instances, and the theorems about values, are drawn as they are.
The upstream walk
stops at a RESOLVED node (DB 208): if an UNRESOLVED node lies above a RESOLVED
one, which `connections.py:343-345` says happens after a load, a node below
both runs on the intermediate's old value while the top one runs again
(set `AfterLoad = TRUE` with a workflow a to b to c, a to c). And
`unresolve_future_nodes` marks RESOLVED nodes only: a node that is executing
when a node it reads is asked to run again ends as RESOLVED on the old value.

Four more came up in the proof. TLC finds each on the single workflow named, in
runs of the flow; the first three violate `InputsResolved`.

- *Chains that meet.* Control a to c and b to c, data a to d and d to c, one
  slot, everything resolved by an earlier run. b finishes before a starts and
  hands control to c, which is recorded without an edge from d, for d is
  RESOLVED. a's dispatch then makes d unresolved; when a hands control to c,
  `add_node_with_dependencies` returns at once for a recorded node (DB 137-138),
  and c starts with d unresolved.
- *A branch not taken.* Control a to b or a to c, data b to d, d to e and b
  to e. A run in which b fails its validation leaves b UNRESOLVED above d, still
  RESOLVED. If the next run takes the branch to c, the sink e pulls b in and not
  d; b's dispatch makes d unresolved and e starts. This is the first limit
  above without a load. A cancelled run of the flow leaves the same behind for a
  node resolved on its own later.
- *Control that ends before a value two nodes read.* Control a to b, data b to
  d, d to e and b to e. b fails its validation in one run; in the next control
  ends at a, where another output than the one to b is taken and nothing is
  connected to it. As before the sink e then pulls in b and not d, which was
  resolved by an earlier run, and starts on a d that b's dispatch made
  unresolved. Neither branches nor chains that meet are needed for this one,
  which is why orderly workflows are `Tied` (section 5).
- *A lock in the middle.* Data c to d, d to a, d to e and b to e, d locked, one
  slot; a and e are sinks. The walk from a records d and c; the walk from e finds
  d recorded, so that d is a leaf of e's graph while c is still to run in a's.
  Being locked, d is popped there as done, and e runs after b. Then c runs, its
  dispatch marks d and, through d, e, although d's value does not change: the run
  completes with e unresolved (`RunsWholeFlow`).

*Leases.* An offer of an engine that has an accepted registration and times
out forgets the kept registration, so that `_report_until_answered`, which
stops once there is none, stops while the host still holds itself for the
lease (`ReportOverMeansFreed` and `LineMoves` with one offer and offers that
may be lost). A withdrawal is sent once, and if it is lost the host keeps the
leases while the connection lasts. Without an order of requests
(`Ordered = FALSE`) a release may overtake its acquire, which then holds the
line (`LineMoves`). An acquire has no time limit: one whose answer is lost
while the connection holds never ends. A worker asks before a node and starts
it after the answer, so that a node may start when its lease has just let go;
`NodesApart` therefore speaks of nodes whose engine still uses its lease.

*Local objects.* A hook runs although the object was put again after it lost
its last entry, since `run_release_hooks` does not look whether an entry holds
it by then. That happens when an object dropped while a node executes is parked
again before the drain, and in one egress without any drop: slot s1 holds v and
the node's outputs are w on s1 and v on s2. Parking w displaces v's only entry
and runs its hook, and then v, released, is parked in s2. Such an object is held
by an entry, and handed to the next node, though its hook ran or is about to run,
and the hook runs again when that entry goes. `HeldIsLive`, `NotFreedInUse` and
`FreedOnce` count an object's lives and so allow this and no more: stated without
them (`frees[v] = 0` of what is held or in use, `frees[v] <= 1`) each is
violated. A thread that asked before the last node ended holds its
entries back after that node's drain: they wait for the next node to end. Of
an object in several entries only the hooks of the last removed batch count:
if the one with a hook was removed earlier, nothing is released.

*Workers.* A goodbye is answered across an await, after which the key's
process entry goes, whichever process it names by then (WM 562): a newer
process runs untracked, and `ForksCounted` takes it for a stray, as it does a
spawn or process a reload overtook, and the process over which the overtaken
spawn then records its own (WM 777). A clean goodbye fails no pending request:
a node awaiting that worker waits for its run to be cancelled; so does a node
whose request is tracked after the reset, or the eviction, of its worker
failed the tracked ones (`DeathReleases` leaves both out). A start honoured
during a reset installs a new gate: whoever waits on the old one waits out its
time limit, and a later reset waits out only one of the spawns
(`disturbed`). A reload clears the process recorded during its awaits. An
eviction stops the key's process, which may be newer than the worker it
evicts. A load report names its library, not its worker, so a late one of the
old worker opens the new one's gate. `RequestClient.request` does not catch a
cancellation while it awaits, so that its entry stays.

## 5. What is proved

`RunLifecycleProofs` proves, for any sets of runs, flows, cancels and machine
slots that satisfy `RunsAssumption`:

| theorem | property |
|---|---|
| `Invariance` | `IInv`, the inductive invariant |
| `TypeCorrect` | `TypeOK` |
| `OneDriverAtATime` | `OneDriver` |
| `RunsAccountedFor` | `EveryRunAccountedFor` |
| `NoRunStuck` | `NoStuckRun` |
| `LineImplemented` | `ImplementsRunLine`, the refinement of `RunLine` |
| `CancelledStaysUnstarted` | `CancelledNeverStarts` |
| `DeletedFlowsStopped` | `NoDeletedFlowRuns` |
| `LineAttended` | `NoStrandedLine`, assuming that no cancel raises |
| `TornDownOnlyByItsCancel` | `TornDownOnlyIfCancelled`, for cancels of every run (`CancelKinds`), one at a time (`OneCancelOfAll`) |

`ParallelResolutionProofs` proves, for any workflows (with cycles too), any
number of slots and any mix of flow runs, single-node runs, joins, pauses,
failures and cancels, from `GraphsAssumption` (finitely many nodes, the default
graph is named after none) and `MachineAssumption`:

| theorem | property |
|---|---|
| `TypeCorrect` | `TypeOK`, in which the slots taken are at most `Capacity` |
| `SlotsBalanced` | `SlotsBalance` |
| `RunsEndClean` | `EndsClean` |
| `CompletedOnce` | `NoDuplicateCompletion` |
| `RunsNothingTwice` | `OncePerRun` |
| `FailureStopsStarts` | `FailureSparesRunning` |

`ParallelResolutionInputsProofs` proves, from the same assumptions and for any
workflows that satisfy `OrderlyRuns`:

| theorem | property |
|---|---|
| `FreshInvariant` | `PInv /\ FInv`, the inductive invariant |
| `OrderlyInputs` | `InputsResolved` |
| `OrderlyIsFresh` | `ResolvedIsFresh` |
| `OrderlyRunsAll` | `RunsWholeFlow` |

`EvaluationProofs` proves, for the runs of the flow among them
(`OrderlyFlows`: `OrderlyRuns` and runs of the flow):

| theorem | property |
|---|---|
| `EvaluationImplemented` | `ImplementsEvaluation`, the refinement of `Evaluation` |

`OrderlyRuns` is about what a user draws and asks for; the engine enforces none of
it, and section 4 has a failure in the code for each part left out. Either
there are runs of the flow alone, each along lines of nodes (`InLine`: control
neither branches nor meets and is in order, though it may end anywhere; data has
no cycle; a locked node reads nothing; and a node that control may not come to
goes, as far as what leads to sinks is concerned, to one reader or to sinks
themselves, `Tied`), or nodes are resolved on their own, which feed nobody, and a
locked node that reads something feeds only nodes that feed nobody (`Apart`);
and the first state has no resolved node below an unresolved one. The number of
nodes, lines, sinks and slots, the failures, pauses, cancels and joins are
free. The instances of section 3 contain such workflows, which
`MCParallelResolution` states as assumptions that TLC evaluates.

`EngineLeasesProofs` proves, for any engines, runs, nodes and leases, any
bounds, requests in order or not and any kinds of loss:

| theorem | property |
|---|---|
| `TypeCorrect` | `TypeOK`, in which a report has at most `_REPORT_ATTEMPTS` attempts |
| `HostImplementsLock` | `HostIsLock`, the refinement of `EngineLock` |

`EngineLeasesGrantProofs` proves, for the same constants if a channel keeps the
order of its requests (`Ordered`, which both instances assume as well):

| theorem | property |
|---|---|
| `UsedIsHeld` | `GrantIsTrue` |
| `EnginesApart` | `NodesApart` |
| `RunNotBehindItself` | `NotBehindItself` |
| `ReportFreesLease` | `ReportOverMeansFreed`, if no offer or withdrawal is lost on a connection that is up (`OffersArrive`, so in the instance that checks it) |

`WorkersProofs` proves, for any nodes and any number of attempts, challenges,
stops and remembered requests:

| theorem | property |
|---|---|
| `TypeCorrect` | `TypeOK`, in which no more given-up requests are remembered than the limit |
| `OneTrackedProcess` | `ForksCounted` |
| `LateAnswersDropped` | `LateRepliesDropped` |
| `ResetIsClean` | `ResetLeavesNone` |

`LocalObjectsProofs` proves, for any objects, nodes, slots, libraries,
workflows and threads, and for any object put again at any point:

| theorem | property |
|---|---|
| `TypeCorrect` | `TypeOK` |
| `EntriesAreLive` | `HeldIsLive` |
| `NothingFreedInUse` | `NotFreedInUse` |
| `HooksRunOnce` | `FreedOnce` |

**The argument about runs.** None of the properties is inductive. `OneDriver`
speaks of drivers and `driving`, but what keeps a second driver from starting is
that a waiting run has state `queued`, has no driver, and that a run in progress
has left the line; and a driver that lets go of the machine must be the one that
holds it. `IInv` joins the types (which say that a cancel under way has a
target), the queue's books (where each run is, against its state, its driver and
its answers), the machine's holder against the drivers, and `NoStuckRun`. The
books are kept by the operators every handler shares (`_start_next_run_if_idle`,
`_finish_run`, `_finish_run_if_over`, turning away), so each has one lemma, and
the lemma of an action is the composition of theirs; `StepInvariant` has a case
per action. The action properties and the refinement follow from `IInv` and one
step.

*The refinement* maps the run in progress to the run served and the runs with
`ended[r] > 0` to those that left. Each operator is an `Arrive`, a `Leave`, or
a stutter of `RunLine`; `EndingIsLeaving`, `FinishRunIsLeaving` and
`TurnAwayIsLeaving` say so once for all the handlers.

*The line attended.* That someone is at the head of a line that is not empty
would take an induction over finite sets. Instead the invariant `LineInv`
says that the line is ordered and that each of its non-empty parts has a
first; both survive adding at the end and removing from anywhere, so some
run can always be started when the place is free. The theorem needs that no
cancel raises; the first observation of section 4 that names `NoStrandedLine`
is what happens otherwise.

*The torn-down flow.* `HitsItsRun` says what a cancel of every run finds when
it resumes: meanwhile nobody was started, since new runs are held back
(`cancelling`) or the workflow was closed, and whoever drives was cancelled
when it began. Every handler either leaves drivers alone or ends one
(`Settles`). A single run's cancel holds nobody back and a second cancel of
every run clears the flag of the first, so the theorem excludes both; section 4
has what they do.

**The argument about resolution.** `SlotsBalance` alone is not inductive: a
dispatch adds a task, and unless the node had none the count and the tasks come
apart. That it had none follows from its record being `queued` while a node with
a task is recorded as `processing`. So `PInv` joins four parts: the types,
`SlotsBalance`, `DriverOK` (the machine's state against the driver's place: no
run means empty graphs and an idle driver) and `WorkOK`, which is about the
graphs and those that stand in them (`Steady`):

- `GraphsOK`: edges join members; a node is added to one graph of its own and
  leaves it only as done; a node that waits, is queued or executes stands in a
  graph, and a queued or executing one has nothing before it in any and is not
  locked.
- `QueueOK`, `TasksOK`, `SeesAsIs`: the queue, the tasks and the driver's
  locals (the node it validates, the leaves it has yet to look at) against the
  records, although requests acted on all of them while the driver was suspended.
- `ExecutingOK` and `SeenTo`: a node that shows as executing is a leaf of a
  graph, and has a task, or is done and among what the driver is popping, or a
  failed run is ending. With no run left there are no graphs, hence
  `EndsClean`.
- `DoneOK`: what was handled as done stands in no graph, hence
  `NoDuplicateCompletion`. It is given up while a failed run ends, when done
  nodes stay in graphs that nobody pops any more.
- `RanOK`: what ran in a run of a flow is recorded beyond `queued`; with
  `SeesAsIs`, `OncePerRun`. For a single-node run, which a node may join
  again after it was cleaned up, nothing is claimed.

Nothing in `PInv` speaks of paths, so cycles do no harm: `Add` draws edges only
into nodes it has just recorded, which are neither queued nor executing
(`AddSteady`), and `TryQueue` queues only what is a leaf everywhere
(`TryQueueSteady`). Those lemmas, `DropSteady` and `CleanUpSteady` for
nodes that leave, and `ProgressKeeps` for records that move on carry the
actions, one `...Work` lemma each; `StepWork` and `StepSlots` put them
together. `PInv` was checked with TLC before the proof, on the instances
of section 3 and on workflows of two and three nodes drawn at random.

**The argument about values.** That a node starts on resolved inputs would
follow from edges being drawn from every supplier that is not resolved (`Add`)
and dropped only on completion, if nothing resolved could become unresolved in
between. It can: each dispatch marks what it feeds as stale. So `FInv` says when
that does no harm.

- `Ready`: a recorded node has its inputs, or waits with an edge for those it
  lacks. `WaitingOK`: what waits or is queued is not shown as resolved.
- `StaleBelow`: a resolved node stands below an unresolved one only if that one
  will get its turn by control. This is what lets the upstream walk stop at
  resolved nodes, and what a load, a branch not taken or a lock breaks.
- `SweptOK`: what was marked in this run and all below it is unresolved, so that
  the walk may stop at what was visited. `OutdatedOK`: an outdated node is
  unresolved and neither executes nor validates, hence `ResolvedIsFresh`.
- `Asked`: a node resolved on its own that was cleaned up was finished on
  inputs that still stand, so that it may join again.

For runs of the flow, that a dispatch finds nothing recorded below what it
marks except through an edge needs the order of the turns. As long as control
goes on (`Going`), a node is recorded only when all that gets a turn above it,
by data (`Before`) or by control (`InTurn`), is over, and nothing that gets a
turn was pulled in for its data. Once control has ended, at whichever node, the
sinks that were put off come in (`Closing`), and what they lack with them,
nodes whose turn did not come among it: of what is recorded and not over,
everything downstream is unresolved as far as it leads to a sink, and none of it
is over (`Clear`, `Pulled`). That a sink's walk finds it so is what `Tied` is
for, together with `StaleBelow`, whose unresolved node has all that is
downstream of it unresolved and not only its readers. `Closed` says how the
seeding of the sinks begins. Either way what is over stays resolved (`Stays`);
`SeedOK` says where each seed is: to be seeded, recorded or deferred. Where the
run completes no graph has a leaf, hence, data being acyclic, no node
(`LeftAtUpdate`), so that all that was recorded is over, and with `RanDone` it
ran: `RunsWholeFlow`.

Walks are least fixed points (`Reach`: what is in every set that holds the start
and that no arc leaves). A proof that something is reached cites
that a walk goes on along every arc (`ReachStep`), a proof about all that is
reached names a set that holds the start and that no arc leaves (`ReachLeast`),
and acyclicity is stated as every non-empty set of nodes having one that no arc
from the set enters (`NoCycle`); none needs an induction over paths.
`FInv` was checked with TLC before the proof, on workflows of three to five
nodes drawn at random with cancels, pauses and failures; the counterexamples to
earlier versions, with weaker assumptions, are the four limits of section 4.

*The refinement* says in one formula what `InputsResolved`, `OncePerRun` and
`RunsWholeFlow` say of a run one at a time, and more: nothing starts in a run
that failed, what depends on a node that starts has not started and is made
stale, and a result stays until the run ends. `Evaluation` has the workflow, the
nodes whose value is current, those started, those busy and whether the run is
off, going or failed; it knows no graphs, queue, slots, driver or wakeups. The
mapping takes the RESOLVED nodes for the current ones, `ran` for those started
and the nodes with a live task for those busy. Most steps of the driver are
stutters. A dispatch is a `Start`, whose witness for what is below is
`Downstream`: it has not started since what ran is recorded beyond queued
(`RanOK`) and what is recorded below waits (`BelowWaits`). Seeding, popping a
node and reaping tasks are each a `Settle`: what becomes current has its inputs
(`Ready`), and where control goes on to is not recorded yet, or the node it
leaves was only there for its data, so it has not started. Every other way for a
run to end, a teardown included, is a `Stop`. One fact had to be added to `PInv`
and `FInv`, for tasks reaped while the run fails: a node with a task is one the
run started (`TaskRan`). A task that outlives its run (finding 2) is no longer
busy for the evaluation, which says nothing of it. Single-node runs are not
evaluations in this sense: a node that was finished may be asked for again while
the run goes on.

**The argument about leases.** That one lease holds the host at a time is not
inductive: the driver grants whatever is at the front. `HostInv` adds that
only the lease at the front holds it, while its driver is at `holding`, and
that what was released was granted or refused before. A lease that was let go
could still return if the host heard of its acquire a second time;
`AskedOnce` says that an acquire on its way is the only one for its lease and
new to the host, which needs that an engine never draws a lease id again.
Each step is then `Grant`, `Depart` or a stutter of the lock: the end of an
engine's leases, for whatever reason, is one `Depart` of all it ends
(`EndRunsIsDepart`).

**The argument about the two sides.** An engine uses a lease from the answer
to its acquire until it sends the release, ends it or hears of a lost
connection; the host holds it from the grant until it hears of any of these.
The proof follows what is on the way between them. `ChannelInv` says in which
order it travels: a release behind its acquire, nothing asked after a
withdrawal, a lost connection carries nothing until both sides heard of it;
each of these needs `Ordered`, and section 4 has what happens without it.
`BothSidesAgree` compares the tables, `LeasesOfRuns` a run's leases with those
of its nodes, and `EarlierLeaseAhead` says that an earlier lease of the same run
is ahead on the way and in the line, so that the host has let go of it by the
time it grants the later one (`GrantInv`). For the reports, `LeftInv` adds what
became of a lease whose release was answered or had nobody to tell: it is free,
will be refused, or goes with a withdrawal on its way. That an engine without
a registration is one the host does not know (`Unregistered`) fails when an
offer or its answer is lost, hence `OffersArrive`.

**The argument about workers.** `Recorded` says where a running process can be:
in the claim of the task that forked it, in the managed entry, or among the
strays; and of a claim and a managed process that are both there the managed
one is a stray. `ForksCounted` follows. `AnswersKnown` says that a request at
a worker, or answered, is tracked, remembered as given up, or forgotten by
the limit, and never two of these places at once, so that a remembered one is
dropped. For resets, `StopInv` adds that while nothing was lost and nothing
honoured during a reset (`Calm`) the request and the claim name the tasks there
are and a reset that waits waits for the only one.

**The argument about objects.** Each life of an object, from a put without an
entry on, is spent in one place: in the entries of the store, in the batch of one
thread, among the entries held back, or on a run of the hook. `Account` counts
these, with the number of threads whose batch has the object (a cardinality, so
that the threads must be finitely many at any moment, which it says), and bounds
them by `lives`. Removing entries moves an object to a batch only with its last
entry, hooks spend what is in a batch, and a put adds a life just when no entry
holds the object, so every step keeps the account (`AccountMoves`); `HeldIsLive`
and `FreedOnce` follow. For `NotFreedInUse`, what an executing node holds and
was never put again is in no batch whose hooks run (`Safe`): such a batch was
formed while no node executed, and a node that starts later finds objects only
in entries. That the loop's drain sees no node executing when it takes the
held-back entries is `TailInv`.

**Only model-checked**: `WaitingRunLeaves`, `RunEnds`, `QueuedNodeStarts`,
`LineMoves`, `EventuallyFreed`, `GateReleased` and `DeathReleases`, which are
liveness under fairness, out of the prover's reach. Of the properties of values,
what the instances of `flow` have beyond `OrderlyRuns` (control that branches or
meets, a locked node that reads, on three nodes) is checked and not proved:
it does not hold of larger workflows.

## 6. What is not modelled

In RunLifecycle: building and editing flows; a driver task that is cancelled
before its first step; publishing of run changes. (The line of engine runs,
the same queue code, is in EngineLeases.)

In ParallelResolution: what decides whether control ends at a node or which way
it goes on (`stop_flow`, the node's choice of an output), which is left open
instead; iterative start and end nodes and isolated subflows;
nodes deleted or connections edited while a run goes on; nodes that block
their own queueing (`can_queue_for_execution`) or ignore dependencies; runs
that start paused or from a node in the middle; a publish that raises
because the node's parameter is gone; worker placement, which is inside a
node's task; the priority heuristics.

In EngineLeases: the reports of a lease's place in line, which only display it;
what freeing between two engines does to the host's workers (`WorkersFreed`
returns, whether it could or not); starting and stopping workers on the host, of
which `loaded` keeps that one exists; engines refused for the version they run
(WM 1660-1673), which have no session and lease nothing, so that they are none
of the `Engines`; an answer from another engine than the one asked (WM
1584-1589), which ends the offer as a failed one; requests that arrive twice
(the transport does not resend).

In LocalObjects: the owner of an entry, which is the process; the keys a
worker is told were released elsewhere; the refusal of a key that is not the
caller's; walks over nested values.

In Workers: workers on or for other engines; the general-purpose worker, the
same code under the key None; the worker's own watch over its orchestrator;
requests with a time limit, which workers are not sent; the wording of
reasons. One reset or reload is under way at a time. A process registers after
`create_subprocess_exec` returned: booting takes longer.

Not modelled at all, with the reasons in `PROJECT.json`: open workflows and
the ids that move with them (synchronous dictionaries), the keyed mutex
(polls a lock of a library and promises no order), connections (each edit one
dictionary update), loops and isolated subflows (data transformation around
the same scheduler), and the components that read, parse and write.

Code outside `src/src/griptape_nodes/` is modelled only through its effect:
asyncio's tasks, `asyncio.wait` (whatever has finished by the time the driver
resumes is returned) and `asyncio.Event`.

## 7. Plan

Done: `RunQueue`, `RunLine`, `RunLifecycle`,
`DagBuilder`, `Evaluation`, `ParallelResolution`, `EngineLock`, `EngineLeases`,
`LocalObjects` and `Workers`, each component with its proofs.

What is left is **ParallelResolution, extended**: a node deleted during a run
(`DagBuilder.remove_node`), loop start and end nodes, runs from a node in the
middle.
