------------------------------- MODULE Workers -------------------------------
(***************************************************************************)
(* The worker processes of one library, from the request that starts one   *)
(* to the node execution it answers: worker_manager.py (spawning, the      *)
(* readiness gate, registration, the heartbeat sweep, resets and reloads)  *)
(* with the RequestClient entries of the nodes routed to a worker          *)
(* (request_client.py) and the node's side of it (node_manager.py).        *)
(*                                                                         *)
(* A start request and the process it forks are one attempt, numbered in   *)
(* order; the process's engine id and its readiness gate carry the same    *)
(* number.  A node runs once, and its name stands for its request id.      *)
(* Every await is a place where another action may run; so is the gap      *)
(* between picking a worker and tracking the request, since evictions run  *)
(* on the transport's thread.                                              *)
(***************************************************************************)
EXTENDS Naturals, FiniteSets, Sequences, SequencesExt

CONSTANTS Attempts,     \* how many start requests are honoured
          Nodes,        \* the nodes of the library that run
          Allowed,      \* unanswered_challenges_allowed
          Remembered,   \* _ABANDONED_REQUESTS_REMEMBERED
          Events        \* bound: how many start requests are honoured, nodes run, and
                        \* resets and reloads begin, together

ASSUME WorkersAssumption ==
    /\ Attempts \in Nat \ {0} /\ Allowed \in Nat \ {0} /\ Remembered \in Nat \ {0}
    /\ Events \in Nat /\ IsFiniteSet(Nodes)

Line == INSTANCE RunQueue   \* the registered workers are kept like the waiting runs, in a line

Procs == 1..Attempts
None  == 0              \* no attempt: Python's None, or a missing dict entry

VARIABLES
    task,       \* attempt -> its spawn task: none, asked, spawning, forked, ended
    requested,  \* the attempt in _requested_spawns
    claim,      \* the attempt whose claim is in _spawns_in_flight
    managed,    \* the attempt in _managed_worker_processes
    proc,       \* attempt -> its process: unborn, live, told (to stop), gone
    stage,      \* attempt -> what this engine has heard from its worker
    goodbyes,   \* workers whose unregister request is on its way
    workers,    \* the registered workers, each with those registered before it: _workers
    unanswered, \* attempt -> challenges it has not answered
    gate,       \* the gate in _execution_ready, named by the attempt that installed it
    opened,     \* the gates that are set
    stopper,    \* the reset or reload under way
    sweep,      \* the heartbeat loop
    node,       \* node -> where its execution is
    waitsOn,    \* node -> the gate object it waits on
    target,     \* node -> the worker it picked
    pending,    \* requests tracked by the RequestClient
    abandoned,  \* requests it gave up and still remembers, oldest first
    sent,       \* requests at their worker
    replies,    \* answers on their way back
    relayed,    \* answers no request wanted, relayed to the GUI
    forgotten,  \* requests dropped from `abandoned` at its limit
    strays,     \* attempts the records lost: a reload dropped their claim or their process, or
                \* another worker's unregister request or another process took its place
    disturbed,  \* a start was honoured while a reset was under way
    stops       \* how many resets and reloads there were

spawning == <<task, requested, claim, managed, proc>>
joining  == <<stage, goodbyes, workers, unanswered>>
gates    == <<gate, opened>>
nodes    == <<node, waitsOn, target>>
requests == <<pending, abandoned, sent, replies, relayed, forgotten>>
counts   == <<strays, disturbed, stops>>
vars     == <<spawning, joining, gates, stopper, sweep, nodes, requests, counts>>

Idle    == [at |-> "idle", kind |-> "none", victim |-> None, ids |-> {}]
Resting == [at |-> "resting", todo |-> {}, wid |-> None, known |-> FALSE, victim |-> None]

Init ==
    /\ task = [p \in Procs |-> "none"]
    /\ requested = None /\ claim = None /\ managed = None
    /\ proc = [p \in Procs |-> "unborn"]
    /\ stage = [p \in Procs |-> "booting"]
    /\ goodbyes = {} /\ workers = Line!EmptyLine /\ unanswered = [p \in Procs |-> 0]
    /\ gate = None /\ opened = {}
    /\ stopper = Idle /\ sweep = Resting
    /\ node = [n \in Nodes |-> "idle"]
    /\ waitsOn = [n \in Nodes |-> None] /\ target = [n \in Nodes |-> None]
    /\ pending = {} /\ abandoned = <<>> /\ sent = {} /\ replies = {}
    /\ relayed = {} /\ forgotten = {}
    /\ strays = {} /\ disturbed = FALSE /\ stops = 0

-----------------------------------------------------------------------------
(* Helpers.                                                                 *)

\* has_settled: no gate was installed, or the one in force is set.
HasSettled == gate = None \/ gate \in opened

\* note_library_loaded, and note_worker_unavailable without its reason: set the gate in force.
Opened == IF gate = None THEN opened ELSE opened \cup {gate}

Registered == DOMAIN workers

\* is_worker_running_or_starting, for a library no other engine runs.
RunningOrStarting == requested # None \/ managed # None \/ Registered # {}

\* The bound on what is asked of the system.
MoreToCome ==
    Cardinality({p \in Procs : task[p] # "none"}) + Cardinality({n \in Nodes : node[n] # "idle"})
        + stops < Events

Reloading == stopper.kind = "reload"

\* Processes that run and that nobody has told to stop.
Running == {p \in Procs : proc[p] = "live"}

\* What a stop has nothing left to wait for: a process that is gone, or none at all.
Ended == {None} \cup {p \in Procs : proc[p] = "gone"}

\* A broken variant: nothing is ever forgotten.
RememberAll(S) ==
    \E order \in SetToSeqs(S) : abandoned' = abandoned \o order /\ UNCHANGED forgotten

\* _remember_abandoned_unlocked for each of the requests S, in some order: the oldest goes past
\* the limit.  It sets `abandoned` and `forgotten`.
Remember(S) ==
    \E order \in SetToSeqs(S) :
        LET all  == abandoned \o order
            over == IF Len(all) > Remembered THEN Len(all) - Remembered ELSE 0
        IN  /\ abandoned' = SubSeq(all, over + 1, Len(all))
            /\ forgotten' = forgotten \cup ToSet(SubSeq(all, 1, over))

\* A broken variant: the requests end, but are not remembered as given up.
FailAndDrop(W) ==
    LET failed == {n \in pending : target[n] \in W}
    IN  /\ pending' = pending \ failed
        /\ node' = [n \in Nodes |-> IF n \in failed THEN "ended" ELSE node[n]]
        /\ UNCHANGED <<abandoned, forgotten>>

\* fail_requests_by_tag for the workers W: each request tracked against one of them ends with
\* WorkerGoneError.  It sets `pending`, `abandoned`, `forgotten` and `node`.
FailRequestsOf(W) ==
    LET failed == {n \in pending : target[n] \in W}
    IN  /\ pending' = pending \ failed
        /\ Remember(failed)
        /\ node' = [n \in Nodes |-> IF n \in failed THEN "ended" ELSE node[n]]

-----------------------------------------------------------------------------
(* Starting a worker.                                                       *)

\* handle_start_worker_request, when it is honoured: a fresh gate and a scheduled task in one
\* step.  A reload has unregistered the library, so none is asked for until it ends.
StartWorker ==
    /\ ~RunningOrStarting /\ ~Reloading /\ MoreToCome
    /\ \E p \in Procs :
        /\ task[p] = "none" /\ \A q \in 1..(p - 1) : task[q] # "none"
        /\ task' = [task EXCEPT ![p] = "asked"]
        /\ requested' = p
        /\ gate' = p
    /\ disturbed' = (disturbed \/ stopper.at # "idle")
    /\ UNCHANGED <<claim, managed, proc, joining, opened, stopper, sweep,
                   nodes, requests, strays, stops>>

\* The spawn task of p ends: its request is forgotten while it is still its own.
EndTask(p) ==
    /\ task' = [task EXCEPT ![p] = "ended"]
    /\ requested' = IF requested = p THEN None ELSE requested

\* The claim of p is given back, but only while p still holds it.
FreeClaim(p) == claim' = IF claim = p THEN None ELSE claim

\* A broken variant: the registry entry, written after the fork, is the only guard.
SpawnUnclaimed(p) ==
    /\ task[p] = "asked"
    /\ \/ managed # None /\ EndTask(p)
       \/ managed = None /\ task' = [task EXCEPT ![p] = "spawning"] /\ UNCHANGED requested
    /\ UNCHANGED <<claim, managed, proc, joining, gates, stopper, sweep, nodes, requests, counts>>

\* spawn_worker's check and claim: refused while the key has a process or a claim.
ClaimSpawn(p) ==
    /\ task[p] = "asked"
    /\ \/ /\ managed # None \/ claim # None
          /\ EndTask(p) /\ UNCHANGED claim
       \/ /\ managed = None /\ claim = None
          /\ claim' = p
          /\ task' = [task EXCEPT ![p] = "spawning"]
          /\ UNCHANGED requested
    /\ UNCHANGED <<managed, proc, joining, gates, stopper, sweep, nodes, requests, counts>>

\* The worker command is refused before anything is claimed: the gate is released.
RefuseCommand(p) ==
    /\ task[p] = "asked"
    /\ EndTask(p)
    /\ opened' = Opened
    /\ UNCHANGED <<claim, managed, proc, joining, gate, stopper, sweep,
                   nodes, requests, counts>>

\* The operating system has forked the process; create_subprocess_exec has not returned yet.
Fork(p) ==
    /\ task[p] = "spawning"
    /\ task' = [task EXCEPT ![p] = "forked"]
    /\ proc' = [proc EXCEPT ![p] = "live"]
    /\ UNCHANGED <<requested, claim, managed, joining, gates, stopper, sweep,
                   nodes, requests, counts>>

\* The fork raises: the claim is freed and _log_spawn_error releases the gate.
ForkFails(p) ==
    /\ task[p] = "spawning"
    /\ EndTask(p) /\ FreeClaim(p)
    /\ opened' = Opened
    /\ UNCHANGED <<managed, proc, joining, gate, stopper, sweep, nodes, requests, counts>>

\* spawn_worker resumes after the fork: it records the process over whatever the key held.
RecordProcess(p) ==
    /\ task[p] = "forked"
    /\ managed' = p
    /\ strays' = strays \cup ({managed} \ {p, None})
    /\ EndTask(p) /\ FreeClaim(p)
    /\ UNCHANGED <<proc, joining, gates, stopper, sweep, nodes, requests, disturbed, stops>>

\* _settle_when_worker_exits_early: a managed process that exits before its library settled
\* is dropped and its gate released.
NoticeExit(p) ==
    /\ managed = p /\ proc[p] = "gone" /\ ~HasSettled
    /\ managed' = None
    /\ opened' = Opened
    /\ UNCHANGED <<task, requested, claim, proc, joining, gate, stopper, sweep,
                   nodes, requests, counts>>

-----------------------------------------------------------------------------
(* The worker process, as this engine sees it.  Its register request, its    *)
(* load report and its unregister request arrive in that order.             *)

\* The process ends, by itself at any moment or because it was told to.  What it sent last may
\* still arrive; if it sent nothing, it is silent from here on.
Exit(p) ==
    /\ proc[p] \in {"live", "told"}
    /\ proc' = [proc EXCEPT ![p] = "gone"]
    /\ \/ UNCHANGED stage
       \/ stage[p] # "serving" /\ stage' = [stage EXCEPT ![p] = "silent"]
    /\ UNCHANGED <<task, requested, claim, managed, goodbyes, workers, unanswered,
                   gates, stopper, sweep, nodes, requests, counts>>

\* It shuts down in good order: it sends its unregister request and ends.
LeaveCleanly(p) ==
    /\ proc[p] \in {"live", "told"} /\ stage[p] \in {"loading", "serving"}
    /\ proc' = [proc EXCEPT ![p] = "gone"]
    /\ goodbyes' = goodbyes \cup {p}
    /\ \/ UNCHANGED stage
       \/ stage[p] # "serving" /\ stage' = [stage EXCEPT ![p] = "silent"]
    /\ UNCHANGED <<task, requested, claim, managed, workers, unanswered,
                   gates, stopper, sweep, nodes, requests, counts>>

\* It answers a challenge: any heartbeat result clears the count.
AnswerChallenge(p) ==
    /\ proc[p] \in {"live", "told"} /\ p \in Registered /\ unanswered[p] > 0
    /\ unanswered' = [unanswered EXCEPT ![p] = 0]
    /\ UNCHANGED <<spawning, stage, goodbyes, workers, gates, stopper, sweep,
                   nodes, requests, counts>>

\* It answers a node's request.
AnswerNode(n) ==
    /\ n \in sent /\ proc[target[n]] \in {"live", "told"}
    /\ sent' = sent \ {n}
    /\ replies' = replies \cup {n}
    /\ UNCHANGED <<spawning, joining, gates, stopper, sweep, nodes,
                   pending, abandoned, relayed, forgotten, counts>>

-----------------------------------------------------------------------------
(* Registration.                                                            *)

\* The registrations of the workers W go, with their counts.
Forget(W) ==
    /\ workers' = Line!Remove(workers, W)
    /\ unanswered' = [p \in Procs |-> IF p \in W THEN 0 ELSE unanswered[p]]

\* handle_register_worker_request: what a running worker does next is to load the library.  A
\* process boots for longer than create_subprocess_exec takes to return.
Register(p) ==
    /\ proc[p] # "unborn" /\ stage[p] = "booting" /\ task[p] = "ended"
    /\ stage' = [stage EXCEPT ![p] = IF proc[p] = "gone" THEN "silent" ELSE "loading"]
    /\ workers' = Line!Enqueue(workers, p)
    /\ UNCHANGED <<spawning, goodbyes, unanswered, gates, stopper, sweep, nodes, requests, counts>>

\* The library's load report: it names the library, not the worker that loaded it.
HearLoad(p) ==
    /\ stage[p] = "loading"
    /\ stage' = [stage EXCEPT ![p] = "serving"]
    /\ opened' = Opened
    /\ UNCHANGED <<spawning, goodbyes, workers, unanswered, gate, stopper, sweep,
                   nodes, requests, counts>>

\* handle_unregister_worker_request, up to its await: the registration goes.
Unregister(p) ==
    /\ p \in goodbyes /\ stage[p] \in {"silent", "serving"}
    /\ goodbyes' = goodbyes \ {p}
    /\ stage' = [stage EXCEPT ![p] = IF p \in Registered THEN "leaving" ELSE "silent"]
    /\ Forget({p})
    /\ UNCHANGED <<spawning, gates, stopper, sweep, nodes, requests, counts>>

\* ... and after it: the key's process entry goes, whichever process that is, and the gate
\* of a library that had not settled is released.
FinishUnregister(p) ==
    /\ stage[p] = "leaving"
    /\ stage' = [stage EXCEPT ![p] = "silent"]
    /\ managed' = None
    /\ strays' = strays \cup ({managed} \ {p, None})
    /\ opened' = IF HasSettled THEN opened ELSE Opened
    /\ UNCHANGED <<task, requested, claim, proc, goodbyes, workers, unanswered,
                   gate, stopper, sweep, nodes, requests, disturbed, stops>>

-----------------------------------------------------------------------------
(* The heartbeat loop.                                                      *)

Unanswering == {p \in Registered : unanswered[p] >= Allowed}

\* evict_worker, up to its first await: the registration goes, if it is still there.
Evicting(p, todo) ==
    /\ sweep' = [Resting EXCEPT !.at = "unsubscribing", !.todo = todo \ {p}, !.wid = p,
                                !.known = p \in Registered]
    /\ Forget({p})
    /\ UNCHANGED <<spawning, stage, goodbyes, gates, stopper, nodes, requests, counts>>

\* A pass lists the workers to evict once, and evicts them one after the other.
BeginSweep(p) ==
    /\ sweep.at = "resting" /\ p \in Unanswering
    /\ Evicting(p, Unanswering)

EvictNext(p) ==
    /\ sweep.at = "evicting" /\ p \in sweep.todo
    /\ Evicting(p, sweep.todo)

\* The process p, if there is one and it runs, is told to stop.
Tell(p) == [q \in Procs |-> IF q = p /\ proc[q] = "live" THEN "told" ELSE proc[q]]

\* The key's process, whichever that is, is dropped and told to stop.
EvictProcess ==
    /\ sweep.at = "unsubscribing"
    /\ IF sweep.known
       THEN /\ sweep' = [sweep EXCEPT !.at = "terminating", !.victim = managed]
            /\ managed' = None
            /\ proc' = Tell(managed)
       ELSE sweep' = [sweep EXCEPT !.at = "terminating"] /\ UNCHANGED <<managed, proc>>
    /\ UNCHANGED <<task, requested, claim, joining, gates, stopper, nodes, requests, counts>>

\* A broken variant: the gate of an evicted worker that was loading stays closed.
EvictUnnoticed ==
    /\ sweep.at = "terminating" /\ sweep.victim \in Ended
    /\ FailRequestsOf({sweep.wid})
    /\ sweep' = IF sweep.todo = {} THEN Resting
                ELSE [Resting EXCEPT !.at = "evicting", !.todo = sweep.todo]
    /\ UNCHANGED <<spawning, joining, gates, stopper, waitsOn, target, sent, replies, relayed, counts>>

\* A broken variant: what awaits an evicted worker is left awaiting it.
EvictUnfailed ==
    /\ sweep.at = "terminating" /\ sweep.victim \in Ended
    /\ opened' = IF sweep.known THEN Opened ELSE opened
    /\ sweep' = IF sweep.todo = {} THEN Resting
                ELSE [Resting EXCEPT !.at = "evicting", !.todo = sweep.todo]
    /\ UNCHANGED <<spawning, joining, gate, stopper, nodes, requests, counts>>

\* Once that process is gone: what awaits the worker fails, and the gate is released.
FinishEviction ==
    /\ sweep.at = "terminating" /\ sweep.victim \in Ended
    /\ FailRequestsOf({sweep.wid})
    /\ opened' = IF sweep.known THEN Opened ELSE opened
    /\ sweep' = IF sweep.todo = {} THEN Resting
                ELSE [Resting EXCEPT !.at = "evicting", !.todo = sweep.todo]
    /\ UNCHANGED <<spawning, joining, gate, stopper, waitsOn, target, sent, replies, relayed, counts>>

\* After the evictions each registered worker is challenged.  Only a challenge that went out
\* counts, so a send that fails is no step; the count stops at the limit.
Challenge(p) ==
    /\ sweep.at = "resting" /\ p \in Registered /\ unanswered[p] < Allowed
    /\ unanswered' = [unanswered EXCEPT ![p] = @ + 1]
    /\ UNCHANGED <<spawning, stage, goodbyes, workers, gates, stopper, sweep, nodes, requests, counts>>

-----------------------------------------------------------------------------
(* Resets and reloads.                                                      *)

\* _withdraw_spawn_requests: the request is forgotten.  A task that has not begun to spawn is
\* cancelled; one that has is left to finish, or its process could be left running untracked.
Withdrawn == requested # None /\ claim = None

WithdrawRequest ==
    /\ requested' = None
    /\ task' = IF Withdrawn THEN [task EXCEPT ![requested] = "ended"] ELSE task

\* _stop_workers, up to its first await: the process is dropped, then told to stop.
BeginStop(kind) ==
    /\ WithdrawRequest
    /\ managed' = None
    /\ proc' = Tell(managed)
    /\ stopper' = [Idle EXCEPT !.at = "terminating", !.kind = kind, !.victim = managed]

\* A reset's stop also releases the gate of a request it withdrew.
BeginReset == BeginStop("reset") /\ opened' = IF Withdrawn THEN Opened ELSE opened

\* A broken variant: a spawn under way is not waited out.
ResetAtOnce ==
    /\ stopper.at = "idle" /\ MoreToCome
    /\ stops' = stops + 1
    /\ BeginReset
    /\ UNCHANGED <<claim, joining, gate, sweep, nodes, requests, strays, disturbed>>

\* stop_worker_for_library: a spawn under way is waited out first.
ResetLibrary ==
    /\ stopper.at = "idle" /\ MoreToCome
    /\ stops' = stops + 1
    /\ IF claim = None
       THEN BeginReset
       ELSE /\ stopper' = [Idle EXCEPT !.at = "waiting", !.kind = "reset", !.victim = claim]
            /\ UNCHANGED <<task, requested, managed, proc, opened>>
    /\ UNCHANGED <<claim, joining, gate, sweep, nodes, requests, strays, disturbed>>

\* The claim it waits on is set once that spawn is over, whoever holds the key by then.
ClaimReleased ==
    /\ stopper.at = "waiting" /\ task[stopper.victim] = "ended"
    /\ BeginReset
    /\ UNCHANGED <<claim, joining, gate, sweep, nodes, requests, counts>>

\* _run_reload_libraries: every run is cancelled, every library is unloaded (which forgets its
\* gate), and reset_workers begins.
ReloadLibraries ==
    /\ stopper.at = "idle" /\ MoreToCome
    /\ stops' = stops + 1
    /\ node' = [n \in Nodes |-> IF node[n] = "idle" THEN "idle" ELSE "ended"]
    /\ waitsOn' = [n \in Nodes |-> None]
    /\ pending' = {} /\ Remember(pending)
    /\ gate' = None
    /\ BeginStop("reload")
    /\ UNCHANGED <<claim, joining, opened, sweep, target, sent, replies, relayed, strays, disturbed>>

\* Once the process is gone: the registered workers are read, and what awaits them fails.
FailTheirRequests ==
    /\ stopper.at = "terminating"
    /\ stopper.victim \in Ended
    /\ FailRequestsOf(Registered)
    /\ stopper' = [stopper EXCEPT !.at = "unsubscribing", !.victim = None, !.ids = Registered]
    /\ UNCHANGED <<spawning, joining, gates, sweep, waitsOn, target, sent, replies, relayed, counts>>

\* After the topics are unsubscribed: a reset forgets the workers it read and releases the gate.
FinishReset ==
    /\ stopper.at = "unsubscribing" /\ stopper.kind = "reset"
    /\ Forget(stopper.ids)
    /\ opened' = Opened
    /\ stopper' = Idle
    /\ UNCHANGED <<spawning, stage, goodbyes, gate, sweep, nodes, requests, counts>>

\* A reload forgets everything, a spawn's claim and a process recorded meanwhile included.
FinishReload ==
    /\ stopper.at = "unsubscribing" /\ stopper.kind = "reload"
    /\ Forget(Procs) /\ managed' = None /\ claim' = None
    /\ strays' = strays \cup ({managed, claim} \ {None})
    /\ stopper' = Idle
    /\ UNCHANGED <<task, requested, proc, stage, goodbyes, gates, sweep,
                   nodes, requests, disturbed, stops>>

-----------------------------------------------------------------------------
(* A node of the library runs.                                              *)

\* get_worker_for_key: the worker registered first, if there is one.
Picks(n) ==
    \/ Registered = {} /\ node' = [node EXCEPT ![n] = "ended"] /\ UNCHANGED target
    \/ \E p \in Line!Heads(workers) :
        node' = [node EXCEPT ![n] = "picked"] /\ target' = [target EXCEPT ![n] = p]

\* wait_until_executable: at once when the library has settled, or on the gate in force.
RunNode(n) ==
    /\ node[n] = "idle" /\ ~Reloading /\ MoreToCome
    /\ \/ /\ HasSettled
          /\ Picks(n) /\ UNCHANGED waitsOn
       \/ /\ ~HasSettled
          /\ node' = [node EXCEPT ![n] = "waiting"]
          /\ waitsOn' = [waitsOn EXCEPT ![n] = gate]
          /\ UNCHANGED target
    /\ UNCHANGED <<spawning, joining, gates, stopper, sweep, requests, counts>>

\* The gate it waits on is set, or the load timeout passes.
StopWaiting(n) ==
    /\ node[n] = "waiting"
    /\ \/ waitsOn[n] \in opened /\ Picks(n)
       \/ node' = [node EXCEPT ![n] = "ended"] /\ UNCHANGED target
    /\ waitsOn' = [waitsOn EXCEPT ![n] = None]
    /\ UNCHANGED <<spawning, joining, gates, stopper, sweep, requests, counts>>

\* route_to_worker: the request is tracked, then sent.
Route(n) ==
    /\ node[n] = "picked"
    /\ node' = [node EXCEPT ![n] = "awaiting"]
    /\ pending' = pending \cup {n}
    /\ sent' = sent \cup {n}
    /\ UNCHANGED <<spawning, joining, gates, stopper, sweep, waitsOn, target,
                   abandoned, replies, relayed, forgotten, counts>>

\* It is tracked and cannot be sent: the entry is discarded.
RouteFails(n) ==
    /\ node[n] = "picked"
    /\ node' = [node EXCEPT ![n] = "ended"]
    /\ Remember({n})
    /\ UNCHANGED <<spawning, joining, gates, stopper, sweep, waitsOn, target,
                   pending, sent, replies, relayed, counts>>

\* The node's run is cancelled: route_to_worker discards the request on its way out.
CancelNode(n) ==
    /\ node[n] \in {"waiting", "awaiting"}
    /\ node' = [node EXCEPT ![n] = "ended"]
    /\ waitsOn' = [waitsOn EXCEPT ![n] = None]
    /\ pending' = pending \ {n}
    /\ Remember(pending \cap {n})
    /\ UNCHANGED <<spawning, joining, gates, stopper, sweep, target, sent, replies, relayed, counts>>

\* _try_match, then _claim_worker_result: the reply to an abandoned request is dropped, one a
\* node awaits ends it, and any other is relayed to the GUI.
HearReply(n) ==
    /\ n \in replies
    /\ replies' = replies \ {n}
    /\ \/ /\ \E i \in DOMAIN abandoned : abandoned[i] = n /\ abandoned' = RemoveAt(abandoned, i)
          /\ UNCHANGED <<pending, node, relayed>>
       \/ /\ n \notin ToSet(abandoned) /\ n \in pending
          /\ pending' = pending \ {n}
          /\ node' = [node EXCEPT ![n] = "ended"]
          /\ UNCHANGED <<abandoned, relayed>>
       \/ /\ n \notin ToSet(abandoned) \cup pending
          /\ relayed' = relayed \cup {n}
          /\ UNCHANGED <<pending, node, abandoned>>
    /\ UNCHANGED <<spawning, joining, gates, stopper, sweep, waitsOn, target, sent, forgotten, counts>>

-----------------------------------------------------------------------------
Spawns(p) == ClaimSpawn(p) \/ RefuseCommand(p) \/ Fork(p) \/ ForkFails(p) \/ RecordProcess(p)

Handles(p) == Register(p) \/ HearLoad(p) \/ Unregister(p) \/ FinishUnregister(p) \/ NoticeExit(p)

WorkerActs(p) == AnswerChallenge(p) \/ Exit(p) \/ LeaveCleanly(p)

Evictions ==
    \/ EvictProcess \/ FinishEviction
    \/ \E p \in Procs : BeginSweep(p) \/ EvictNext(p)

StopGoesOn == ClaimReleased \/ FailTheirRequests \/ FinishReset \/ FinishReload

NodeActs(n) ==
    \/ RunNode(n) \/ StopWaiting(n) \/ Route(n) \/ RouteFails(n)
    \/ CancelNode(n) \/ AnswerNode(n) \/ HearReply(n)

Next ==
    \/ StartWorker \/ ResetLibrary \/ ReloadLibraries
    \/ \E p \in Procs : Spawns(p) \/ WorkerActs(p) \/ Handles(p) \/ Challenge(p)
    \/ Evictions \/ StopGoesOn
    \/ \E n \in Nodes : NodeActs(n)

Spec == Init /\ [][Next]_vars

\* The event loops run what is ready; a process told to stop ends (SIGKILL follows SIGTERM); a
\* live one comes to register and to load, unless it ends; the heartbeat loop goes on, and a
\* challenge to a worker gets through in the end.
\* Nothing makes a worker answer, a node start, or a reset or reload happen.
FairSpec ==
    /\ Spec
    /\ \A p \in Procs :
        /\ WF_vars(Spawns(p)) /\ WF_vars(Handles(p))
        /\ WF_vars(proc[p] = "told" /\ Exit(p))
        /\ WF_vars(Challenge(p))
    /\ WF_vars(StopGoesOn)
    /\ WF_vars(Evictions)

-----------------------------------------------------------------------------
(* Properties.                                                              *)

\* Every variable keeps its type, and the RequestClient remembers no more abandoned requests
\* than its limit.
TypeOK ==
    /\ task \in [Procs -> {"none", "asked", "spawning", "forked", "ended"}]
    /\ {requested, claim, managed, gate} \subseteq Procs \cup {None}
    /\ proc \in [Procs -> {"unborn", "live", "told", "gone"}]
    /\ stage \in [Procs -> {"booting", "loading", "serving", "silent", "leaving"}]
    /\ goodbyes \cup opened \cup strays \subseteq Procs
    /\ workers \in Line!Lines(Procs)
    /\ unanswered \in [Procs -> 0..Allowed]
    /\ stopper \in [at : {"idle", "waiting", "terminating", "unsubscribing"},
                    kind : {"none", "reset", "reload"},
                    victim : Procs \cup {None}, ids : SUBSET Procs]
    /\ sweep \in [at : {"resting", "evicting", "unsubscribing", "terminating"},
                  todo : SUBSET Procs, wid : Procs \cup {None}, known : BOOLEAN,
                  victim : Procs \cup {None}]
    /\ node \in [Nodes -> {"idle", "waiting", "picked", "awaiting", "ended"}]
    /\ waitsOn \in [Nodes -> Procs \cup {None}] /\ target \in [Nodes -> Procs \cup {None}]
    /\ pending \cup sent \cup replies \cup relayed \cup forgotten \subseteq Nodes
    /\ abandoned \in Seq(Nodes) /\ Len(abandoned) <= Remembered
    /\ disturbed \in BOOLEAN /\ stops \in 0..Events

\* Of the processes that run for the library and were not told to stop, at most one is not among
\* those the records lost: nothing but such a loss makes the "second fork" that the comments of
\* spawn_worker speak of, however starts, refusals, evictions, resets and exits interleave.
ForksCounted == \A p, q \in Running : p # q => p \in strays \/ q \in strays

\* What stop_worker_for_library promises: once it returns, no worker of the library is running
\* or about to start, unless one was asked for during a reset, this or an earlier one, or the records lost one.
ResetLeavesNone ==
    [][ stopper.kind = "reset" /\ stopper.at # "idle" /\ stopper'.at = "idle"
          /\ strays = {} /\ ~disturbed
        => /\ Running' = {}
           /\ \A p \in Procs : task'[p] \notin {"asked", "spawning", "forked"} ]_vars

\* A late answer to a request the RequestClient gave up is claimed and dropped, never relayed
\* to the GUI, while it remembers that request.
LateRepliesDropped == relayed \subseteq forgotten

\* wait_until_executable "cannot hang": the gate in force is set in the end, whether the worker
\* loads, is refused, dies, leaves, is evicted or reset, or a reload or a new start replaces it.
GateReleased ==
    \A p \in Procs : (gate = p /\ p \notin opened) ~> (gate # p \/ p \in opened)

\* route_to_worker has no time limit, and relies on whoever retires a worker: a node whose
\* request is tracked against a registered worker that died without a word is released, by an
\* eviction, a reset or a reload; a reset already past its requests is excepted.
DeathReleases ==
    \A n \in Nodes, p \in Procs :
        (node[n] = "awaiting" /\ target[n] = p /\ p \in Registered /\ proc[p] = "gone"
           /\ p \notin goodbyes /\ stopper.at # "unsubscribing")
        ~> node[n] # "awaiting"
==============================================================================
