---------------------------- MODULE EngineLeases ----------------------------
(***************************************************************************)
(* Leases on an engine that runs nodes for other engines                   *)
(* (worker_manager.py).  Each of the Engines asks one host for a lease     *)
(* before it sends a node to a worker there; the host lines the leases up, *)
(* lets one hold it at a time, and its workers ask it before each node.    *)
(*                                                                         *)
(* Code between two awaits is one action.  Requests travel in one channel  *)
(* per engine, from which the kinds in Losable may be lost.  The freeing   *)
(* of workers between two engines' leases is a suspension point.           *)
(***************************************************************************)
EXTENDS Naturals, RunQueue

CONSTANTS
  Engines,      \* the engines that ask
  Runs,         \* their runs
  Nodes,        \* the nodes they send to the host
  Leases,       \* the lease ids they draw
  HomeOf,       \* the engine of each node and lease
  RunOf,        \* the run of each node, None for a node run on its own
  Ordered,      \* whether a channel keeps the order of its requests
  Losable,      \* the kinds of request of each engine that may be lost, or their reply
  MaxTries,     \* _REPORT_ATTEMPTS
  Joined,       \* the engines whose session and worker the host has at the start
  Bounds,       \* how often each engine offers its session, resets its workers (withdrawals)
                \* and loses its connection (faults)
  None

ASSUME LeasesAssumption ==
  /\ None \notin Engines \cup Runs \cup Leases
  /\ HomeOf \in [Nodes \cup Leases -> Engines]
  /\ RunOf \in [Nodes -> Runs \cup {None}]
  /\ \A m, n \in Nodes : RunOf[m] = RunOf[n] /\ RunOf[n] # None => HomeOf[m] = HomeOf[n]
  /\ Losable \in [Engines -> SUBSET {"offer", "acquire", "release", "withdraw"}]
  /\ Ordered \in BOOLEAN /\ Joined \subseteq Engines
  /\ MaxTries \in Nat \ {0}
  /\ Bounds \in [Engines -> [offers : Nat, faults : Nat, withdrawals : Nat]]

VARIABLES
  \* the engines that ask
  offer,     \* their registration with the host: "no" (none kept), "asked" or "accepted"
  loaded,    \* the engines for which a worker on the host is registered and loaded
  table,     \* _leases of all of them
  runLease,  \* _run_leases
  leaseRun,  \* EngineLease.run_id
  acquire,   \* EngineLease.request_task: how the acquire of each lease stands
  node,      \* where each node is, as its engine sees it
  nodeLease, \* the lease it waits on or was sent under
  over,      \* the runs that ended
  notice,    \* the task that tells the host a lease was released (_report_until_answered)
  tries,     \* its attempts
  \* the host
  sessions,  \* _sessions: the engines whose session registered
  line,      \* the run queue of _lease_line
  front,     \* its run in progress
  stage,     \* where that run's driver is: "starting", "freeing" or "holding"
  known,     \* _engine_runs
  granted,   \* _EngineRun.granted
  released,  \* the leases whose _EngineRun.released is set
  answering, \* the acquires that are unanswered: the handler awaits granted, or its reply travels
  last,      \* _last_engine_run_engine_id
  work,      \* where each node sent to a worker of the host is there
  \* the transport
  up,        \* whether the engine and the host are connected
  unheard,   \* the sides that have not heard that the connection was lost
  chan,      \* the requests on their way to the host
  replies,   \* its replies on their way back
  used       \* how often each bounded event happened

Requests ==
  [kind : {"offer", "withdraw"}, id : Nat]
    \cup [kind : {"acquire", "release"}, lease : Leases, id : Nat]
Replies == [to : Engines, request : Requests, ok : BOOLEAN]

TypeOK ==
  /\ offer \in [Engines -> {"no", "asked", "accepted"}]
  /\ loaded \subseteq Engines
  /\ table \subseteq Leases
  /\ runLease \in [Runs -> Leases \cup {None}]
  /\ leaseRun \in [Leases -> Runs \cup {None}]
  /\ acquire \in [Leases -> {"unused", "asking", "granted", "failed", "lost", "cancelled"}]
  /\ node \in [Nodes -> {"idle", "waiting", "sent", "done"}]
  /\ nodeLease \in [Nodes -> Leases \cup {None}]
  /\ over \subseteq Runs
  /\ notice \in [Leases -> {"none", "due", "sent", "over", "gaveup"}]
  /\ tries \in [Leases -> 0..MaxTries]
  /\ sessions \subseteq Engines
  /\ line \in Lines(Leases)
  /\ front \in Leases \cup {None}
  /\ stage \in {"idle", "starting", "freeing", "holding"}
  /\ known \subseteq Leases
  /\ granted \in [Leases -> {"unknown", "waiting", "yes", "refused"}]
  /\ released \subseteq Leases
  /\ answering \subseteq Leases
  /\ last \in Engines \cup {None}
  /\ work \in [Nodes -> {"none", "arrived", "allowed", "running"}]
  /\ up \subseteq Engines
  /\ unheard \in [Engines -> SUBSET {"host", "engine"}]
  /\ \A e \in Engines :
       DOMAIN chan[e] \subseteq Requests /\ chan[e] \in [DOMAIN chan[e] -> SUBSET Requests]
  /\ replies \subseteq Replies
  /\ used \in [Engines -> [offers : Nat, faults : Nat, withdrawals : Nat]]

Init ==
  /\ offer = [e \in Engines |-> IF e \in Joined THEN "accepted" ELSE "no"]
  /\ loaded = Joined
  /\ table = {}
  /\ runLease = [r \in Runs |-> None]
  /\ leaseRun = [l \in Leases |-> None]
  /\ acquire = [l \in Leases |-> "unused"]
  /\ node = [n \in Nodes |-> "idle"]
  /\ nodeLease = [n \in Nodes |-> None]
  /\ over = {}
  /\ notice = [l \in Leases |-> "none"]
  /\ tries = [l \in Leases |-> 0]
  /\ sessions = Joined
  /\ line = EmptyLine
  /\ front = None
  /\ stage = "idle"
  /\ known = {}
  /\ granted = [l \in Leases |-> "unknown"]
  /\ released = {}
  /\ answering = {}
  /\ last = None
  /\ work = [n \in Nodes |-> "none"]
  /\ up = Engines
  /\ unheard = [e \in Engines |-> {}]
  /\ chan = [e \in Engines |-> EmptyLine]
  /\ replies = {}
  /\ used = [e \in Engines |-> [offers |-> 0, faults |-> 0, withdrawals |-> 0]]

LeasesOf(e) == {l \in Leases : HomeOf[l] = e}

-----------------------------------------------------------------------------
(* Requests: nothing is put on a lost connection.  Without order, nothing  *)
(* is ahead of anything.                                                   *)

Send(e, request) ==
  chan' = IF e \notin up THEN chan
          ELSE IF Ordered THEN [chan EXCEPT ![e] = Enqueue(@, request)]
          ELSE [chan EXCEPT ![e] = [m \in DOMAIN @ \cup {request} |-> {}]]

Take(e, request) ==
  /\ request \in Heads(chan[e])
  /\ chan' = [chan EXCEPT ![e] = Remove(@, {request})]

Reply(e, request, ok) ==
  replies' = IF e \in up
             THEN replies \cup {[to |-> e, request |-> request, ok |-> ok]}
             ELSE replies

-----------------------------------------------------------------------------
(* The engine that asks.                                                   *)

offerVars == <<offer, loaded>>
leaseVars == <<table, runLease, leaseRun, acquire, notice, tries>>
nodeVars == <<node, nodeLease, over>>
lineVars == <<line, front, stage, known, granted, released>>
hostVars == <<sessions, lineVars, answering, last>>
netVars == <<up, unheard, chan, replies>>
OtherVars == <<offerVars, leaseVars, nodeVars, used>>  \* what only the asking engines change
vars == <<offerVars, leaseVars, nodeVars, hostVars, work, netVars, used>>

(* _register_with_engine: each start of a worker offers the session anew.  *)
Offer(e) ==
  /\ offer[e] # "asked"
  /\ used[e].offers < Bounds[e].offers
  /\ used' = [used EXCEPT ![e].offers = @ + 1]
  /\ offer' = [offer EXCEPT ![e] = "asked"]
  /\ Send(e, [kind |-> "offer", id |-> used[e].offers + 1])
  /\ UNCHANGED <<loaded, leaseVars, nodeVars, hostVars, work, up, unheard, replies>>

(* The answer of the latest offer lets the worker start and register.      *)
OfferAnswered(e) ==
  \E reply \in replies :
    /\ reply.request.kind = "offer" /\ reply.to = e
    /\ replies' = replies \ {reply}
    /\ IF offer[e] = "asked" /\ reply.request.id = used[e].offers
       THEN /\ offer' = [offer EXCEPT ![e] = "accepted"]
            /\ loaded' = loaded \cup {e}
       ELSE UNCHANGED offerVars
    /\ UNCHANGED <<leaseVars, nodeVars, hostVars, work, up, unheard, chan, used>>

(* _forget_unaccepted_registration, after the request timed out or failed. *)
OfferFails(e) ==
  /\ offer[e] = "asked"
  /\ "offer" \in Losable[e] \/ e \notin up
  /\ offer' = [offer EXCEPT ![e] = "no"]
  /\ UNCHANGED <<loaded, leaseVars, nodeVars, hostVars, work, netVars, used>>

(* _lease_for: the node's run has a lease there already, or acquires one.  *)
WaitOnRunsLease(n) ==
  /\ RunOf[n] # None
  /\ runLease[RunOf[n]] # None
  /\ nodeLease' = [nodeLease EXCEPT ![n] = runLease[RunOf[n]]]
  /\ UNCHANGED <<leaseVars, chan>>

(* A broken variant: each node of a run acquires a lease of its own.       *)
AcquireLeasePerNode(n, l) ==
  /\ acquire[l] = "unused" /\ HomeOf[l] = HomeOf[n]
  /\ table' = table \cup {l}
  /\ leaseRun' = [leaseRun EXCEPT ![l] = RunOf[n]]
  /\ acquire' = [acquire EXCEPT ![l] = "asking"]
  /\ runLease' = [r \in Runs |-> IF r = RunOf[n] THEN l ELSE runLease[r]]
  /\ nodeLease' = [nodeLease EXCEPT ![n] = l]
  /\ Send(HomeOf[n], [kind |-> "acquire", lease |-> l, id |-> 0])
  /\ UNCHANGED <<notice, tries>>

AcquireLease(n, l) ==
  /\ RunOf[n] # None => runLease[RunOf[n]] = None
  /\ acquire[l] = "unused" /\ HomeOf[l] = HomeOf[n]
  /\ table' = table \cup {l}
  /\ leaseRun' = [leaseRun EXCEPT ![l] = RunOf[n]]
  /\ acquire' = [acquire EXCEPT ![l] = "asking"]
  /\ runLease' = [r \in Runs |-> IF r = RunOf[n] THEN l ELSE runLease[r]]
  /\ nodeLease' = [nodeLease EXCEPT ![n] = l]
  /\ Send(HomeOf[n], [kind |-> "acquire", lease |-> l, id |-> 0])
  /\ UNCHANGED <<notice, tries>>

(* acquire_lease, for a library whose worker runs on the host.             *)
StartNode(n) ==
  /\ node[n] = "idle" /\ RunOf[n] \notin over
  /\ HomeOf[n] \in loaded
  /\ node' = [node EXCEPT ![n] = "waiting"]
  /\ WaitOnRunsLease(n) \/ \E l \in Leases : AcquireLease(n, l)
  /\ UNCHANGED <<offerVars, over, hostVars, work, up, unheard, replies, used>>

(* A broken variant: only a lease that was granted is reported.            *)
EndGrantedLeases(L) ==
  LET ending == L \cap table IN
  /\ table' = table \ L
  /\ runLease' = [r \in Runs |-> IF runLease[r] \in ending THEN None ELSE runLease[r]]
  /\ acquire' = [l \in Leases |->
                   IF l \in ending /\ acquire[l] = "asking" THEN "cancelled" ELSE acquire[l]]
  /\ notice' = [l \in Leases |->
                  IF l \in ending /\ acquire[l] = "granted" THEN "due" ELSE notice[l]]
  /\ UNCHANGED <<leaseRun, tries>>

(* _end_lease: once for each lease still in the table.                     *)
EndLeases(L) ==
  LET ending == L \cap table IN
  /\ table' = table \ L
  /\ runLease' = [r \in Runs |-> IF runLease[r] \in ending THEN None ELSE runLease[r]]
  /\ acquire' = [l \in Leases |->
                   IF l \in ending /\ acquire[l] = "asking" THEN "cancelled" ELSE acquire[l]]
  /\ notice' = [l \in Leases |-> IF l \in ending THEN "due" ELSE notice[l]]
  /\ UNCHANGED <<leaseRun, tries>>

(* release_after_node: a run keeps its lease for its later nodes.          *)
OwnLease(n) == {l \in {nodeLease[n]} \cap Leases : leaseRun[l] = None}

(* handle_acquire_lease_request goes on once granted is resolved, and its  *)
(* answer arrives.                                                         *)
AcquireAnswered(l) ==
  /\ l \in answering /\ granted[l] \in {"yes", "refused"}
  /\ answering' = answering \ {l}
  /\ acquire' = [acquire EXCEPT ![l] =
                   IF @ # "asking" THEN @ ELSE IF granted[l] = "yes" THEN "granted" ELSE "failed"]
  /\ UNCHANGED <<offerVars, table, runLease, leaseRun, notice, tries, nodeVars, sessions, lineVars,
                 last, work, netVars, used>>

(* The acquire has no timeout: only a lost connection ends it unanswered.  *)
AcquireLost(l) ==
  /\ acquire[l] = "asking" /\ HomeOf[l] \notin up
  /\ acquire' = [acquire EXCEPT ![l] = "lost"]
  /\ UNCHANGED <<offerVars, table, runLease, leaseRun, notice, tries, nodeVars, hostVars, work,
                 netVars, used>>

(* The node hears how the acquire ended, and is sent to the worker under   *)
(* its lease.  A lease that failed is ended, so that the run's next node   *)
(* asks again.                                                             *)
NodeHears(n) ==
  LET l == nodeLease[n] IN
  /\ node[n] = "waiting" /\ acquire[l] # "asking"
  /\ IF acquire[l] = "granted"
     THEN /\ node' = [node EXCEPT ![n] = "sent"]
          /\ work' = [work EXCEPT ![n] = "arrived"]
          /\ UNCHANGED leaseVars
     ELSE /\ node' = [node EXCEPT ![n] = "done"]
          /\ EndLeases(IF acquire[l] = "cancelled" THEN OwnLease(n) ELSE {l})
          /\ UNCHANGED work
  /\ UNCHANGED <<offerVars, nodeLease, over, hostVars, netVars, used>>

(* The worker's answer arrives, or the node is cancelled, or its worker is *)
(* given up.                                                               *)
NodeEnds(n) ==
  /\ node[n] \in {"waiting", "sent"}
  /\ node' = [node EXCEPT ![n] = "done"]
  /\ EndLeases(OwnLease(n))
  /\ UNCHANGED <<offerVars, nodeLease, over, hostVars, work, netVars, used>>

(* The run's ended future is set, whose callbacks end each of its leases.  *)
RunEnds(r) ==
  /\ r \notin over
  /\ over' = over \cup {r}
  /\ EndLeases({l \in Leases : leaseRun[l] = r})
  /\ UNCHANGED <<offerVars, node, nodeLease, hostVars, work, netVars, used>>

(* _report_until_answered: an attempt that cannot be sent counts too.      *)
TellReleased(l) ==
  /\ notice[l] = "due"
  /\ IF offer[HomeOf[l]] = "no"
     THEN notice' = [notice EXCEPT ![l] = "over"] /\ UNCHANGED <<tries, chan>>
     ELSE /\ notice' = [notice EXCEPT ![l] = "sent"]
          /\ tries' = [tries EXCEPT ![l] = @ + 1]
          /\ Send(HomeOf[l], [kind |-> "release", lease |-> l, id |-> tries[l] + 1])
  /\ UNCHANGED <<offerVars, table, runLease, leaseRun, acquire, nodeVars, hostVars, work, up,
                 unheard, replies, used>>

ReleaseAnswered(l) ==
  \E reply \in replies :
    /\ reply.request.kind = "release" /\ reply.request.lease = l
    /\ replies' = replies \ {reply}
    /\ notice' = [notice EXCEPT ![l] =
                    IF @ = "sent" /\ reply.request.id = tries[l] THEN "over" ELSE @]
    /\ UNCHANGED <<offerVars, table, runLease, leaseRun, acquire, tries, nodeVars, hostVars, work,
                   up, unheard, chan, used>>

(* A broken variant: a report is repeated until it is answered.            *)
ReleaseRepeated(l) ==
  /\ notice[l] = "sent"
  /\ "release" \in Losable[HomeOf[l]] \/ HomeOf[l] \notin up
  /\ notice' = [notice EXCEPT ![l] = "due"]
  /\ UNCHANGED <<offerVars, table, runLease, leaseRun, acquire, tries, nodeVars, hostVars, work,
                 netVars, used>>

ReleaseUnanswered(l) ==
  /\ notice[l] = "sent"
  /\ "release" \in Losable[HomeOf[l]] \/ HomeOf[l] \notin up
  /\ notice' = [notice EXCEPT ![l] = IF tries[l] = MaxTries THEN "gaveup" ELSE "due"]
  /\ UNCHANGED <<offerVars, table, runLease, leaseRun, acquire, tries, nodeVars, hostVars, work,
                 netVars, used>>

(* _forget_leases_on: neither released nor cancelled.                      *)
ForgetLeases(e) ==
  /\ table' = table \ LeasesOf(e)
  /\ runLease' = [r \in Runs |-> IF runLease[r] \in LeasesOf(e) THEN None ELSE runLease[r]]
  /\ UNCHANGED <<leaseRun, acquire, notice, tries>>

(* reset_workers, _withdraw_session_offers: the withdrawal is sent once.   *)
Withdraw(e) ==
  /\ offer[e] # "no"
  /\ used[e].withdrawals < Bounds[e].withdrawals
  /\ used' = [used EXCEPT ![e].withdrawals = @ + 1]
  /\ offer' = [offer EXCEPT ![e] = "no"]
  /\ loaded' = loaded \ {e}
  /\ ForgetLeases(e)
  /\ Send(e, [kind |-> "withdraw", id |-> used[e].withdrawals + 1])
  /\ UNCHANGED <<nodeVars, hostVars, work, up, unheard, replies>>

(* on_engine_lost, on the side that asked.  Its registered worker stays    *)
(* registered: heartbeats decide whether it is alive.                      *)
EngineHearsLoss(e) ==
  /\ "engine" \in unheard[e]
  /\ unheard' = [unheard EXCEPT ![e] = @ \ {"engine"}]
  /\ offer' = [offer EXCEPT ![e] = "no"]
  /\ ForgetLeases(e)
  /\ UNCHANGED <<loaded, nodeVars, hostVars, work, up, chan, replies, used>>

-----------------------------------------------------------------------------
(* The host.                                                               *)

(* holds_engine *)
Holds(l) == granted[l] = "yes" /\ l \notin released

(* A broken variant: a lease in line starts beside the one in progress.    *)
StartNextAtOnce(l) ==
  IF Heads(l) = {}
  THEN line' = l /\ UNCHANGED <<front, stage>>
  ELSE \E next \in Heads(l) :
         /\ front' = next
         /\ line' = Remove(l, {next})
         /\ stage' = "starting"

(* _start_next_run_if_idle of the line of leases.                          *)
StartNextIfIdle(l) ==
  IF front # None \/ Heads(l) = {}
  THEN line' = l /\ UNCHANGED <<front, stage>>
  ELSE \E next \in Heads(l) :
         /\ front' = next
         /\ line' = Remove(l, {next})
         /\ stage' = "starting"

(* handle_acquire_lease_request, up to its wait for the grant.             *)
ReceiveAcquire(e) ==
  \E request \in DOMAIN chan[e] :
    /\ request.kind = "acquire"
    /\ Take(e, request)
    /\ IF e \notin sessions
       THEN /\ granted' = [granted EXCEPT ![request.lease] = "refused"]
            /\ UNCHANGED <<line, front, stage, known>>
       ELSE /\ granted' = [granted EXCEPT ![request.lease] = "waiting"]
            /\ known' = known \cup {request.lease}
            /\ StartNextIfIdle(Enqueue(line, request.lease))
    /\ answering' = answering \cup {request.lease}
    /\ UNCHANGED <<OtherVars, sessions, released, last, work, up, unheard, replies>>

(* A broken variant: a lease that is still in line stays there.            *)
EndGrantedRuns(L) ==
  /\ released' = released \cup {l \in L \cap known : granted[l] = "yes"}
  /\ UNCHANGED <<granted, known, line, front, stage>>

(* _end_engine_run of each of L: a lease that was granted is released; one *)
(* that was not is refused, released and forgotten (refuse_engine_run),    *)
(* and leaves the line, or stops at the front of it (cancel_run).          *)
EndEngineRuns(L) ==
  LET ending == L \cap known
      unmet == {l \in ending : granted[l] = "waiting"} IN
  /\ released' = released \cup ending
  /\ granted' = [l \in Leases |-> IF l \in unmet THEN "refused" ELSE granted[l]]
  /\ known' = known \ unmet
  /\ line' = Remove(line, unmet)
  /\ UNCHANGED <<front, stage>>

ReceiveRelease(e) ==
  \E request \in DOMAIN chan[e] :
    /\ request.kind = "release"
    /\ Take(e, request)
    /\ IF e \in sessions
       THEN EndEngineRuns({request.lease})
       ELSE UNCHANGED <<released, granted, known, line, front, stage>>
    /\ Reply(e, request, e \in sessions)
    /\ UNCHANGED <<OtherVars, sessions, answering, last, work, up, unheard>>

(* _forget_engine *)
ForgetEngine(e) ==
  /\ EndEngineRuns(LeasesOf(e))
  /\ sessions' = sessions \ {e}

(* A broken variant: a session that registers again starts from nothing.   *)
ReceiveOfferAnew(e) ==
  \E request \in DOMAIN chan[e] :
    /\ request.kind = "offer"
    /\ Take(e, request)
    /\ EndEngineRuns(LeasesOf(e))
    /\ sessions' = sessions \cup {e}
    /\ Reply(e, request, TRUE)
    /\ UNCHANGED <<OtherVars, answering, last, work, up, unheard>>

(* handle_offer_session_for_workers_request: a session that is known stays *)
(* known.  An engine of another version is refused whenever it asks and    *)
(* never leases anything: it is none of the Engines.                       *)
ReceiveOffer(e) ==
  \E request \in DOMAIN chan[e] :
    /\ request.kind = "offer"
    /\ Take(e, request)
    /\ sessions' = sessions \cup {e}
    /\ Reply(e, request, TRUE)
    /\ UNCHANGED <<OtherVars, line, front, stage, known, granted, released, answering, last, work,
                   up, unheard>>

ReceiveWithdraw(e) ==
  \E request \in DOMAIN chan[e] :
    /\ request.kind = "withdraw"
    /\ Take(e, request)
    /\ ForgetEngine(e)
    /\ UNCHANGED <<OtherVars, answering, last, work, up, unheard, replies>>

HostHearsLoss(e) ==
  /\ "host" \in unheard[e]
  /\ unheard' = [unheard EXCEPT ![e] = @ \ {"host"}]
  /\ ForgetEngine(e)
  /\ UNCHANGED <<OtherVars, answering, last, work, up, chan, replies>>

(* _finish_run of the line of leases.                                      *)
FinishFront ==
  LET next == Heads(line) IN
  IF next = {}
  THEN front' = None /\ stage' = "idle" /\ UNCHANGED line
  ELSE \E l \in next : front' = l /\ stage' = "starting" /\ line' = Remove(line, {l})

Grant(l) ==
  /\ last' = HomeOf[l]
  /\ granted' = [granted EXCEPT ![l] = IF @ = "waiting" THEN "yes" ELSE @]
  /\ stage' = "holding"
  /\ UNCHANGED <<line, front>>

(* _drive and hold_for_engine_run: a lease cancelled before its driver ran *)
(* ends; passing to another engine frees its workers first.                *)
DriveFront ==
  /\ stage = "starting"
  /\ CASE granted[front] = "refused" -> FinishFront /\ UNCHANGED <<granted, last>>
       [] granted[front] # "refused" /\ last \in {None, HomeOf[front]} -> Grant(front)
       [] OTHER -> stage' = "freeing" /\ UNCHANGED <<line, front, granted, last>>
  /\ UNCHANGED <<OtherVars, sessions, known, released, answering, work, netVars>>

(* _free_for_handoff returned, whether it could free the workers or not.   *)
WorkersFreed ==
  /\ stage = "freeing"
  /\ Grant(front)
  /\ UNCHANGED <<OtherVars, sessions, known, released, answering, work, netVars>>

(* A broken variant: the driver does not wait for the release.             *)
LetGoUnreleased ==
  /\ stage = "holding"
  /\ known' = known \ {front}
  /\ FinishFront
  /\ UNCHANGED <<OtherVars, sessions, granted, released, answering, last, work, netVars>>

(* The end of hold_for_engine_run.                                         *)
LetGo ==
  /\ stage = "holding" /\ front \in released
  /\ known' = known \ {front}
  /\ FinishFront
  /\ UNCHANGED <<OtherVars, sessions, granted, released, answering, last, work, netVars>>

(* lease_refusal and handle_check_lease_request: the answer reaches the    *)
(* worker later than the host gives it.                                    *)
CheckLease(n) ==
  /\ work[n] = "arrived"
  /\ work' = [work EXCEPT ![n] = IF Holds(nodeLease[n]) THEN "allowed" ELSE "none"]
  /\ UNCHANGED <<OtherVars, hostVars, netVars>>

RunNode(n) ==
  /\ work[n] \in {"allowed", "running"}
  /\ work' = [work EXCEPT ![n] = IF @ = "allowed" THEN "running" ELSE "none"]
  /\ UNCHANGED <<OtherVars, hostVars, netVars>>

-----------------------------------------------------------------------------
(* The transport.                                                          *)

Lose(e) ==
  /\ \/ \E request \in DOMAIN chan[e] :
          /\ request.kind \in Losable[e]
          /\ chan' = [chan EXCEPT ![e] = Remove(@, {request})]
          /\ UNCHANGED <<replies, answering>>
     \/ \E reply \in replies :
          /\ reply.to = e /\ reply.request.kind \in Losable[e]
          /\ replies' = replies \ {reply}
          /\ UNCHANGED <<chan, answering>>
     \/ \E l \in answering \cap LeasesOf(e) :
          /\ granted[l] # "waiting" /\ "acquire" \in Losable[e]
          /\ answering' = answering \ {l}
          /\ UNCHANGED <<chan, replies>>
  /\ UNCHANGED <<OtherVars, sessions, lineVars, last, work, up, unheard>>

Disconnect(e) ==
  /\ e \in up
  /\ used[e].faults < Bounds[e].faults
  /\ used' = [used EXCEPT ![e].faults = @ + 1]
  /\ up' = up \ {e}
  /\ unheard' = [unheard EXCEPT ![e] = {"host", "engine"}]
  /\ chan' = [chan EXCEPT ![e] = EmptyLine]
  /\ replies' = {reply \in replies : reply.to # e}
  /\ answering' = answering \ LeasesOf(e)
  /\ UNCHANGED <<offerVars, leaseVars, nodeVars, sessions, lineVars, last, work>>

(* Every request that was under way has failed before, and both sides have *)
(* heard of the loss.                                                      *)
Reconnect(e) ==
  /\ e \notin up /\ unheard[e] = {}
  /\ offer[e] # "asked"
  /\ \A l \in LeasesOf(e) : acquire[l] # "asking" /\ notice[l] # "sent"
  /\ up' = up \cup {e}
  /\ UNCHANGED <<OtherVars, hostVars, work, unheard, chan, replies>>

-----------------------------------------------------------------------------

AskerStep(e) ==
  \/ Offer(e) \/ OfferAnswered(e) \/ OfferFails(e) \/ Withdraw(e) \/ EngineHearsLoss(e)

LeaseStep(l) ==
  \/ AcquireAnswered(l) \/ AcquireLost(l)
  \/ TellReleased(l) \/ ReleaseAnswered(l) \/ ReleaseUnanswered(l)

NodeStep(n) ==
  StartNode(n) \/ NodeHears(n) \/ NodeEnds(n) \/ CheckLease(n) \/ RunNode(n)

HostStep(e) ==
  \/ ReceiveOffer(e) \/ ReceiveAcquire(e) \/ ReceiveRelease(e) \/ ReceiveWithdraw(e)
  \/ HostHearsLoss(e)

LineStep == DriveFront \/ WorkersFreed \/ LetGo

TransportStep(e) == Lose(e) \/ Disconnect(e) \/ Reconnect(e)

Next ==
  \/ \E e \in Engines : AskerStep(e) \/ HostStep(e) \/ TransportStep(e)
  \/ \E l \in Leases : LeaseStep(l)
  \/ \E n \in Nodes : NodeStep(n)
  \/ \E r \in Runs : RunEnds(r)
  \/ LineStep

Spec == Init /\ [][Next]_vars

(* What each engine does by itself once the occasion is there.  Nothing    *)
(* obliges a run or a node to end, a connection to come back, or a message *)
(* to be lost.                                                             *)
FairSpec ==
  /\ Spec
  /\ \A e \in Engines :
       WF_vars(OfferAnswered(e)) /\ WF_vars(EngineHearsLoss(e)) /\ WF_vars(HostStep(e))
  /\ \A l \in Leases :
       /\ WF_vars(TellReleased(l))
       /\ WF_vars(ReleaseAnswered(l) \/ ReleaseUnanswered(l))
  /\ WF_vars(LineStep)

-----------------------------------------------------------------------------
(* Whether the host counts the lease as holding it or waiting in line.     *)
Claims(l) == l \in known /\ l \notin released

InUse(l) == l \in table /\ acquire[l] = "granted" /\ HomeOf[l] \in up

(* As long as an engine uses a lease it was granted and is connected, the  *)
(* host holds itself for that lease: nothing but that engine's own release *)
(* or withdrawal and the loss of its connection ends it.                   *)
GrantIsTrue == \A l \in Leases : InUse(l) => Holds(l)

(* Nodes of two engines run on the host at once only if one of the two has *)
(* been given up by its engine, whose run ended or whose connection was    *)
(* lost while the node still ran (lease_refusal).                          *)
NodesApart ==
  \A m, n \in Nodes :
    /\ HomeOf[m] # HomeOf[n]
    /\ \A i \in {m, n} : work[i] = "running" /\ node[i] = "sent"
    => \E i \in {m, n} : ~InUse(nodeLease[i])

(* A run never waits in the host's line behind a lease of its own that it  *)
(* would only release when it ends (_lease_for, _end_lease).               *)
NotBehindItself ==
  \A k, l \in Leases :
    k # l /\ leaseRun[k] = leaseRun[l] /\ leaseRun[k] # None /\ l \in DOMAIN line
    => ~ (Holds(k) /\ k \in table)

(* A report that stopped without giving up left nothing behind: while the  *)
(* two are connected the host does not hold itself for the lease, or is    *)
(* about to hear that the engine withdrew (_report_until_answered,         *)
(* _has_session_with).                                                     *)
ReportOverMeansFreed ==
  \A l \in Leases :
    notice[l] = "over" /\ HomeOf[l] \in up
    => ~Claims(l) \/ \E m \in DOMAIN chan[HomeOf[l]] : m.kind = "withdraw"

(* A lease in line is kept waiting only by one its engine still uses, or   *)
(* whose release was given up on.                                          *)
HeldUp == front # None /\ (front \in table \/ notice[front] = "gaveup")
LineMoves ==
  \A l \in Leases :
    (l \in DOMAIN line /\ ~HeldUp) ~> (l \notin DOMAIN line \/ HeldUp)

(* The host's promise: its leases hold it one at a time, and none does     *)
(* again once it let go or was refused.                                    *)
Lock == INSTANCE EngineLock WITH
          holders <- {l \in Leases : Holds(l)},
          gone <- {l \in Leases : granted[l] = "refused" \/ l \in released}
HostIsLock == Lock!LockSpec
=============================================================================
