------------------------- MODULE EngineLeasesProofs -------------------------
(***************************************************************************)
(* Theorems about EngineLeases, for any engines, runs, nodes and leases,   *)
(* any bounds, requests kept in order or not, and whichever are lost.      *)
(***************************************************************************)
EXTENDS EngineLeases, TLAPS

-----------------------------------------------------------------------------
(* The inductive invariant. *)

RestTypes ==
  /\ offer \in [Engines -> {"no", "asked", "accepted"}]
  /\ loaded \subseteq Engines
  /\ node \in [Nodes -> {"idle", "waiting", "sent", "done"}]
  /\ nodeLease \in [Nodes -> Leases \cup {None}]
  /\ over \subseteq Runs
  /\ sessions \subseteq Engines
  /\ answering \subseteq Leases
  /\ last \in Engines \cup {None}
  /\ work \in [Nodes -> {"none", "arrived", "allowed", "running"}]
  /\ used \in [Engines -> [offers : Nat, faults : Nat, withdrawals : Nat]]

NetTypes ==
  /\ up \subseteq Engines
  /\ unheard \in [Engines -> SUBSET {"host", "engine"}]
  /\ chan \in [Engines -> Lines(Requests)]
  /\ replies \subseteq Replies

(* The leases as the asking engines see them: a lease is reported at most  *)
(* once, after it left the table, and no more often than is allowed.       *)
LeaseInv ==
  /\ table \subseteq Leases
  /\ runLease \in [Runs -> Leases \cup {None}]
  /\ leaseRun \in [Leases -> Runs \cup {None}]
  /\ acquire \in [Leases -> {"unused", "asking", "granted", "failed", "lost", "cancelled"}]
  /\ notice \in [Leases -> {"none", "due", "sent", "over", "gaveup"}]
  /\ tries \in [Leases -> 0..MaxTries]
  /\ \A l \in Leases : notice[l] = "none" => tries[l] = 0
  /\ \A l \in Leases : notice[l] = "due" => tries[l] < MaxTries
  /\ \A l \in Leases : acquire[l] = "unused" => notice[l] = "none"
  /\ \A l \in table : notice[l] = "none" /\ acquire[l] # "unused"

(* The host's line: only the lease at the front holds it, once its driver  *)
(* granted it, and what was let go was granted or refused.                 *)
HostInv ==
  /\ line \in Lines(Leases)
  /\ front \in Leases \cup {None}
  /\ stage \in {"idle", "starting", "freeing", "holding"}
  /\ known \subseteq Leases
  /\ granted \in [Leases -> {"unknown", "waiting", "yes", "refused"}]
  /\ released \subseteq Leases
  /\ stage # "idle" => front \in Leases
  /\ front = None => stage = "idle"
  /\ \A l \in Leases : Holds(l) => l = front /\ stage = "holding"
  /\ \A l \in released : granted[l] \in {"yes", "refused"}
  /\ \A l \in known : granted[l] # "unknown"

(* A lease is asked for once: what the host hears of is new to it.         *)
AskedOnce ==
  /\ \A l \in Leases : acquire[l] = "unused" => granted[l] = "unknown"
  /\ \A e \in Engines : \A request \in DOMAIN chan[e] :
       request.kind = "acquire" =>
         /\ request = [kind |-> "acquire", lease |-> request.lease, id |-> 0]
         /\ HomeOf[request.lease] = e
         /\ acquire[request.lease] # "unused"
         /\ granted[request.lease] = "unknown"

IInv == RestTypes /\ NetTypes /\ LeaseInv /\ HostInv /\ AskedOnce

-----------------------------------------------------------------------------
(* Lines and channels. *)

(* A line is a function from what waits to what is ahead of it. *)
LEMMA LineFunction ==
  \A S, l : l \in Lines(S) <=> DOMAIN l \subseteq S /\ l \in [DOMAIN l -> SUBSET S]
  BY DEF Lines

(* Enqueueing and removing leave a line, with the expected members. *)
LEMMA LineOps ==
  ASSUME NEW S, NEW l \in Lines(S)
  PROVE  /\ \A r \in S : Enqueue(l, r) \in Lines(S) /\ DOMAIN Enqueue(l, r) = DOMAIN l \cup {r}
         /\ \A G : Remove(l, G) \in Lines(S) /\ DOMAIN Remove(l, G) = DOMAIN l \ G
         /\ Heads(l) \subseteq DOMAIN l
         /\ DOMAIN l \subseteq S
<1>1. DOMAIN l \subseteq S /\ l \in [DOMAIN l -> SUBSET S]
  BY LineFunction
<1>2. ASSUME NEW r \in S
      PROVE  Enqueue(l, r) \in Lines(S) /\ DOMAIN Enqueue(l, r) = DOMAIN l \cup {r}
  <2>1. DOMAIN Enqueue(l, r) = DOMAIN l \cup {r}
    BY DEF Enqueue
  <2>2. Enqueue(l, r) \in [DOMAIN Enqueue(l, r) -> SUBSET S]
    BY <1>1 DEF Enqueue
  <2>. QED BY <1>1, <2>1, <2>2, LineFunction
<1>3. ASSUME NEW G PROVE Remove(l, G) \in Lines(S) /\ DOMAIN Remove(l, G) = DOMAIN l \ G
  <2>1. DOMAIN Remove(l, G) = DOMAIN l \ G
    BY DEF Remove
  <2>2. Remove(l, G) \in [DOMAIN Remove(l, G) -> SUBSET S]
    BY <1>1 DEF Remove
  <2>. QED BY <1>1, <2>1, <2>2, LineFunction
<1>. QED BY <1>1, <1>2, <1>3 DEF Heads

(* Nothing waits in a line that is empty. *)
LEMMA EmptyIsLine == \A S : EmptyLine \in Lines(S) /\ DOMAIN EmptyLine = {}
  BY LineFunction DEF EmptyLine

(* A request that is sent is the only one its channel gains. *)
LEMMA SendAdds ==
  ASSUME NetTypes, NEW e \in Engines, NEW request \in Requests, Send(e, request)
  PROVE  /\ chan' \in [Engines -> Lines(Requests)]
         /\ \A f \in Engines : \A m \in DOMAIN chan'[f] :
              m \in DOMAIN chan[f] \/ (f = e /\ m = request)
<1>1. chan[e] \in Lines(Requests) /\ DOMAIN chan[e] \subseteq Requests
  BY LineOps DEF NetTypes
<1>2. CASE e \notin up
  BY <1>2 DEF Send, NetTypes
<1>3. CASE e \in up /\ Ordered
  <2>1. chan' = [chan EXCEPT ![e] = Enqueue(chan[e], request)]
    BY <1>3 DEF Send
  <2>2. Enqueue(chan[e], request) \in Lines(Requests)
    BY <1>1, LineOps
  <2>3. DOMAIN Enqueue(chan[e], request) = DOMAIN chan[e] \cup {request}
    BY DEF Enqueue
  <2>. QED BY <2>1, <2>2, <2>3 DEF NetTypes
<1>4. CASE e \in up /\ ~Ordered
  <2>. DEFINE unordered == [m \in DOMAIN chan[e] \cup {request} |-> {}]
  <2>1. DOMAIN unordered = DOMAIN chan[e] \cup {request}
    OBVIOUS
  <2>2. unordered \in [DOMAIN unordered -> SUBSET Requests]
    BY <2>1
  <2>3. unordered \in Lines(Requests)
    BY <1>1, <2>1, <2>2, LineFunction
  <2>4. chan' = [chan EXCEPT ![e] = unordered]
    BY <1>4 DEF Send
  <2>. HIDE DEF unordered
  <2>. QED BY <2>1, <2>3, <2>4 DEF NetTypes
<1>. QED BY <1>2, <1>3, <1>4

(* Requests that leave a channel leave it one fewer. *)
LEMMA RemoveLeaves ==
  ASSUME NetTypes, NEW e \in Engines, NEW S, chan' = [chan EXCEPT ![e] = Remove(@, S)]
  PROVE  /\ chan' \in [Engines -> Lines(Requests)]
         /\ \A f \in Engines : DOMAIN chan'[f] \subseteq DOMAIN chan[f]
         /\ DOMAIN chan'[e] = DOMAIN chan[e] \ S
<1>1. chan[e] \in Lines(Requests)
  BY DEF NetTypes
<1>2. Remove(chan[e], S) \in Lines(Requests)
  BY <1>1, LineOps
<1>3. DOMAIN Remove(chan[e], S) = DOMAIN chan[e] \ S
  BY DEF Remove
<1>. QED BY <1>1, <1>2, <1>3 DEF NetTypes

(* What travels is a request, and acquires and releases name a lease. *)
LEMMA RequestTypes ==
  ASSUME NetTypes, NEW e \in Engines, NEW request \in DOMAIN chan[e]
  PROVE  /\ request \in Requests
         /\ request.kind \in {"acquire", "release"} => request.lease \in Leases
<1>1. request \in Requests
  BY LineOps DEF NetTypes
<1>. QED BY <1>1 DEF Requests

-----------------------------------------------------------------------------
(* What several actions do keeps the invariant. *)

(* Ending leases keeps the engines' books. *)
LEMMA EndLeasesKeeps ==
  ASSUME LeasesAssumption, LeaseInv, NEW L, EndLeases(L)
  PROVE  LeaseInv' /\ \A l \in Leases : acquire'[l] = "unused" => acquire[l] = "unused"
<1>. DEFINE ending == L \cap table
<1>1. /\ table' = table \ L
      /\ runLease' = [r \in Runs |-> IF runLease[r] \in ending THEN None ELSE runLease[r]]
      /\ acquire' = [l \in Leases |-> IF l \in ending /\ acquire[l] = "asking"
                                        THEN "cancelled" ELSE acquire[l]]
      /\ notice' = [l \in Leases |-> IF l \in ending THEN "due" ELSE notice[l]]
      /\ leaseRun' = leaseRun /\ tries' = tries
  BY DEF EndLeases
<1>2. \A l \in ending : /\ l \in table /\ l \notin table' /\ tries[l] < MaxTries
                        /\ acquire[l] # "unused"
  BY <1>1 DEF LeaseInv, LeasesAssumption
<1>. HIDE DEF ending
<1>3. \A l \in Leases : acquire'[l] = "unused" => acquire[l] = "unused" /\ l \notin ending
  BY <1>1, <1>2 DEF LeaseInv
<1>. QED BY <1>1, <1>2, <1>3 DEF LeaseInv

(* Forgetting leases keeps the engines' books. *)
LEMMA ForgetLeasesKeeps ==
  ASSUME LeasesAssumption, LeaseInv, NEW e, ForgetLeases(e)
  PROVE  LeaseInv' /\ acquire' = acquire
  BY DEF LeasesAssumption, LeaseInv, ForgetLeases, LeasesOf

(* A report that goes on, or ends, keeps the engines' books. *)
LEMMA NoticeKeeps ==
  ASSUME LeaseInv, NEW l \in Leases, notice[l] # "none",
         NEW v \in {"due", "sent", "over", "gaveup"}, NEW k \in 0..MaxTries,
         v = "due" => k < MaxTries,
         notice' = [notice EXCEPT ![l] = v], tries' = [tries EXCEPT ![l] = k],
         UNCHANGED <<table, runLease, leaseRun, acquire>>
  PROVE  LeaseInv'
<1>1. l \notin table /\ acquire[l] # "unused"
  BY DEF LeaseInv
<1>2. /\ notice' \in [Leases -> {"none", "due", "sent", "over", "gaveup"}]
      /\ tries' \in [Leases -> 0..MaxTries]
      /\ notice'[l] = v /\ tries'[l] = k
      /\ \A i \in Leases : i # l => notice'[i] = notice[i] /\ tries'[i] = tries[i]
  BY DEF LeaseInv
<1>. QED BY <1>1, <1>2 DEF LeaseInv

(* A new lease keeps the engines' books. *)
LEMMA AcquireLeaseKeeps ==
  ASSUME LeasesAssumption, LeaseInv, RestTypes, NEW n \in Nodes, NEW l \in Leases,
         AcquireLease(n, l)
  PROVE  /\ LeaseInv'
         /\ \A k \in Leases : acquire'[k] = "unused" => acquire[k] = "unused"
         /\ acquire'[l] # "unused"
  BY DEF LeasesAssumption, LeaseInv, RestTypes, AcquireLease

(* The host ends leases it knows: they let go, and those not granted yet   *)
(* are refused.                                                            *)
LEMMA EndRunsKeeps ==
  ASSUME LeasesAssumption, HostInv, NEW L, EndEngineRuns(L)
  PROVE  /\ HostInv'
         /\ \A l \in Leases : granted[l] = "unknown" => granted'[l] = "unknown"
         /\ Lock!Depart(L \cap known)
<1>. DEFINE ending == L \cap known
            unmet == {l \in ending : granted[l] = "waiting"}
<1>1. /\ released' = released \cup ending
      /\ granted' = [l \in Leases |-> IF l \in unmet THEN "refused" ELSE granted[l]]
      /\ known' = known \ unmet
      /\ line' = Remove(line, unmet)
      /\ front' = front /\ stage' = stage
  BY DEF EndEngineRuns
<1>2. unmet \subseteq ending /\ ending \subseteq Leases /\ ending \subseteq known
  BY DEF HostInv
<1>3. \A l \in unmet : granted[l] = "waiting"
  OBVIOUS
<1>4. line' \in Lines(Leases)
  BY ZenonT(60), <1>1, LineOps DEF HostInv
<1>5. \A l \in ending : granted[l] = "waiting" => l \in unmet
  OBVIOUS
<1>. HIDE DEF unmet
<1>6. HostInv'
  BY <1>1, <1>2, <1>3, <1>4, <1>5 DEF HostInv, Holds
<1>7. Lock!Depart(ending)
  BY <1>1, <1>2, <1>3 DEF HostInv, Holds, Lock!Depart
<1>. QED BY <1>1, <1>3, <1>6, <1>7 DEF HostInv

(* The lease at the front is granted, or was refused meanwhile. *)
LEMMA GrantKeeps ==
  ASSUME LeasesAssumption, HostInv, stage \in {"starting", "freeing"},
         Grant(front), UNCHANGED <<known, released>>
  PROVE  /\ HostInv'
         /\ \A l \in Leases : granted[l] = "unknown" => granted'[l] = "unknown"
         /\ last' \in Engines
         /\ Lock!Grant(front) \/ UNCHANGED granted
<1>1. front \in Leases /\ ~Holds(front)
  BY DEF HostInv
<1>2. \A l \in Leases : ~Holds(l)
  BY DEF HostInv
<1>3. HostInv'
  BY <1>1, <1>2 DEF HostInv, Grant, Holds
<1>4. CASE granted[front] = "waiting"
  <2>1. front \notin released
    BY <1>1, <1>4 DEF HostInv
  <2>2. granted' = [granted EXCEPT ![front] = "yes"]
    BY <1>4 DEF Grant
  <2>3. Lock!Grant(front)
    BY <1>1, <1>2, <1>4, <2>1, <2>2 DEF HostInv, Holds, Lock!Grant
  <2>. QED BY <1>1, <1>3, <1>4, <2>2, <2>3 DEF Grant, LeasesAssumption, HostInv
<1>5. CASE granted[front] # "waiting"
  <2>1. granted' = granted
    BY <1>1, <1>5 DEF Grant, HostInv
  <2>. QED BY <1>1, <1>3, <2>1 DEF Grant, LeasesAssumption
<1>. QED BY <1>4, <1>5

(* The lease at the front, which does not hold the engine any more, makes  *)
(* room for the next.                                                      *)
LEMMA FinishFrontKeeps ==
  ASSUME LeasesAssumption, HostInv, FinishFront,
         \A l \in Leases : ~Holds(l),
         granted' = granted, released' = released, known' \subseteq known
  PROVE  HostInv'
<1>1. CASE Heads(line) = {}
  BY <1>1 DEF FinishFront, HostInv, Holds
<1>2. CASE Heads(line) # {}
  <2>1. PICK l \in Heads(line) : front' = l /\ stage' = "starting" /\ line' = Remove(line, {l})
    BY <1>2 DEF FinishFront
  <2>2. l \in Leases /\ line' \in Lines(Leases)
    BY <2>1, LineOps DEF HostInv
  <2>. QED BY <2>1, <2>2 DEF HostInv, Holds, LeasesAssumption
<1>. QED BY <1>1, <1>2

(* Asking for a lease, or ending some, leaves what travels asked for once. *)
LEMMA AskedOnceKept ==
  ASSUME AskedOnce,
         \A e \in Engines : DOMAIN chan'[e] \subseteq DOMAIN chan[e],
         \A l \in Leases : acquire'[l] = "unused" => acquire[l] = "unused",
         NetTypes,
         \A l \in Leases : granted[l] = "unknown" => granted'[l] = "unknown"
  PROVE  AskedOnce'
<1>1. \A e \in Engines : \A m \in DOMAIN chan[e] : m.kind = "acquire" => m.lease \in Leases
  BY RequestTypes
<1>. QED BY <1>1 DEF AskedOnce

-----------------------------------------------------------------------------
(* Type correctness. *)

(* The invariant holds at the start. *)
LEMMA InitInv == LeasesAssumption /\ Init => IInv
<1>. SUFFICES ASSUME LeasesAssumption, Init PROVE IInv
  OBVIOUS
<1>. USE DEF Init
<1>1. RestTypes
  BY DEF RestTypes, LeasesAssumption
<1>2. NetTypes
  BY EmptyIsLine DEF NetTypes
<1>3. LeaseInv
  BY DEF LeaseInv, LeasesAssumption
<1>4. HostInv
  BY EmptyIsLine DEF HostInv, Holds, LeasesAssumption
<1>5. AskedOnce
  BY EmptyIsLine DEF AskedOnce
<1>. QED BY <1>1, <1>2, <1>3, <1>4, <1>5 DEF IInv

(* The invariant has the types of the state. *)
LEMMA InvTypes == LeasesAssumption /\ IInv => TypeOK
<1>. SUFFICES ASSUME LeasesAssumption, IInv PROVE TypeOK
  OBVIOUS
<1>1. \A e \in Engines :
        DOMAIN chan[e] \subseteq Requests /\ chan[e] \in [DOMAIN chan[e] -> SUBSET Requests]
  BY LineFunction DEF IInv, NetTypes
<1>2. RestTypes /\ LeaseInv /\ HostInv /\ NetTypes
  BY DEF IInv
<1>. QED BY <1>1, <1>2 DEF TypeOK, RestTypes, LeaseInv, HostInv, NetTypes

(* What the engines that ask do with their registrations. *)
LEMMA AskerKeeps ==
  ASSUME LeasesAssumption, IInv, NEW e \in Engines, AskerStep(e)
  PROVE  IInv' /\ UNCHANGED <<granted, released>>
<1>. USE DEF IInv
<1>. USE DEF offerVars, leaseVars, nodeVars, lineVars, hostVars, netVars
<1>1. CASE Offer(e)
  <2>. DEFINE request == [kind |-> "offer", id |-> used[e].offers + 1]
  <2>1. request \in Requests
    BY DEF Requests, RestTypes
  <2>2. Send(e, request) /\ request.kind = "offer"
    BY <1>1 DEF Offer
  <2>. HIDE DEF request
  <2>3. NetTypes'
    BY <1>1, <2>1, <2>2, SendAdds DEF Offer, NetTypes
  <2>4. AskedOnce'
    BY <1>1, <2>1, <2>2, SendAdds DEF Offer, AskedOnce
  <2>5. /\ offer' \in [Engines -> {"no", "asked", "accepted"}]
        /\ UNCHANGED <<loaded, node, nodeLease, over, sessions, answering, last, work>>
    BY <1>1 DEF Offer, RestTypes
  <2>6. used' \in [Engines -> [offers : Nat, faults : Nat, withdrawals : Nat]]
    <3>1. used[e] \in [offers : Nat, faults : Nat, withdrawals : Nat]
      BY DEF RestTypes
    <3>2. used' = [used EXCEPT ![e] = [used[e] EXCEPT !.offers = used[e].offers + 1]]
      BY <1>1 DEF Offer
    <3>3. [used[e] EXCEPT !.offers = used[e].offers + 1]
            \in [offers : Nat, faults : Nat, withdrawals : Nat]
      BY <3>1
    <3>. QED BY <3>2, <3>3 DEF RestTypes
  <2>7. RestTypes'
    BY <2>5, <2>6 DEF RestTypes
  <2>. QED BY <1>1, <2>3, <2>4, <2>7 DEF Offer, LeaseInv, HostInv, Holds
<1>2. CASE OfferAnswered(e)
  <2>1. RestTypes'
    BY <1>2 DEF OfferAnswered, RestTypes
  <2>2. NetTypes'
    BY <1>2 DEF OfferAnswered, NetTypes
  <2>. QED BY <1>2, <2>1, <2>2 DEF OfferAnswered, LeaseInv, HostInv, Holds, AskedOnce
<1>3. CASE OfferFails(e)
  <2>1. RestTypes' /\ NetTypes'
    BY <1>3 DEF OfferFails, RestTypes, NetTypes
  <2>. QED BY <1>3, <2>1 DEF OfferFails, LeaseInv, HostInv, Holds, AskedOnce
<1>4. CASE Withdraw(e)
  <2>. DEFINE request == [kind |-> "withdraw", id |-> used[e].withdrawals + 1]
  <2>1. request \in Requests
    BY DEF Requests, RestTypes
  <2>2. Send(e, request) /\ request.kind = "withdraw"
    BY <1>4 DEF Withdraw
  <2>. HIDE DEF request
  <2>3. NetTypes'
    BY <1>4, <2>1, <2>2, SendAdds DEF Withdraw, NetTypes
  <2>4. LeaseInv' /\ acquire' = acquire
    BY <1>4, ForgetLeasesKeeps DEF Withdraw
  <2>5. AskedOnce'
    BY <1>4, <2>1, <2>2, <2>4, SendAdds DEF Withdraw, AskedOnce
  <2>6. /\ offer' \in [Engines -> {"no", "asked", "accepted"}] /\ loaded' \subseteq Engines
        /\ UNCHANGED <<node, nodeLease, over, sessions, answering, last, work>>
    BY <1>4 DEF Withdraw, RestTypes
  <2>7. used' \in [Engines -> [offers : Nat, faults : Nat, withdrawals : Nat]]
    <3>1. used[e] \in [offers : Nat, faults : Nat, withdrawals : Nat]
      BY DEF RestTypes
    <3>2. used' = [used EXCEPT ![e] = [used[e] EXCEPT !.withdrawals = used[e].withdrawals + 1]]
      BY <1>4 DEF Withdraw
    <3>3. [used[e] EXCEPT !.withdrawals = used[e].withdrawals + 1]
            \in [offers : Nat, faults : Nat, withdrawals : Nat]
      BY <3>1
    <3>. QED BY <3>2, <3>3 DEF RestTypes
  <2>8. RestTypes'
    BY <2>6, <2>7 DEF RestTypes
  <2>. QED BY <1>4, <2>3, <2>4, <2>5, <2>8 DEF Withdraw, HostInv, Holds
<1>5. CASE EngineHearsLoss(e)
  <2>1. LeaseInv' /\ acquire' = acquire
    BY <1>5, ForgetLeasesKeeps DEF EngineHearsLoss
  <2>2. RestTypes' /\ NetTypes'
    BY <1>5 DEF EngineHearsLoss, RestTypes, NetTypes
  <2>. QED BY <1>5, <2>1, <2>2 DEF EngineHearsLoss, HostInv, Holds, AskedOnce
<1>. QED BY <1>1, <1>2, <1>3, <1>4, <1>5 DEF AskerStep

(* What happens to a lease between its engine and the host. *)
LEMMA LeaseStepKeeps ==
  ASSUME LeasesAssumption, IInv, NEW l \in Leases, LeaseStep(l)
  PROVE  IInv' /\ UNCHANGED <<granted, released>>
<1>. USE DEF IInv
<1>. USE DEF offerVars, leaseVars, nodeVars, lineVars, hostVars, netVars
<1>1. CASE AcquireAnswered(l)
  <2>1. RestTypes' /\ LeaseInv'
    BY <1>1 DEF AcquireAnswered, RestTypes, LeaseInv
  <2>2. \A k \in Leases : acquire'[k] = "unused" => acquire[k] = "unused"
    BY <1>1 DEF AcquireAnswered, LeaseInv
  <2>3. AskedOnce'
    BY <1>1, <2>2, AskedOnceKept DEF AcquireAnswered
  <2>. QED BY <1>1, <2>1, <2>3 DEF AcquireAnswered, NetTypes, HostInv, Holds
<1>2. CASE AcquireLost(l)
  <2>1. RestTypes' /\ LeaseInv'
    BY <1>2 DEF AcquireLost, RestTypes, LeaseInv
  <2>2. \A k \in Leases : acquire'[k] = "unused" => acquire[k] = "unused"
    BY <1>2 DEF AcquireLost, LeaseInv
  <2>3. AskedOnce'
    BY <1>2, <2>2, AskedOnceKept DEF AcquireLost
  <2>. QED BY <1>2, <2>1, <2>3 DEF AcquireLost, NetTypes, HostInv, Holds
<1>3. CASE TellReleased(l)
  <2>1. CASE offer[HomeOf[l]] = "no"
    <3>1. /\ notice[l] # "none"
          /\ notice' = [notice EXCEPT ![l] = "over"]
          /\ tries' = [tries EXCEPT ![l] = tries[l]]
          /\ tries[l] \in 0..MaxTries
          /\ UNCHANGED <<table, runLease, leaseRun, acquire>>
      BY <1>3, <2>1 DEF TellReleased, LeaseInv
    <3>2. LeaseInv'
      BY <3>1, NoticeKeeps
    <3>3. NetTypes'
      BY <1>3, <2>1 DEF TellReleased, NetTypes
    <3>. QED BY <1>3, <2>1, <3>2, <3>3 DEF TellReleased, RestTypes, HostInv, Holds, AskedOnce
  <2>2. CASE offer[HomeOf[l]] # "no"
    <3>. DEFINE request == [kind |-> "release", lease |-> l, id |-> tries[l] + 1]
    <3>1. request \in Requests /\ HomeOf[l] \in Engines
      BY DEF Requests, LeaseInv, LeasesAssumption
    <3>2. Send(HomeOf[l], request) /\ request.kind = "release"
      BY <1>3, <2>2 DEF TellReleased
    <3>. HIDE DEF request
    <3>3. NetTypes'
      BY <1>3, <3>1, <3>2, SendAdds DEF TellReleased, NetTypes
    <3>4. AskedOnce'
      BY <1>3, <3>1, <3>2, SendAdds DEF TellReleased, AskedOnce
    <3>5. /\ notice[l] # "none"
          /\ notice' = [notice EXCEPT ![l] = "sent"]
          /\ tries' = [tries EXCEPT ![l] = tries[l] + 1]
          /\ tries[l] + 1 \in 0..MaxTries
          /\ UNCHANGED <<table, runLease, leaseRun, acquire>>
      BY <1>3, <2>2 DEF TellReleased, LeaseInv, LeasesAssumption
    <3>6. LeaseInv'
      BY <3>5, NoticeKeeps
    <3>. QED BY <1>3, <3>3, <3>4, <3>6 DEF TellReleased, RestTypes, HostInv, Holds
  <2>. QED BY <2>1, <2>2
<1>4. CASE ReleaseAnswered(l)
  <2>1. LeaseInv' /\ NetTypes'
    BY <1>4 DEF ReleaseAnswered, LeaseInv, NetTypes
  <2>. QED BY <1>4, <2>1 DEF ReleaseAnswered, RestTypes, HostInv, Holds, AskedOnce
<1>5. CASE ReleaseUnanswered(l)
  <2>. DEFINE v == IF tries[l] = MaxTries THEN "gaveup" ELSE "due"
  <2>1. /\ notice[l] # "none"
        /\ notice' = [notice EXCEPT ![l] = v]
        /\ tries' = [tries EXCEPT ![l] = tries[l]]
        /\ UNCHANGED <<table, runLease, leaseRun, acquire>>
    BY <1>5 DEF ReleaseUnanswered, LeaseInv
  <2>2. tries[l] \in 0..MaxTries /\ MaxTries \in Nat
    BY DEF LeaseInv, LeasesAssumption
  <2>3. v \in {"due", "sent", "over", "gaveup"}
    OBVIOUS
  <2>4. v = "due" => tries[l] < MaxTries
    <3>1. v = "due" => tries[l] # MaxTries
      OBVIOUS
    <3>2. MaxTries \in Nat => \A k \in 0..MaxTries : k # MaxTries => k < MaxTries
      OBVIOUS
    <3>. QED BY <2>2, <3>1, <3>2
  <2>. HIDE DEF v
  <2>5. LeaseInv'
    BY <2>1, <2>2, <2>3, <2>4, NoticeKeeps
  <2>. QED BY <1>5, <2>5 DEF ReleaseUnanswered, RestTypes, NetTypes, HostInv, Holds, AskedOnce
<1>. QED BY <1>1, <1>2, <1>3, <1>4, <1>5 DEF LeaseStep

(* The nodes that are sent under the leases. *)
LEMMA NodeStepKeeps ==
  ASSUME LeasesAssumption, IInv, NEW n \in Nodes, NodeStep(n)
  PROVE  IInv' /\ UNCHANGED <<granted, released>>
<1>. USE DEF IInv
<1>. USE DEF offerVars, leaseVars, nodeVars, lineVars, hostVars, netVars
<1>1. CASE StartNode(n) /\ WaitOnRunsLease(n)
  <2>1. RestTypes'
    <3>1. RunOf[n] \in Runs /\ runLease[RunOf[n]] \in Leases
      BY <1>1 DEF WaitOnRunsLease, LeaseInv, LeasesAssumption
    <3>. QED BY <1>1, <3>1 DEF StartNode, WaitOnRunsLease, RestTypes
  <2>2. LeaseInv'
    BY <1>1 DEF StartNode, WaitOnRunsLease, LeaseInv
  <2>3. NetTypes'
    BY <1>1 DEF StartNode, WaitOnRunsLease, NetTypes
  <2>4. AskedOnce'
    BY <1>1 DEF StartNode, WaitOnRunsLease, AskedOnce
  <2>. QED BY <1>1, <2>1, <2>2, <2>3, <2>4 DEF StartNode, HostInv, Holds
<1>2. ASSUME StartNode(n), NEW l \in Leases, AcquireLease(n, l)
      PROVE  IInv' /\ UNCHANGED <<granted, released>>
  <2>. DEFINE request == [kind |-> "acquire", lease |-> l, id |-> 0]
  <2>1. request \in Requests /\ HomeOf[n] \in Engines /\ HomeOf[l] = HomeOf[n]
    BY <1>2 DEF Requests, AcquireLease, LeasesAssumption
  <2>2. /\ Send(HomeOf[n], request)
        /\ request = [kind |-> "acquire", lease |-> request.lease, id |-> 0]
        /\ request.lease = l
    BY <1>2 DEF AcquireLease
  <2>. HIDE DEF request
  <2>3. NetTypes'
    BY <1>2, <2>1, <2>2, SendAdds DEF StartNode, NetTypes
  <2>4. /\ LeaseInv'
        /\ \A k \in Leases : acquire'[k] = "unused" => acquire[k] = "unused"
        /\ acquire'[l] # "unused"
    BY <1>2, AcquireLeaseKeeps
  <2>5. acquire[l] = "unused" /\ granted[l] = "unknown" /\ granted' = granted
    BY <1>2 DEF AcquireLease, AskedOnce, StartNode
  <2>6. \A f \in Engines : \A m \in DOMAIN chan'[f] :
          m \in DOMAIN chan[f] \/ (f = HomeOf[n] /\ m = request)
    BY <2>1, <2>2, SendAdds
  <2>7. AskedOnce'
    <3>1. \A f \in Engines : \A m \in DOMAIN chan[f] : m.kind = "acquire" => m.lease \in Leases
      BY RequestTypes
    <3>. QED BY <2>1, <2>2, <2>4, <2>5, <2>6, <3>1 DEF AskedOnce
  <2>8. RestTypes'
    BY <1>2 DEF StartNode, AcquireLease, RestTypes
  <2>. QED BY <1>2, <2>3, <2>4, <2>7, <2>8 DEF StartNode, HostInv, Holds
<1>3. CASE NodeHears(n)
  <2>1. LeaseInv' /\ \A l \in Leases : acquire'[l] = "unused" => acquire[l] = "unused"
    <3>1. CASE acquire[nodeLease[n]] = "granted"
      BY <1>3, <3>1 DEF NodeHears, LeaseInv
    <3>2. CASE acquire[nodeLease[n]] # "granted"
      BY <1>3, <3>2, EndLeasesKeeps DEF NodeHears
    <3>. QED BY <3>1, <3>2
  <2>2. RestTypes'
    BY ZenonT(60), <1>3 DEF NodeHears, RestTypes
  <2>3. AskedOnce'
    BY <1>3, <2>1, AskedOnceKept DEF NodeHears
  <2>. QED BY <1>3, <2>1, <2>2, <2>3 DEF NodeHears, NetTypes, HostInv, Holds
<1>4. CASE NodeEnds(n)
  <2>1. LeaseInv' /\ \A l \in Leases : acquire'[l] = "unused" => acquire[l] = "unused"
    BY <1>4, EndLeasesKeeps DEF NodeEnds
  <2>2. RestTypes'
    BY <1>4 DEF NodeEnds, RestTypes
  <2>3. AskedOnce'
    BY <1>4, <2>1, AskedOnceKept DEF NodeEnds
  <2>. QED BY <1>4, <2>1, <2>2, <2>3 DEF NodeEnds, NetTypes, HostInv, Holds
<1>5. CASE CheckLease(n) \/ RunNode(n)
  <2>1. RestTypes'
    BY SMTT(60), <1>5 DEF CheckLease, RunNode, RestTypes, OtherVars
  <2>. QED BY <1>5, <2>1
       DEF CheckLease, RunNode, OtherVars, NetTypes, LeaseInv, HostInv, Holds, AskedOnce
<1>. QED BY <1>1, <1>2, <1>3, <1>4, <1>5 DEF NodeStep, StartNode

(* A run's end ends its leases. *)
LEMMA RunEndsKeeps ==
  ASSUME LeasesAssumption, IInv, NEW r \in Runs, RunEnds(r)
  PROVE  IInv' /\ UNCHANGED <<granted, released>>
<1>. USE DEF IInv
<1>. USE DEF offerVars, leaseVars, nodeVars, lineVars, hostVars, netVars
<1>1. LeaseInv' /\ \A l \in Leases : acquire'[l] = "unused" => acquire[l] = "unused"
  BY EndLeasesKeeps DEF RunEnds
<1>2. RestTypes'
  BY DEF RunEnds, RestTypes
<1>3. AskedOnce'
  BY <1>1, AskedOnceKept DEF RunEnds
<1>. QED BY <1>1, <1>2, <1>3 DEF RunEnds, NetTypes, HostInv, Holds

(* What a step of the host is to its promise. *)
LockStep == Lock!LockNext \/ UNCHANGED Lock!lockVars

(* Ending leases the host knows is a departure. *)
LEMMA EndRunsIsDepart ==
  ASSUME LeasesAssumption, HostInv, NEW L, EndEngineRuns(L)
  PROVE  /\ HostInv'
         /\ \A l \in Leases : granted[l] = "unknown" => granted'[l] = "unknown"
         /\ LockStep
<1>1. L \cap known \in SUBSET Leases
  BY DEF HostInv
<1>2. Lock!Depart(L \cap known)
  BY EndRunsKeeps
<1>3. LockStep
  BY <1>1, <1>2 DEF LockStep, Lock!LockNext, Lock!Depart
<1>. QED BY <1>3, EndRunsKeeps

(* What the host does with what it receives. *)
LEMMA HostStepKeeps ==
  ASSUME LeasesAssumption, IInv, NEW e \in Engines, HostStep(e)
  PROVE  IInv' /\ LockStep
<1>. USE DEF IInv
<1>. USE DEF offerVars, leaseVars, nodeVars, lineVars, OtherVars
<1>1. CASE ReceiveOffer(e)
  <2>1. PICK request \in DOMAIN chan[e] :
          /\ request.kind = "offer" /\ Take(e, request)
          /\ sessions' = sessions \cup {e}
          /\ Reply(e, request, TRUE)
    BY <1>1 DEF ReceiveOffer
  <2>2. UNCHANGED <<OtherVars, lineVars, answering, last, work, up, unheard>>
    BY <1>1 DEF ReceiveOffer
  <2>3. chan' = [chan EXCEPT ![e] = Remove(@, {request})]
    BY <2>1 DEF Take
  <2>4. NetTypes'
    <3>1. request \in Requests
      BY RequestTypes
    <3>2. replies' \subseteq Replies
      <4>1. \A ok \in BOOLEAN : [to |-> e, request |-> request, ok |-> ok] \in Replies
        BY <3>1 DEF Replies
      <4>. QED BY <2>1, <4>1 DEF Reply, NetTypes
    <3>. QED BY <2>2, <2>3, <3>2, RemoveLeaves DEF NetTypes
  <2>5. AskedOnce'
    BY <2>2, <2>3, RemoveLeaves, AskedOnceKept
  <2>6. RestTypes'
    BY <2>1, <2>2 DEF RestTypes
  <2>7. LeaseInv' /\ HostInv' /\ UNCHANGED Lock!lockVars
    BY <2>2 DEF LeaseInv, HostInv, Holds, Lock!lockVars
  <2>. QED BY <2>4, <2>5, <2>6, <2>7 DEF LockStep
<1>2. CASE ReceiveAcquire(e)
  <2>1. PICK request \in DOMAIN chan[e] :
          /\ request.kind = "acquire" /\ Take(e, request)
          /\ IF e \notin sessions
             THEN /\ granted' = [granted EXCEPT ![request.lease] = "refused"]
                  /\ UNCHANGED <<line, front, stage, known>>
             ELSE /\ granted' = [granted EXCEPT ![request.lease] = "waiting"]
                  /\ known' = known \cup {request.lease}
                  /\ StartNextIfIdle(Enqueue(line, request.lease))
          /\ answering' = answering \cup {request.lease}
          /\ UNCHANGED <<OtherVars, sessions, released, last, work, up, unheard, replies>>
    BY <1>2 DEF ReceiveAcquire
  <2>. DEFINE l == request.lease
  <2>2. /\ l \in Leases /\ granted[l] = "unknown" /\ HomeOf[l] = e
    BY <2>1, RequestTypes DEF AskedOnce
  <2>3. chan' = [chan EXCEPT ![e] = Remove(@, {request})]
    BY <2>1 DEF Take
  <2>4. NetTypes'
    BY <2>1, <2>3, RemoveLeaves DEF NetTypes
  <2>5. RestTypes' /\ LeaseInv'
    BY <2>1, <2>2 DEF RestTypes, LeaseInv
  <2>6. /\ granted' \in [Leases -> {"unknown", "waiting", "yes", "refused"}]
        /\ granted'[l] \in {"waiting", "refused"}
        /\ \A k \in Leases : k # l => granted'[k] = granted[k]
        /\ l \notin released
    BY SMTT(60), <2>1, <2>2 DEF HostInv
  <2>7. HostInv'
    <3>1. CASE e \notin sessions
      BY <2>1, <2>2, <2>6, <3>1 DEF HostInv, Holds
    <3>2. CASE e \in sessions
      <4>. DEFINE q == Enqueue(line, l)
      <4>1. q \in Lines(Leases)
        <5>1. line \in Lines(Leases)
          BY DEF HostInv
        <5>. QED BY <2>2, <5>1, LineOps
      <4>2. /\ line' \in Lines(Leases)
            /\ \/ UNCHANGED <<front, stage>>
               \/ /\ front = None /\ front' \in Leases
                  /\ stage' = "starting"
        <5>1. CASE front # None \/ Heads(q) = {}
          <6>1. line' = q /\ front' = front /\ stage' = stage
            BY <2>1, <3>2, <5>1 DEF StartNextIfIdle
          <6>. HIDE DEF q
          <6>. QED BY <4>1, <6>1
        <5>2. CASE ~(front # None \/ Heads(q) = {})
          <6>1. PICK next \in Heads(q) :
                  front' = next /\ line' = Remove(q, {next}) /\ stage' = "starting"
            BY <2>1, <3>2, <5>2 DEF StartNextIfIdle
          <6>. HIDE DEF q
          <6>. QED BY <4>1, <5>2, <6>1, LineOps
        <5>. QED BY <5>1, <5>2
      <4>3. known' = known \cup {l} /\ released' = released
        BY <2>1, <3>2
      <4>. HIDE DEF l
      <4>. QED BY <2>2, <2>6, <4>2, <4>3 DEF HostInv, Holds, LeasesAssumption
    <3>. QED BY <3>1, <3>2
  <2>8. AskedOnce'
    <3>1. \A f \in Engines : \A m \in DOMAIN chan[f] : m.kind = "acquire" => m.lease \in Leases
      BY RequestTypes
    <3>2. acquire' = acquire /\ acquire[l] # "unused"
      BY <2>1 DEF AskedOnce
    <3>3. \A f \in Engines : \A m \in DOMAIN chan'[f] :
            m.kind = "acquire" => m \in DOMAIN chan[f] /\ m.lease # l
      <4>1. /\ \A f \in Engines : DOMAIN chan'[f] \subseteq DOMAIN chan[f]
            /\ DOMAIN chan'[e] = DOMAIN chan[e] \ {request}
        BY <2>3, RemoveLeaves
      <4>2. request = [kind |-> "acquire", lease |-> l, id |-> 0]
        BY <2>1 DEF AskedOnce
      <4>3. ASSUME NEW f \in Engines, NEW m \in DOMAIN chan'[f], m.kind = "acquire", m.lease = l
            PROVE  FALSE
        <5>1. /\ m = [kind |-> "acquire", lease |-> m.lease, id |-> 0]
              /\ HomeOf[m.lease] = f
          BY <4>1, <4>3 DEF AskedOnce
        <5>. QED BY <2>2, <4>1, <4>2, <4>3, <5>1
      <4>. QED BY <4>1, <4>3
    <3>. QED BY SMTT(60), <2>6, <3>1, <3>2, <3>3 DEF AskedOnce
  <2>9. LockStep
    <3>1. \A k \in Leases : Holds(k)' <=> Holds(k)
      BY <2>1, <2>2, <2>6 DEF Holds
    <3>2. released' = released /\ ~Holds(l)
      BY <2>1, <2>2 DEF Holds
    <3>3. CASE granted'[l] = "refused"
      <4>1. Lock!Depart({l})
        BY <2>2, <2>6, <3>1, <3>2, <3>3 DEF Lock!Depart
      <4>2. {l} \in SUBSET Leases
        BY <2>2
      <4>. QED BY <4>1, <4>2 DEF LockStep, Lock!LockNext, Lock!Depart
    <3>4. CASE granted'[l] # "refused"
      BY <2>2, <2>6, <3>1, <3>2, <3>4 DEF LockStep, Lock!lockVars
    <3>. QED BY <3>3, <3>4
  <2>. QED BY <2>4, <2>5, <2>7, <2>8, <2>9
<1>3. CASE ReceiveRelease(e)
  <2>1. PICK request \in DOMAIN chan[e] :
          /\ request.kind = "release" /\ Take(e, request)
          /\ IF e \in sessions
             THEN EndEngineRuns({request.lease})
             ELSE UNCHANGED <<released, granted, known, line, front, stage>>
          /\ Reply(e, request, e \in sessions)
    BY <1>3 DEF ReceiveRelease
  <2>2. UNCHANGED <<OtherVars, sessions, answering, last, work, up, unheard>>
    BY <1>3 DEF ReceiveRelease
  <2>3. chan' = [chan EXCEPT ![e] = Remove(@, {request})]
    BY <2>1 DEF Take
  <2>4. NetTypes'
    <3>1. request \in Requests
      BY RequestTypes
    <3>2. replies' \subseteq Replies
      <4>1. \A ok \in BOOLEAN : [to |-> e, request |-> request, ok |-> ok] \in Replies
        BY <3>1 DEF Replies
      <4>2. (e \in sessions) \in BOOLEAN
        OBVIOUS
      <4>3. replies' = replies
            \/ replies' = replies \cup {[to |-> e, request |-> request, ok |-> e \in sessions]}
        BY <2>1 DEF Reply
      <4>4. [to |-> e, request |-> request, ok |-> e \in sessions] \in Replies
        BY <4>1, <4>2
      <4>. QED BY <4>3, <4>4 DEF NetTypes
    <3>. QED BY <2>2, <2>3, <3>2, RemoveLeaves DEF NetTypes
  <2>5. /\ HostInv'
        /\ \A l \in Leases : granted[l] = "unknown" => granted'[l] = "unknown"
        /\ LockStep
    <3>1. CASE e \in sessions
      BY <2>1, <3>1, EndRunsIsDepart
    <3>2. CASE e \notin sessions
      BY <2>1, <3>2 DEF HostInv, Holds, LockStep, Lock!lockVars
    <3>. QED BY <3>1, <3>2
  <2>6. AskedOnce'
    BY <2>2, <2>3, <2>5, RemoveLeaves, AskedOnceKept
  <2>7. RestTypes' /\ LeaseInv'
    BY <2>2 DEF RestTypes, LeaseInv
  <2>. QED BY <2>4, <2>5, <2>6, <2>7
<1>4. CASE ReceiveWithdraw(e)
  <2>1. PICK request \in DOMAIN chan[e] : Take(e, request)
    BY <1>4 DEF ReceiveWithdraw
  <2>2. /\ UNCHANGED <<OtherVars, answering, last, work, up, unheard, replies>>
        /\ EndEngineRuns(LeasesOf(e)) /\ sessions' = sessions \ {e}
    BY <1>4 DEF ReceiveWithdraw, ForgetEngine
  <2>3. chan' = [chan EXCEPT ![e] = Remove(@, {request})]
    BY <2>1 DEF Take
  <2>4. NetTypes'
    BY <2>2, <2>3, RemoveLeaves DEF NetTypes
  <2>5. /\ HostInv'
        /\ \A l \in Leases : granted[l] = "unknown" => granted'[l] = "unknown"
        /\ LockStep
    BY <2>2, EndRunsIsDepart
  <2>6. AskedOnce'
    BY <2>2, <2>3, <2>5, RemoveLeaves, AskedOnceKept
  <2>7. RestTypes' /\ LeaseInv'
    BY <2>2 DEF RestTypes, LeaseInv
  <2>. QED BY <2>4, <2>5, <2>6, <2>7
<1>5. CASE HostHearsLoss(e)
  <2>1. /\ UNCHANGED <<OtherVars, answering, last, work, up, chan, replies>>
        /\ EndEngineRuns(LeasesOf(e)) /\ sessions' = sessions \ {e}
        /\ unheard' = [unheard EXCEPT ![e] = @ \ {"host"}]
    BY <1>5 DEF HostHearsLoss, ForgetEngine
  <2>2. NetTypes'
    BY <2>1 DEF NetTypes
  <2>3. /\ HostInv'
        /\ \A l \in Leases : granted[l] = "unknown" => granted'[l] = "unknown"
        /\ LockStep
    BY <2>1, EndRunsIsDepart
  <2>4. AskedOnce'
    BY <2>1, <2>3, AskedOnceKept
  <2>5. RestTypes' /\ LeaseInv'
    BY <2>1 DEF RestTypes, LeaseInv
  <2>. QED BY <2>2, <2>3, <2>4, <2>5
<1>. QED BY <1>1, <1>2, <1>3, <1>4, <1>5 DEF HostStep

(* The driver of the lease at the front of the line. *)
LEMMA LineStepKeeps ==
  ASSUME LeasesAssumption, IInv, LineStep
  PROVE  IInv' /\ LockStep
<1>. USE DEF IInv
<1>. USE DEF offerVars, leaseVars, nodeVars, netVars, OtherVars
<1>1. ASSUME stage \in {"starting", "freeing"}, Grant(front),
             UNCHANGED <<OtherVars, sessions, known, released, answering, work, netVars>>
      PROVE  IInv' /\ LockStep
  <2>1. /\ HostInv'
        /\ \A l \in Leases : granted[l] = "unknown" => granted'[l] = "unknown"
        /\ last' \in Engines
        /\ Lock!Grant(front) \/ UNCHANGED granted
    BY <1>1, GrantKeeps
  <2>2. LockStep
    <3>1. CASE Lock!Grant(front)
      <4>1. front \in Leases
        BY <1>1 DEF HostInv
      <4>. QED BY <3>1, <4>1 DEF LockStep, Lock!LockNext, Lock!Grant
    <3>2. CASE UNCHANGED granted
      BY <1>1, <3>2 DEF LockStep, Lock!lockVars, Holds
    <3>. QED BY <2>1, <3>1, <3>2
  <2>3. AskedOnce'
    BY <1>1, <2>1, AskedOnceKept
  <2>. QED BY <1>1, <2>1, <2>2, <2>3 DEF RestTypes, LeaseInv, NetTypes
<1>2. ASSUME FinishFront, \A l \in Leases : ~Holds(l),
             known' \subseteq known,
             UNCHANGED <<OtherVars, sessions, granted, released, answering, last, work, netVars>>
      PROVE  IInv' /\ LockStep
  <2>1. HostInv'
    BY <1>2, FinishFrontKeeps
  <2>2. AskedOnce'
    BY <1>2, AskedOnceKept
  <2>. QED BY <1>2, <2>1, <2>2 DEF RestTypes, LeaseInv, NetTypes, LockStep, Lock!lockVars, Holds
<1>3. CASE DriveFront
  <2>1. stage = "starting" /\ \A l \in Leases : ~Holds(l)
    BY <1>3 DEF DriveFront, HostInv
  <2>2. CASE granted[front] = "refused"
    BY <1>2, <1>3, <2>1, <2>2 DEF DriveFront
  <2>3. CASE granted[front] # "refused" /\ last \in {None, HomeOf[front]}
    BY <1>1, <1>3, <2>1, <2>3 DEF DriveFront
  <2>4. CASE granted[front] # "refused" /\ last \notin {None, HomeOf[front]}
    <3>1. /\ stage' = "freeing" /\ UNCHANGED <<line, front, granted, last>>
          /\ UNCHANGED <<OtherVars, sessions, known, released, answering, work, netVars>>
      BY <1>3, <2>4 DEF DriveFront
    <3>2. HostInv'
      BY <2>1, <3>1 DEF HostInv, Holds
    <3>. QED BY <3>1, <3>2
         DEF RestTypes, LeaseInv, NetTypes, AskedOnce, LockStep, Lock!lockVars, Holds
  <2>. QED BY <2>2, <2>3, <2>4
<1>4. CASE WorkersFreed
  BY <1>1, <1>4 DEF WorkersFreed
<1>5. CASE LetGo
  <2>1. \A l \in Leases : ~Holds(l)
    BY <1>5 DEF LetGo, HostInv, Holds
  <2>. QED BY <1>2, <1>5, <2>1 DEF LetGo
<1>. QED BY <1>3, <1>4, <1>5 DEF LineStep

(* Lost messages and connections. *)
LEMMA TransportKeeps ==
  ASSUME LeasesAssumption, IInv, NEW e \in Engines, TransportStep(e)
  PROVE  IInv' /\ UNCHANGED <<granted, released>>
<1>. USE DEF IInv
<1>. USE DEF offerVars, leaseVars, nodeVars, lineVars, hostVars, OtherVars
<1>1. CASE Lose(e)
  <2>1. UNCHANGED <<OtherVars, sessions, lineVars, last, work, up, unheard>>
    BY <1>1 DEF Lose
  <2>2. /\ chan' \in [Engines -> Lines(Requests)]
        /\ \A f \in Engines : DOMAIN chan'[f] \subseteq DOMAIN chan[f]
        /\ replies' \subseteq replies /\ answering' \subseteq answering
    <3>1. CASE \E request \in DOMAIN chan[e] :
                 /\ chan' = [chan EXCEPT ![e] = Remove(@, {request})]
                 /\ UNCHANGED <<replies, answering>>
      BY <3>1, RemoveLeaves
    <3>2. CASE chan' = chan /\ replies' \subseteq replies /\ answering' \subseteq answering
      BY <3>2 DEF NetTypes
    <3>. QED BY <1>1, <3>1, <3>2 DEF Lose
  <2>3. AskedOnce'
    BY <2>1, <2>2, AskedOnceKept
  <2>4. NetTypes' /\ RestTypes'
    BY <2>1, <2>2 DEF NetTypes, RestTypes
  <2>. QED BY <2>1, <2>3, <2>4 DEF LeaseInv, HostInv, Holds
<1>2. CASE Disconnect(e)
  <2>1. UNCHANGED <<offerVars, leaseVars, nodeVars, sessions, lineVars, last, work>>
    BY <1>2 DEF Disconnect
  <2>2. /\ chan' \in [Engines -> Lines(Requests)]
        /\ \A f \in Engines : DOMAIN chan'[f] \subseteq DOMAIN chan[f]
    BY <1>2, EmptyIsLine DEF Disconnect, NetTypes
  <2>3. AskedOnce'
    BY <2>1, <2>2, AskedOnceKept
  <2>4. NetTypes'
    BY <1>2, <2>2 DEF Disconnect, NetTypes
  <2>5. used' \in [Engines -> [offers : Nat, faults : Nat, withdrawals : Nat]]
    <3>1. used[e] \in [offers : Nat, faults : Nat, withdrawals : Nat]
      BY DEF RestTypes
    <3>2. used' = [used EXCEPT ![e] = [used[e] EXCEPT !.faults = used[e].faults + 1]]
      BY <1>2 DEF Disconnect
    <3>3. [used[e] EXCEPT !.faults = used[e].faults + 1]
            \in [offers : Nat, faults : Nat, withdrawals : Nat]
      BY <3>1
    <3>. QED BY <3>2, <3>3 DEF RestTypes
  <2>6. RestTypes'
    BY <1>2, <2>1, <2>5 DEF Disconnect, RestTypes
  <2>. QED BY <2>1, <2>3, <2>4, <2>6 DEF LeaseInv, HostInv, Holds
<1>3. CASE Reconnect(e)
  <2>1. NetTypes' /\ AskedOnce'
    BY <1>3 DEF Reconnect, NetTypes, AskedOnce
  <2>. QED BY <1>3, <2>1 DEF Reconnect, RestTypes, LeaseInv, HostInv, Holds
<1>. QED BY <1>1, <1>2, <1>3 DEF TransportStep

-----------------------------------------------------------------------------
(* Every step keeps the invariant and is a step, or a stutter, of the lock. *)
LEMMA StepKeeps ==
  ASSUME LeasesAssumption, IInv, [Next]_vars
  PROVE  IInv' /\ LockStep
<1>1. CASE UNCHANGED vars
  BY <1>1 DEF vars, offerVars, leaseVars, nodeVars, lineVars, hostVars, netVars, IInv, RestTypes,
              NetTypes, LeaseInv, HostInv, AskedOnce, Holds, LockStep, Lock!lockVars
<1>2. ASSUME IInv', UNCHANGED <<granted, released>> PROVE IInv' /\ LockStep
  BY <1>2 DEF LockStep, Lock!lockVars, Holds
<1>3. ASSUME NEW e \in Engines, AskerStep(e) \/ TransportStep(e) PROVE IInv' /\ LockStep
  BY <1>2, <1>3, AskerKeeps, TransportKeeps
<1>4. ASSUME NEW l \in Leases, LeaseStep(l) PROVE IInv' /\ LockStep
  BY <1>2, <1>4, LeaseStepKeeps
<1>5. ASSUME NEW n \in Nodes, NodeStep(n) PROVE IInv' /\ LockStep
  BY <1>2, <1>5, NodeStepKeeps
<1>6. ASSUME NEW r \in Runs, RunEnds(r) PROVE IInv' /\ LockStep
  BY <1>2, <1>6, RunEndsKeeps
<1>. QED BY <1>1, <1>3, <1>4, <1>5, <1>6, HostStepKeeps, LineStepKeeps DEF Next

(* The state always has its types.  That no report is tried more often     *)
(* than _REPORT_ATTEMPTS needs the engines' books; that the host is asked  *)
(* once for a lease, and lets only the front of its line hold it, is what  *)
(* the theorem below needs.                                                *)
THEOREM TypeCorrect == Spec => []TypeOK
<1>1. Init => IInv
  BY InitInv, LeasesAssumption
<1>2. IInv /\ [Next]_vars => IInv'
  BY StepKeeps, LeasesAssumption
<1>3. IInv => TypeOK
  BY InvTypes, LeasesAssumption
<1>. QED BY <1>1, <1>2, <1>3, PTL DEF Spec

(* An engine that runs nodes for others is a lock, whatever is asked,      *)
(* released, withdrawn, lost or delayed: its leases hold it one at a time, *)
(* and none does once it let go or was refused (handle_acquire_lease_-     *)
(* request, hold_for_engine_run, _end_engine_run).                         *)
THEOREM HostImplementsLock == Spec => HostIsLock
<1>1. Init => IInv /\ Lock!LockInit
  BY InitInv, LeasesAssumption DEF Init, Lock!LockInit, Holds
<1>2. IInv /\ [Next]_vars => IInv' /\ [Lock!LockNext]_(Lock!lockVars)
  BY StepKeeps, LeasesAssumption DEF LockStep
<1>. QED BY <1>1, <1>2, PTL DEF Spec, HostIsLock, Lock!LockSpec
=============================================================================
