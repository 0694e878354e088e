---------------------- MODULE EngineLeasesGrantProofs ----------------------
(***************************************************************************)
(* Theorems about what a lease of EngineLeases stands for on both sides,   *)
(* when a channel keeps the order of its requests.                         *)
(***************************************************************************)
EXTENDS EngineLeasesProofs

-----------------------------------------------------------------------------
(* The inductive invariant, by what it is about. *)

AcquireOf(l) == [kind |-> "acquire", lease |-> l, id |-> 0]

(* A lost connection carries nothing, and comes back once both heard of it. *)
LossHeard ==
  \A e \in Engines :
    /\ e \notin up => DOMAIN chan[e] = {}
    /\ e \in up => unheard[e] = {}

(* A release is sent after the lease left the table, behind its acquire.   *)
ReleaseAfterAcquire ==
  \A e \in Engines : \A m \in DOMAIN chan[e] :
    m.kind = "release" =>
      /\ HomeOf[m.lease] = e
      /\ notice[m.lease] # "none"
      /\ AcquireOf(m.lease) \in DOMAIN chan[e] => AcquireOf(m.lease) \in chan[e][m]

(* While a withdrawal is on its way the engine uses no lease there, and    *)
(* nothing of it was asked after the withdrawal.                           *)
WithdrawnMeansUnused ==
  \A e \in Engines : \A w \in DOMAIN chan[e] :
    w.kind = "withdraw" =>
      /\ e \notin loaded
      /\ \A l \in table : HomeOf[l] # e
      /\ \A m \in DOMAIN chan[e] : m.kind = "acquire" => m \in chan[e][w]

(* Offers are numbered in order. *)
OffersNumbered ==
  /\ \A e \in Engines : \A m \in DOMAIN chan[e] :
       m.kind = "offer" => m.id <= used[e].offers
  /\ \A reply \in replies :
       reply.request.kind = "offer" => reply.request.id <= used[reply.to].offers

(* The offer whose answer an engine awaits comes after any withdrawal that *)
(* is still on its way, so that it was not answered.                       *)
OfferAfterWithdrawal ==
  \A e \in Engines : \A w \in DOMAIN chan[e] :
    w.kind = "withdraw" /\ offer[e] = "asked" =>
      /\ \A m \in DOMAIN chan[e] :
           m.kind = "offer" /\ m.id = used[e].offers => w \in chan[e][m]
      /\ \A reply \in replies :
           reply.to = e /\ reply.request.kind = "offer" => reply.request.id # used[e].offers

ChannelInv ==
  /\ LossHeard /\ ReleaseAfterAcquire /\ WithdrawnMeansUnused
  /\ OffersNumbered /\ OfferAfterWithdrawal

(* What both sides hold of a lease: the host lets go of none its engine    *)
(* uses, and an engine that heard of a lost connection uses none the host  *)
(* heard of.                                                               *)
BothSidesAgree ==
  /\ \A l \in answering : granted[l] # "unknown"
  /\ \A l \in Leases : acquire[l] = "granted" => granted[l] = "yes"
  /\ \A l \in table : HomeOf[l] \in up => l \notin released
  /\ \A l \in table :
       HomeOf[l] \notin up /\ "engine" \notin unheard[HomeOf[l]] => granted[l] = "unknown"

(* A lease is its engine's, a run's latest lease is the only one it uses.  *)
LeasesOfRuns ==
  /\ \A n \in Nodes : nodeLease[n] # None => HomeOf[nodeLease[n]] = HomeOf[n]
  /\ \A n \in Nodes : node[n] # "idle" => nodeLease[n] # None
  /\ \A l \in Leases : leaseRun[l] # None =>
       \E n \in Nodes : RunOf[n] = leaseRun[l] /\ HomeOf[n] = HomeOf[l]
  /\ \A l \in Leases : leaseRun[l] # None => acquire[l] # "unused"
  /\ \A r \in Runs : runLease[r] # None => leaseRun[runLease[r]] = r
  /\ \A l \in table : leaseRun[l] # None => runLease[leaseRun[l]] = l

SameRun(k, l) == k # l /\ leaseRun[k] = leaseRun[l] /\ leaseRun[k] # None

(* What waits in line was not answered, and what was let past was. *)
LineWaits ==
  /\ \A l \in DOMAIN line : granted[l] = "waiting"
  /\ front \notin DOMAIN line
  /\ front # None => granted[front] # "unknown"

(* Lease l is ahead of k on the way to the host and in its line. *)
AheadOf(k, l) ==
  /\ \A e \in Engines : AcquireOf(l) \in DOMAIN chan[e] =>
       /\ granted[k] = "unknown"
       /\ AcquireOf(k) \in DOMAIN chan[e] => AcquireOf(l) \in chan[e][AcquireOf(k)]
  /\ l \in DOMAIN line /\ granted[k] \notin {"unknown", "refused"} =>
       k \in DOMAIN line /\ l \in line[k]

(* The earlier leases of a run are ahead of the one it uses. *)
EarlierLeaseAhead == \A k \in table : \A l \in Leases : SameRun(k, l) => AheadOf(k, l)

(* The host holds leases of engines it knows, which it forgets once it     *)
(* hears that the connection was lost.                                     *)
ClaimsOfSessions ==
  /\ \A l \in Leases : Claims(l) => HomeOf[l] \in sessions
  /\ \A e \in Engines : e \notin up /\ "host" \notin unheard[e] => e \notin sessions

NoOfferLeft(e) == e \notin sessions /\ \A m \in DOMAIN chan[e] : m.kind # "offer"

(* An engine without a registration is one the host does not know, or will *)
(* not know once it heard of the withdrawal.                               *)
Unregistered ==
  \A e \in up : offer[e] = "no" =>
    \/ NoOfferLeft(e)
    \/ \E w \in DOMAIN chan[e] :
         /\ w.kind = "withdraw"
         /\ \A m \in DOMAIN chan[e] : m.kind = "offer" => m \in chan[e][w]

Freed(l) == ~Claims(l) /\ AcquireOf(l) \notin DOMAIN chan[HomeOf[l]]
WillBeRefused(l) ==
  /\ ~Claims(l) /\ HomeOf[l] \notin sessions
  /\ \A m \in DOMAIN chan[HomeOf[l]] : m.kind = "offer" => AcquireOf(l) \in chan[HomeOf[l]][m]
WillBeWithdrawn(l) == \E w \in DOMAIN chan[HomeOf[l]] : w.kind = "withdraw"

(* An answered release freed the lease; where there was nobody to tell,    *)
(* the lease is free, will be turned away, or will go with its engine.     *)
ReportsTrue ==
  /\ \A reply \in replies : reply.request.kind = "release" =>
       /\ notice[reply.request.lease] # "none"
       /\ Freed(reply.request.lease)
  /\ \A l \in Leases : notice[l] = "over" /\ HomeOf[l] \in up =>
       Freed(l) \/ WillBeRefused(l) \/ WillBeWithdrawn(l)

-----------------------------------------------------------------------------
(* Channels that keep the order. *)

(* What is sent comes after everything on its way. *)
LEMMA SendEffect ==
  ASSUME Ordered, NetTypes, NEW e \in Engines, NEW x, Send(e, x)
  PROVE  /\ \A f \in Engines : f # e => chan'[f] = chan[f]
         /\ e \notin up => chan' = chan
         /\ e \in up => DOMAIN chan'[e] = DOMAIN chan[e] \cup {x}
         /\ e \in up => chan'[e][x] = DOMAIN chan[e] \ {x}
         /\ e \in up => \A n \in DOMAIN chan[e] : n # x => chan'[e][n] = chan[e][n]
<1>1. CASE e \notin up
  BY <1>1 DEF Send
<1>2. CASE e \in up
  <2>1. chan' = [chan EXCEPT ![e] = Enqueue(chan[e], x)]
    BY <1>2 DEF Send
  <2>2. chan'[e] = Enqueue(chan[e], x) /\ \A f \in Engines : f # e => chan'[f] = chan[f]
    BY <2>1 DEF NetTypes
  <2>. QED BY <1>2, <2>2 DEF Enqueue
<1>. QED BY <1>1, <1>2

(* The same, as seen from any channel. *)
LEMMA SendView ==
  ASSUME Ordered, NetTypes, NEW e \in Engines, NEW x, Send(e, x)
  PROVE  /\ \A f \in Engines : \A m \in DOMAIN chan'[f] :
              m \in DOMAIN chan[f] \/ (f = e /\ m = x /\ e \in up)
         /\ \A f \in Engines : \A m, n \in DOMAIN chan[f] :
              ~ (f = e /\ n = x) /\ m \in chan[f][n] => m \in chan'[f][n]
         /\ \A m \in DOMAIN chan[e] : e \in up /\ m # x => m \in chan'[e][x]
         /\ e \notin up => chan' = chan
<1>1. CASE e \notin up
  BY <1>1, SendEffect
<1>2. CASE e \in up
  BY <1>2, SendEffect
<1>. QED BY <1>1, <1>2

(* What stays keeps its order. *)
LEMMA RemoveEffect ==
  ASSUME NetTypes, NEW e \in Engines, NEW S, chan' = [chan EXCEPT ![e] = Remove(@, S)]
  PROVE  /\ \A f \in Engines : f # e => chan'[f] = chan[f]
         /\ DOMAIN chan'[e] = DOMAIN chan[e] \ S
         /\ \A n \in DOMAIN chan'[e] : chan'[e][n] = chan[e][n] \ S
         /\ \A f \in Engines : DOMAIN chan'[f] \subseteq DOMAIN chan[f]
         /\ \A f \in Engines : \A m, n \in DOMAIN chan'[f] :
              m \in chan[f][n] => m \in chan'[f][n]
<1>1. chan'[e] = Remove(chan[e], S) /\ \A f \in Engines : f # e => chan'[f] = chan[f]
  BY DEF NetTypes
<1>2. /\ DOMAIN chan'[e] = DOMAIN chan[e] \ S
      /\ \A n \in DOMAIN chan'[e] : chan'[e][n] = chan[e][n] \ S
  BY <1>1 DEF Remove
<1>. QED BY <1>1, <1>2

(* What is taken had nothing ahead of it. *)
LEMMA TakeEffect ==
  ASSUME NetTypes, NEW e \in Engines, NEW x, Take(e, x)
  PROVE  /\ x \in DOMAIN chan[e]
         /\ chan[e][x] = {}
         /\ chan' = [chan EXCEPT ![e] = Remove(@, {x})]
  BY DEF Take, Heads

(* Offers and withdrawals change nothing about releases. *)
LEMMA OtherSent ==
  ASSUME ReleaseAfterAcquire, Ordered, NetTypes, NEW e \in Engines, NEW x, Send(e, x),
         x.kind \in {"offer", "withdraw"}, notice' = notice
  PROVE  ReleaseAfterAcquire'
<1>. SUFFICES ASSUME NEW f \in Engines, NEW m \in DOMAIN chan'[f], m.kind = "release"
              PROVE  /\ HomeOf[m.lease] = f
                     /\ notice[m.lease] # "none"
                     /\ AcquireOf(m.lease) \in DOMAIN chan'[f] => AcquireOf(m.lease) \in chan'[f][m]
  BY DEF ReleaseAfterAcquire, AcquireOf
<1>1. \A k : AcquireOf(k) # x
  BY DEF AcquireOf
<1>2. m \in DOMAIN chan[f] /\ m # x
  BY SendView
<1>3. AcquireOf(m.lease) \in DOMAIN chan'[f] => AcquireOf(m.lease) \in DOMAIN chan[f]
  BY <1>1, SendView
<1>. QED BY <1>2, <1>3, SendView DEF ReleaseAfterAcquire

(* A lost or received message, a lease that ends, a registration that is   *)
(* given up: where less is on its way or in use the channels stay true.    *)
LEMMA LessTravels ==
  ASSUME ChannelInv, NetTypes, RestTypes,
         \A e \in Engines : DOMAIN chan'[e] \subseteq DOMAIN chan[e],
         \A e \in Engines : \A m, n \in DOMAIN chan'[e] : m \in chan[e][n] => m \in chan'[e][n],
         \A reply \in replies' : reply.request.kind = "offer" => reply \in replies,
         table' \subseteq table,
         \A l \in Leases : notice[l] # "none" => notice'[l] # "none",
         loaded' \subseteq loaded,
         \A e \in Engines : used'[e].offers = used[e].offers,
         \A e \in Engines : offer'[e] = "asked" => offer[e] = "asked",
         LossHeard', NetTypes'
  PROVE  ChannelInv'
<1>. USE DEF ChannelInv
<1>1. \A e \in Engines : \A m \in DOMAIN chan[e] :
        m.kind \in {"acquire", "release"} => m.lease \in Leases
  BY RequestTypes
<1>2. ReleaseAfterAcquire'
  BY <1>1 DEF ReleaseAfterAcquire
<1>3. WithdrawnMeansUnused'
  BY DEF WithdrawnMeansUnused
<1>4. \A reply \in replies' : reply.to \in Engines
  BY DEF NetTypes, Replies
<1>5. OffersNumbered'
  BY <1>4 DEF OffersNumbered
<1>6. OfferAfterWithdrawal'
  BY DEF OfferAfterWithdrawal
<1>. QED BY <1>2, <1>3, <1>5, <1>6

-----------------------------------------------------------------------------
(* The channels. *)

(* What the engines that ask do with their registrations. *)
LEMMA AskerChannels ==
  ASSUME LeasesAssumption, Ordered, IInv, IInv', ChannelInv, NEW e \in Engines, AskerStep(e)
  PROVE  ChannelInv'
<1>. USE DEF ChannelInv
<1>. USE DEF offerVars, leaseVars, nodeVars, lineVars, hostVars, netVars
<1>1. NetTypes /\ RestTypes /\ NetTypes' /\ LeaseInv /\ RestTypes'
  BY DEF IInv
<1>2. \A f \in Engines : \A m \in DOMAIN chan[f] :
        m.kind \in {"acquire", "release"} => m.lease \in Leases
  BY <1>1, RequestTypes
<1>3. \A reply \in replies : reply.to \in Engines
  BY <1>1 DEF NetTypes, Replies
<1>4. CASE Offer(e)
  <2>. DEFINE request == [kind |-> "offer", id |-> used[e].offers + 1]
  <2>1. /\ Send(e, request) /\ request.kind = "offer" /\ request.id = used[e].offers + 1
        /\ UNCHANGED <<loaded, table, notice, up, unheard, replies>>
        /\ offer' = [offer EXCEPT ![e] = "asked"]
    BY <1>4 DEF Offer
  <2>2. /\ used'[e].offers = used[e].offers + 1 /\ used[e].offers \in Nat
        /\ \A f \in Engines : f # e => used'[f] = used[f]
        /\ \A f \in Engines : used[f].offers \in Nat
    BY <1>1, <1>4 DEF Offer, RestTypes
  <2>. HIDE DEF request
  <2>3. LossHeard'
    BY <1>1, <2>1, SendView DEF LossHeard
  <2>4. ReleaseAfterAcquire'
    BY <1>1, <1>2, <2>1, OtherSent DEF ReleaseAfterAcquire
  <2>5. WithdrawnMeansUnused'
    BY <1>1, <2>1, SendView DEF WithdrawnMeansUnused
  <2>6. \A f \in Engines : \A m \in DOMAIN chan[f] : m.kind = "offer" => m.id \in Nat
    BY <1>1, RequestTypes DEF Requests
  <2>7. \A reply \in replies : reply.request.kind = "offer" => reply.request.id \in Nat
    BY <1>1 DEF NetTypes, Replies, Requests
  <2>8. OffersNumbered'
    <3>1. ASSUME NEW f \in Engines, NEW m \in DOMAIN chan'[f], m.kind = "offer"
          PROVE  m.id <= used'[f].offers
      <4>1. CASE m \in DOMAIN chan[f]
        <5>1. m.id \in Nat /\ m.id <= used[f].offers /\ used[f].offers \in Nat
          BY <2>2, <2>6, <3>1, <4>1 DEF OffersNumbered
        <5>2. used'[f].offers = used[f].offers \/ used'[f].offers = used[f].offers + 1
          BY <2>2
        <5>. QED BY <5>1, <5>2
      <4>2. CASE m \notin DOMAIN chan[f]
        <5>1. f = e /\ m = request
          BY <1>1, <2>1, <4>2, SendView
        <5>. QED BY <2>1, <2>2, <5>1
      <4>. QED BY <4>1, <4>2
    <3>2. ASSUME NEW reply \in replies', reply.request.kind = "offer"
          PROVE  reply.request.id <= used'[reply.to].offers
      <4>1. reply \in replies /\ reply.to \in Engines
        BY <1>3, <2>1
      <4>2. /\ reply.request.id \in Nat /\ used[reply.to].offers \in Nat
            /\ reply.request.id <= used[reply.to].offers
        BY <2>2, <2>7, <3>2, <4>1 DEF OffersNumbered
      <4>3. \/ used'[reply.to].offers = used[reply.to].offers
            \/ used'[reply.to].offers = used[reply.to].offers + 1
        BY <2>2, <4>1
      <4>. QED BY <4>2, <4>3
    <3>. QED BY <3>1, <3>2 DEF OffersNumbered
  <2>9. OfferAfterWithdrawal'
    <3>1. \A m \in DOMAIN chan[e] : m.kind = "offer" => m.id # used[e].offers + 1
      BY <2>2, <2>6 DEF OffersNumbered
    <3>2. \A reply \in replies : reply.to = e /\ reply.request.kind = "offer" =>
            reply.request.id # used[e].offers + 1
      BY <2>2, <2>7 DEF OffersNumbered
    <3>3. SUFFICES ASSUME NEW f \in Engines, NEW w \in DOMAIN chan'[f],
                          w.kind = "withdraw", offer'[f] = "asked"
                   PROVE  /\ \A m \in DOMAIN chan'[f] :
                               m.kind = "offer" /\ m.id = used'[f].offers => w \in chan'[f][m]
                          /\ \A reply \in replies : reply.to = f /\ reply.request.kind = "offer" =>
                               reply.request.id # used'[f].offers
      BY <2>1 DEF OfferAfterWithdrawal
    <3>4. w \in DOMAIN chan[f] /\ w # request
      BY <1>1, <2>1, <3>3, SendView
    <3>5. CASE f = e
      <4>1. \A m \in DOMAIN chan'[e] : m.kind = "offer" /\ m.id = used[e].offers + 1 =>
              m = request /\ m \notin DOMAIN chan[e]
        BY <1>1, <2>1, <3>1, SendView
      <4>2. e \in up
        BY <3>4, <3>5 DEF LossHeard
      <4>3. w \in chan'[e][request]
        BY <1>1, <2>1, <3>4, <3>5, <4>2, SendView
      <4>. QED BY <2>2, <3>2, <3>5, <4>1, <4>3
    <3>6. CASE f # e
      <4>1. offer[f] = "asked" /\ used'[f] = used[f]
        BY <1>1, <2>1, <2>2, <3>3, <3>6 DEF RestTypes
      <4>2. chan'[f] = chan[f]
        BY <1>1, <2>1, <3>6, SendEffect
      <4>. QED BY <3>3, <3>4, <4>1, <4>2 DEF OfferAfterWithdrawal
    <3>. QED BY <3>5, <3>6
  <2>. QED BY <2>3, <2>4, <2>5, <2>8, <2>9
<1>5. CASE OfferAnswered(e)
  <2>1. PICK reply \in replies :
          /\ reply.request.kind = "offer" /\ reply.to = e
          /\ replies' = replies \ {reply}
          /\ IF offer[e] = "asked" /\ reply.request.id = used[e].offers
             THEN /\ offer' = [offer EXCEPT ![e] = "accepted"]
                  /\ loaded' = loaded \cup {e}
             ELSE UNCHANGED offerVars
          /\ UNCHANGED <<leaseVars, nodeVars, hostVars, work, up, unheard, chan, used>>
    BY <1>5 DEF OfferAnswered
  <2>2. LossHeard' /\ ReleaseAfterAcquire'
    BY <2>1 DEF LossHeard, ReleaseAfterAcquire
  <2>3. OffersNumbered'
    BY <2>1 DEF OffersNumbered
  <2>4. WithdrawnMeansUnused'
    BY <2>1 DEF WithdrawnMeansUnused, OfferAfterWithdrawal
  <2>5. \A f \in Engines : offer'[f] = "asked" => offer[f] = "asked"
    BY <1>1, <2>1 DEF RestTypes
  <2>6. OfferAfterWithdrawal'
    BY <2>1, <2>5 DEF OfferAfterWithdrawal
  <2>. QED BY <2>2, <2>3, <2>4, <2>6
<1>6. CASE OfferFails(e)
  BY <1>1, <1>6, LessTravels DEF OfferFails, RestTypes, LossHeard
<1>7. CASE Withdraw(e)
  <2>. DEFINE request == [kind |-> "withdraw", id |-> used[e].withdrawals + 1]
  <2>1. /\ Send(e, request) /\ request.kind = "withdraw"
        /\ UNCHANGED <<notice, up, unheard, replies>>
        /\ offer' = [offer EXCEPT ![e] = "no"]
        /\ loaded' = loaded \ {e}
        /\ table' = table \ LeasesOf(e)
    BY <1>7 DEF Withdraw, ForgetLeases
  <2>2. \A f \in Engines : used'[f].offers = used[f].offers
    BY <1>1, <1>7 DEF Withdraw, RestTypes
  <2>. HIDE DEF request
  <2>3. LossHeard'
    BY <1>1, <2>1, SendView DEF LossHeard
  <2>4. ReleaseAfterAcquire'
    BY <1>1, <1>2, <2>1, OtherSent DEF ReleaseAfterAcquire
  <2>5. WithdrawnMeansUnused'
    <3>1. SUFFICES ASSUME NEW f \in Engines, NEW w \in DOMAIN chan'[f], w.kind = "withdraw"
                   PROVE  /\ f \notin loaded'
                          /\ \A l \in table' : HomeOf[l] # f
                          /\ \A m \in DOMAIN chan'[f] : m.kind = "acquire" => m \in chan'[f][w]
      BY DEF WithdrawnMeansUnused
    <3>2. CASE f = e
      <4>1. e \notin loaded' /\ \A l \in table' : HomeOf[l] # e
        BY <1>1, <2>1 DEF LeasesOf, LeaseInv
      <4>2. ASSUME NEW m \in DOMAIN chan'[e], m.kind = "acquire" PROVE m \in chan'[e][w]
        <5>1. m \in DOMAIN chan[e] /\ m # request
          BY <1>1, <2>1, <4>2, SendView
        <5>2. e \in up
          BY <5>1 DEF LossHeard
        <5>3. CASE w = request
          BY <1>1, <2>1, <5>1, <5>2, <5>3, SendView
        <5>4. CASE w # request
          <6>1. w \in DOMAIN chan[e]
            BY <1>1, <2>1, <3>2, <5>4, SendView
          <6>2. m \in chan[e][w]
            BY <3>1, <4>2, <5>1, <6>1 DEF WithdrawnMeansUnused
          <6>. QED BY <1>1, <2>1, <5>1, <5>4, <6>1, <6>2, SendView
        <5>. QED BY <5>3, <5>4
      <4>. QED BY <3>2, <4>1, <4>2
    <3>3. CASE f # e
      <4>1. chan'[f] = chan[f]
        BY <1>1, <2>1, <3>3, SendEffect
      <4>. QED BY <2>1, <3>1, <4>1 DEF WithdrawnMeansUnused
    <3>. QED BY <3>2, <3>3
  <2>6. OffersNumbered'
    BY <1>1, <1>3, <2>1, <2>2, SendView DEF OffersNumbered
  <2>7. OfferAfterWithdrawal'
    <3>1. offer'[e] = "no" /\ \A f \in Engines : f # e => offer'[f] = offer[f] /\ chan'[f] = chan[f]
      BY <1>1, <2>1, SendEffect DEF RestTypes
    <3>. QED BY <2>1, <2>2, <3>1 DEF OfferAfterWithdrawal
  <2>. QED BY <2>3, <2>4, <2>5, <2>6, <2>7
<1>8. CASE EngineHearsLoss(e)
  <2>1. LossHeard'
    BY <1>1, <1>8 DEF EngineHearsLoss, LossHeard, NetTypes
  <2>. QED BY <1>1, <1>8, <2>1, LessTravels DEF EngineHearsLoss, ForgetLeases, RestTypes
<1>. QED BY <1>4, <1>5, <1>6, <1>7, <1>8 DEF AskerStep

(* What happens to a lease, a node or a run on the engine that asks. *)
LEMMA LeaseChannels ==
  ASSUME LeasesAssumption, Ordered, IInv, IInv', ChannelInv,
         (\E l \in Leases : LeaseStep(l)) \/ (\E n \in Nodes : NodeStep(n))
           \/ (\E r \in Runs : RunEnds(r))
  PROVE  ChannelInv'
<1>. USE DEF ChannelInv
<1>. USE DEF offerVars, leaseVars, nodeVars, lineVars, hostVars, netVars, OtherVars
<1>1. NetTypes /\ RestTypes /\ NetTypes' /\ LeaseInv /\ AskedOnce
  BY DEF IInv
<1>2. \A f \in Engines : \A m \in DOMAIN chan[f] :
        m.kind \in {"acquire", "release"} => m.lease \in Leases
  BY <1>1, RequestTypes
<1>3. ASSUME NEW l \in Leases, TellReleased(l), offer[HomeOf[l]] # "no"
      PROVE  ChannelInv'
  <2>. DEFINE request == [kind |-> "release", lease |-> l, id |-> tries[l] + 1]
  <2>1. /\ Send(HomeOf[l], request) /\ request.kind = "release" /\ request.lease = l
        /\ UNCHANGED <<table, up, unheard, replies, offer, loaded, used>>
        /\ notice' = [notice EXCEPT ![l] = "sent"]
        /\ HomeOf[l] \in Engines
        /\ AcquireOf(l) # request
    BY <1>3 DEF TellReleased, LeasesAssumption, AcquireOf
  <2>. HIDE DEF request
  <2>2. LossHeard'
    BY <1>1, <2>1, SendView DEF LossHeard
  <2>3. \A k : AcquireOf(k) # request
    BY <2>1 DEF AcquireOf
  <2>4. ReleaseAfterAcquire'
    <3>1. SUFFICES ASSUME NEW f \in Engines, NEW m \in DOMAIN chan'[f], m.kind = "release"
                   PROVE  /\ HomeOf[m.lease] = f
                          /\ notice'[m.lease] # "none"
                          /\ AcquireOf(m.lease) \in DOMAIN chan'[f] =>
                               AcquireOf(m.lease) \in chan'[f][m]
      BY DEF ReleaseAfterAcquire, AcquireOf
    <3>2. AcquireOf(m.lease) \in DOMAIN chan'[f] => AcquireOf(m.lease) \in DOMAIN chan[f]
      BY <1>1, <2>1, <2>3, SendView
    <3>3. CASE f = HomeOf[l] /\ m = request
      <4>1. HomeOf[m.lease] = f /\ notice'[m.lease] # "none"
        BY <1>1, <2>1, <3>3 DEF LeaseInv
      <4>2. AcquireOf(m.lease) \in DOMAIN chan'[f] => f \in up
        BY <3>2 DEF LossHeard
      <4>. QED BY <1>1, <2>1, <2>3, <3>2, <3>3, <4>1, <4>2, SendView
    <3>4. CASE ~ (f = HomeOf[l] /\ m = request)
      <4>1. m \in DOMAIN chan[f]
        BY <1>1, <2>1, <3>4, SendView
      <4>2. HomeOf[m.lease] = f /\ notice[m.lease] # "none" /\ m.lease \in Leases
        BY <1>2, <3>1, <4>1 DEF ReleaseAfterAcquire
      <4>3. notice'[m.lease] # "none"
        BY <1>1, <2>1, <4>2 DEF LeaseInv
      <4>. QED BY <1>1, <2>1, <3>1, <3>2, <3>4, <4>1, <4>2, <4>3, SendView DEF ReleaseAfterAcquire
    <3>. QED BY <3>3, <3>4
  <2>5. WithdrawnMeansUnused'
    BY <1>1, <2>1, SendView DEF WithdrawnMeansUnused
  <2>6. OffersNumbered'
    BY <1>1, <2>1, SendView DEF OffersNumbered
  <2>7. OfferAfterWithdrawal'
    BY <1>1, <2>1, SendView DEF OfferAfterWithdrawal
  <2>. QED BY <2>2, <2>4, <2>5, <2>6, <2>7
<1>4. ASSUME NEW n \in Nodes, StartNode(n), NEW l \in Leases, AcquireLease(n, l)
      PROVE  ChannelInv'
  <2>. DEFINE request == AcquireOf(l)
           e == HomeOf[n]
  <2>1. /\ Send(e, request) /\ request.kind = "acquire" /\ request.lease = l
        /\ UNCHANGED <<notice, up, unheard, replies, offer, loaded, used>>
        /\ table' = table \cup {l} /\ notice[l] = "none"
        /\ e \in Engines /\ e \in loaded /\ HomeOf[l] = e
    BY <1>1, <1>4 DEF StartNode, AcquireLease, LeasesAssumption, AcquireOf, LeaseInv
  <2>2. \A m \in DOMAIN chan[e] : m.kind # "withdraw"
    BY <2>1 DEF WithdrawnMeansUnused
  <2>3. \A m \in DOMAIN chan[e] : m.kind = "release" => m.lease # l
    BY <2>1 DEF ReleaseAfterAcquire
  <2>4. \A k \in Leases : AcquireOf(k) = request => k = l
    BY DEF AcquireOf
  <2>. HIDE DEF request, e
  <2>5. LossHeard'
    BY <1>1, <2>1, SendView DEF LossHeard
  <2>6. ReleaseAfterAcquire'
    BY <1>1, <1>2, <2>1, <2>3, <2>4, SendView DEF ReleaseAfterAcquire
  <2>7. WithdrawnMeansUnused'
    BY <1>1, <2>1, <2>2, SendView DEF WithdrawnMeansUnused
  <2>8. OffersNumbered'
    BY <1>1, <2>1, SendView DEF OffersNumbered
  <2>9. OfferAfterWithdrawal'
    BY <1>1, <2>1, <2>2, SendView DEF OfferAfterWithdrawal
  <2>. QED BY <2>5, <2>6, <2>7, <2>8, <2>9
<1>5. ASSUME UNCHANGED <<up, unheard, chan, offer, loaded, used>>,
             replies' \subseteq replies, table' \subseteq table,
             \A l \in Leases : notice[l] # "none" => notice'[l] # "none"
      PROVE  ChannelInv'
  <2>1. LossHeard'
    BY <1>5 DEF LossHeard
  <2>. QED BY <1>1, <1>5, <2>1, LessTravels
<1>6. ASSUME NEW L, EndLeases(L) PROVE /\ table' \subseteq table
                                       /\ \A l \in Leases : notice[l] # "none" => notice'[l] # "none"
  BY <1>6 DEF EndLeases
<1>7. ASSUME NEW l \in Leases, LeaseStep(l) PROVE ChannelInv'
  <2>1. CASE AcquireAnswered(l) \/ AcquireLost(l)
    BY <1>5, <2>1 DEF AcquireAnswered, AcquireLost
  <2>2. CASE TellReleased(l) /\ offer[HomeOf[l]] = "no"
    BY <1>1, <1>5, <2>2 DEF TellReleased, LeaseInv
  <2>3. CASE ReleaseAnswered(l)
    BY <1>1, <1>5, <2>3 DEF ReleaseAnswered, LeaseInv
  <2>4. CASE ReleaseUnanswered(l)
    BY <1>1, <1>5, <2>4 DEF ReleaseUnanswered, LeaseInv
  <2>. QED BY <1>3, <1>7, <2>1, <2>2, <2>3, <2>4 DEF LeaseStep
<1>8. ASSUME NEW n \in Nodes, NodeStep(n) PROVE ChannelInv'
  <2>1. CASE StartNode(n) /\ WaitOnRunsLease(n)
    BY <1>5, <2>1 DEF StartNode, WaitOnRunsLease
  <2>2. CASE NodeHears(n)
    BY <1>5, <1>6, <2>2 DEF NodeHears
  <2>3. CASE NodeEnds(n)
    BY <1>5, <1>6, <2>3 DEF NodeEnds
  <2>4. CASE CheckLease(n) \/ RunNode(n)
    BY <1>5, <2>4 DEF CheckLease, RunNode
  <2>. QED BY <1>4, <1>8, <2>1, <2>2, <2>3, <2>4 DEF NodeStep, StartNode
<1>9. ASSUME NEW r \in Runs, RunEnds(r) PROVE ChannelInv'
  BY <1>5, <1>6, <1>9 DEF RunEnds
<1>. QED BY <1>7, <1>8, <1>9

(* What the host does. *)
LEMMA HostChannels ==
  ASSUME LeasesAssumption, Ordered, IInv, IInv', ChannelInv,
         (\E e \in Engines : HostStep(e)) \/ LineStep
  PROVE  ChannelInv'
<1>. USE DEF ChannelInv
<1>. USE DEF offerVars, leaseVars, nodeVars, lineVars, hostVars, netVars, OtherVars
<1>1. NetTypes /\ RestTypes /\ NetTypes' /\ LeaseInv
  BY DEF IInv
<1>2. ASSUME NEW e \in Engines, NEW request, Take(e, request),
             UNCHANGED <<OtherVars, up, unheard>>
      PROVE  /\ LossHeard'
             /\ \A f \in Engines : DOMAIN chan'[f] \subseteq DOMAIN chan[f]
             /\ \A f \in Engines : \A m, n \in DOMAIN chan'[f] : m \in chan[f][n] => m \in chan'[f][n]
             /\ request \in DOMAIN chan[e] /\ chan[e][request] = {}
  <2>1. /\ request \in DOMAIN chan[e] /\ chan[e][request] = {}
        /\ chan' = [chan EXCEPT ![e] = Remove(@, {request})]
    BY <1>1, <1>2, TakeEffect
  <2>2. /\ \A f \in Engines : DOMAIN chan'[f] \subseteq DOMAIN chan[f]
        /\ \A f \in Engines : \A m, n \in DOMAIN chan'[f] : m \in chan[f][n] => m \in chan'[f][n]
    BY <1>1, <2>1, RemoveEffect
  <2>. QED BY ZenonT(60), <1>2, <2>1, <2>2 DEF LossHeard
<1>3. ASSUME NEW e \in Engines, NEW request, Take(e, request),
             UNCHANGED <<OtherVars, up, unheard>>,
             \A reply \in replies' : reply.request.kind = "offer" => reply \in replies
      PROVE  ChannelInv'
  BY <1>1, <1>2, <1>3, LessTravels
<1>4. ASSUME NEW e \in Engines, ReceiveOffer(e) PROVE ChannelInv'
  <2>1. PICK request \in DOMAIN chan[e] :
          /\ request.kind = "offer" /\ Take(e, request) /\ Reply(e, request, TRUE)
          /\ UNCHANGED <<OtherVars, up, unheard>>
    BY <1>4 DEF ReceiveOffer
  <2>2. /\ LossHeard'
        /\ \A f \in Engines : DOMAIN chan'[f] \subseteq DOMAIN chan[f]
        /\ \A f \in Engines : \A m, n \in DOMAIN chan'[f] : m \in chan[f][n] => m \in chan'[f][n]
        /\ chan[e][request] = {}
    BY <1>2, <2>1
  <2>3. \A reply \in replies' : reply \in replies \/ (reply.to = e /\ reply.request = request)
    BY <2>1 DEF Reply
  <2>4. \A f \in Engines : \A m \in DOMAIN chan[f] : m.kind = "release" => m.lease \in Leases
    BY <1>1, RequestTypes
  <2>5. ReleaseAfterAcquire'
    BY <2>1, <2>2, <2>4 DEF ReleaseAfterAcquire
  <2>6. WithdrawnMeansUnused'
    BY <2>1, <2>2 DEF WithdrawnMeansUnused
  <2>7. OffersNumbered'
    BY <2>1, <2>2, <2>3 DEF OffersNumbered
  <2>8. OfferAfterWithdrawal'
    BY <2>1, <2>2, <2>3 DEF OfferAfterWithdrawal
  <2>. QED BY <2>2, <2>5, <2>6, <2>7, <2>8
<1>5. ASSUME NEW e \in Engines, ReceiveAcquire(e) PROVE ChannelInv'
  BY <1>3, <1>5 DEF ReceiveAcquire
<1>6. ASSUME NEW e \in Engines, ReceiveRelease(e) PROVE ChannelInv'
  BY <1>3, <1>6 DEF ReceiveRelease, Reply
<1>7. ASSUME NEW e \in Engines, ReceiveWithdraw(e) PROVE ChannelInv'
  BY <1>3, <1>7 DEF ReceiveWithdraw
<1>8. ASSUME UNCHANGED <<up, chan, replies, OtherVars>>, LossHeard' PROVE ChannelInv'
  BY <1>1, <1>8, LessTravels
<1>9. ASSUME NEW e \in Engines, HostHearsLoss(e) PROVE ChannelInv'
  <2>1. LossHeard'
    BY <1>1, <1>9 DEF HostHearsLoss, LossHeard, NetTypes
  <2>. QED BY <1>8, <1>9, <2>1 DEF HostHearsLoss
<1>10. ASSUME LineStep PROVE ChannelInv'
  <2>1. UNCHANGED <<OtherVars, up, unheard, chan, replies>>
    BY <1>10 DEF LineStep, DriveFront, WorkersFreed, LetGo
  <2>2. LossHeard'
    BY <2>1 DEF LossHeard
  <2>. QED BY <1>8, <2>1, <2>2
<1>. QED BY <1>4, <1>5, <1>6, <1>7, <1>9, <1>10 DEF HostStep

(* What the transport does. *)
LEMMA TransportChannels ==
  ASSUME LeasesAssumption, Ordered, IInv, IInv', ChannelInv, NEW e \in Engines, TransportStep(e)
  PROVE  ChannelInv'
<1>. USE DEF ChannelInv
<1>. USE DEF offerVars, leaseVars, nodeVars, lineVars, hostVars, netVars, OtherVars
<1>1. NetTypes /\ RestTypes /\ NetTypes' /\ LeaseInv
  BY DEF IInv
<1>2. CASE Lose(e)
  <2>1. UNCHANGED <<OtherVars, up, unheard>> /\ replies' \subseteq replies
    BY <1>2 DEF Lose
  <2>2. chan' = chan \/ \E S : chan' = [chan EXCEPT ![e] = Remove(@, S)]
    BY <1>2 DEF Lose
  <2>3. /\ \A f \in Engines : DOMAIN chan'[f] \subseteq DOMAIN chan[f]
        /\ \A f \in Engines : \A m, n \in DOMAIN chan'[f] : m \in chan[f][n] => m \in chan'[f][n]
    BY <1>1, <2>2, RemoveEffect
  <2>4. LossHeard'
    BY <2>1, <2>3 DEF LossHeard
  <2>. QED BY <1>1, <2>1, <2>3, <2>4, LessTravels
<1>3. CASE Disconnect(e)
  <2>1. /\ UNCHANGED <<offerVars, leaseVars, nodeVars>> /\ replies' \subseteq replies
        /\ up' = up \ {e} /\ unheard' = [unheard EXCEPT ![e] = {"host", "engine"}]
        /\ chan' = [chan EXCEPT ![e] = EmptyLine]
    BY <1>3 DEF Disconnect
  <2>2. \A f \in Engines : used'[f].offers = used[f].offers
    BY <1>1, <1>3 DEF Disconnect, RestTypes
  <2>3. DOMAIN chan'[e] = {} /\ \A f \in Engines : f # e => chan'[f] = chan[f]
    BY <1>1, <2>1, EmptyIsLine DEF NetTypes
  <2>4. /\ \A f \in Engines : DOMAIN chan'[f] \subseteq DOMAIN chan[f]
        /\ \A f \in Engines : \A m, n \in DOMAIN chan'[f] : m \in chan[f][n] => m \in chan'[f][n]
    BY <2>3
  <2>5. LossHeard'
    BY <1>1, <2>1, <2>3 DEF LossHeard, NetTypes
  <2>. QED BY <1>1, <2>1, <2>2, <2>4, <2>5, LessTravels
<1>4. CASE Reconnect(e)
  <2>1. UNCHANGED <<OtherVars, unheard, chan, replies>>
    BY <1>4 DEF Reconnect
  <2>2. LossHeard'
    BY <1>4 DEF Reconnect, LossHeard
  <2>. QED BY <1>1, <2>1, <2>2, LessTravels
<1>. QED BY <1>2, <1>3, <1>4 DEF TransportStep

(* The channels stay true. *)
LEMMA ChannelsKept ==
  ASSUME LeasesAssumption, Ordered, IInv, IInv', ChannelInv, Next
  PROVE  ChannelInv'
BY AskerChannels, LeaseChannels, HostChannels, TransportChannels DEF Next

(* Where nothing happens, they stay as they are. *)
LEMMA ChannelsStutter == ChannelInv /\ UNCHANGED vars => ChannelInv'
BY DEF ChannelInv, LossHeard, ReleaseAfterAcquire, WithdrawnMeansUnused, OffersNumbered,
       OfferAfterWithdrawal, vars, offerVars, leaseVars, nodeVars, lineVars, hostVars, netVars

(* Nothing is on its way at the start. *)
LEMMA ChannelsStart == LeasesAssumption /\ Init => ChannelInv
<1>. SUFFICES ASSUME LeasesAssumption, Init PROVE ChannelInv
  OBVIOUS
<1>1. \A e \in Engines : DOMAIN chan[e] = {} /\ unheard[e] = {} /\ e \in up
  BY EmptyIsLine DEF Init
<1>2. replies = {}
  BY DEF Init
<1>. QED BY <1>1, <1>2 DEF ChannelInv, LossHeard, ReleaseAfterAcquire, WithdrawnMeansUnused,
                           OffersNumbered, OfferAfterWithdrawal

-----------------------------------------------------------------------------
(* What both sides hold of a lease. *)

(* The asking engine uses fewer leases, or one the host granted. *)
LEMMA FewerUsed ==
  ASSUME BothSidesAgree, UNCHANGED <<granted, released, up>>,
         answering' \subseteq answering, table' \subseteq table,
         \A l \in Leases : acquire'[l] = "granted" => acquire[l] = "granted" \/ granted[l] = "yes",
         \A l \in table' : "engine" \notin unheard'[HomeOf[l]] => "engine" \notin unheard[HomeOf[l]]
  PROVE  BothSidesAgree'
BY DEF BothSidesAgree

(* The host lets go of leases that their engine does not use. *)
LEMMA UnusedLetGo ==
  ASSUME LeasesAssumption, IInv, BothSidesAgree, NEW L, EndEngineRuns(L),
         UNCHANGED <<table, acquire, answering, up>>,
         \A l \in L \cap table : HomeOf[l] \notin up,
         \A e \in Engines : "engine" \in unheard[e] => "engine" \in unheard'[e]
  PROVE  BothSidesAgree'
<1>1. \A l \in Leases : /\ granted'[l] = "unknown" <=> granted[l] = "unknown"
                        /\ granted[l] = "yes" => granted'[l] = "yes"
                        /\ l \in released' => l \in released \/ l \in L
  BY DEF EndEngineRuns, IInv, HostInv
<1>2. table \subseteq Leases /\ answering \subseteq Leases /\ \A l \in Leases : HomeOf[l] \in Engines
  BY DEF IInv, LeaseInv, RestTypes, LeasesAssumption
<1>. QED BY <1>1, <1>2 DEF BothSidesAgree

(* Grants come before uses, and ends of use before the host lets go. *)
LEMMA AgreementKept ==
  ASSUME LeasesAssumption, Ordered, IInv, ChannelInv, BothSidesAgree, Next
  PROVE  BothSidesAgree'
<1>. USE DEF offerVars, leaseVars, nodeVars, lineVars, hostVars, netVars, OtherVars
<1>1. NetTypes /\ RestTypes /\ LeaseInv /\ HostInv /\ AskedOnce /\ LossHeard
  BY DEF IInv, ChannelInv
<1>2. \A l \in Leases : HomeOf[l] \in Engines
  BY DEF LeasesAssumption
<1>3. ASSUME NEW e \in Engines, AskerStep(e) PROVE BothSidesAgree'
  <2>1. CASE Offer(e)
    BY <2>1, FewerUsed DEF Offer
  <2>2. CASE OfferAnswered(e)
    BY <2>2, FewerUsed DEF OfferAnswered
  <2>3. CASE OfferFails(e)
    BY <2>3, FewerUsed DEF OfferFails
  <2>4. CASE Withdraw(e)
    BY <2>4, FewerUsed DEF Withdraw, ForgetLeases
  <2>5. CASE EngineHearsLoss(e)
    <3>1. /\ UNCHANGED <<granted, released, up, answering, acquire>>
          /\ table' = table \ LeasesOf(e)
          /\ unheard' = [unheard EXCEPT ![e] = @ \ {"engine"}]
      BY <2>5 DEF EngineHearsLoss, ForgetLeases
    <3>2. \A l \in table' : unheard'[HomeOf[l]] = unheard[HomeOf[l]]
      BY <1>1, <1>2, <3>1 DEF LeasesOf, LeaseInv, NetTypes
    <3>. QED BY <3>1, <3>2, FewerUsed
  <2>. QED BY <1>3, <2>1, <2>2, <2>3, <2>4, <2>5 DEF AskerStep
<1>4. ASSUME NEW l \in Leases, LeaseStep(l) PROVE BothSidesAgree'
  <2>1. CASE AcquireAnswered(l)
    BY <1>1, <2>1, FewerUsed DEF AcquireAnswered, LeaseInv
  <2>2. CASE AcquireLost(l)
    BY <1>1, <2>2, FewerUsed DEF AcquireLost, LeaseInv
  <2>3. CASE TellReleased(l) \/ ReleaseAnswered(l) \/ ReleaseUnanswered(l)
    BY <2>3, FewerUsed DEF TellReleased, ReleaseAnswered, ReleaseUnanswered
  <2>. QED BY <1>4, <2>1, <2>2, <2>3 DEF LeaseStep
<1>5. ASSUME NEW L, EndLeases(L), UNCHANGED <<granted, released, up, answering, unheard>>
      PROVE  BothSidesAgree'
  BY <1>5, FewerUsed DEF EndLeases
<1>6. ASSUME NEW n \in Nodes, NodeStep(n) PROVE BothSidesAgree'
  <2>1. ASSUME NEW l \in Leases, AcquireLease(n, l), StartNode(n) PROVE BothSidesAgree'
    <3>1. granted[l] = "unknown" /\ l \notin released
      BY <1>1, <2>1 DEF AcquireLease, AskedOnce, HostInv
    <3>2. /\ UNCHANGED <<granted, released, up, answering, unheard>>
          /\ table' = table \cup {l} /\ acquire' = [acquire EXCEPT ![l] = "asking"]
      BY <2>1 DEF AcquireLease, StartNode
    <3>3. \A k \in Leases : acquire'[k] = "granted" => acquire[k] = "granted"
      BY <1>1, <3>2 DEF LeaseInv
    <3>. QED BY <3>1, <3>2, <3>3 DEF BothSidesAgree
  <2>2. CASE StartNode(n) /\ WaitOnRunsLease(n)
    BY <2>2, FewerUsed DEF StartNode, WaitOnRunsLease
  <2>3. CASE NodeHears(n)
    BY <1>5, <2>3, FewerUsed DEF NodeHears
  <2>4. CASE NodeEnds(n)
    BY <1>5, <2>4 DEF NodeEnds
  <2>5. CASE CheckLease(n) \/ RunNode(n)
    BY <2>5, FewerUsed DEF CheckLease, RunNode
  <2>. QED BY <1>6, <2>1, <2>2, <2>3, <2>4, <2>5 DEF NodeStep, StartNode
<1>7. ASSUME NEW r \in Runs, RunEnds(r) PROVE BothSidesAgree'
  BY <1>5, <1>7 DEF RunEnds
<1>8. ASSUME NEW e \in Engines, HostStep(e) PROVE BothSidesAgree'
  <2>1. CASE ReceiveOffer(e)
    BY <2>1, FewerUsed DEF ReceiveOffer
  <2>2. CASE ReceiveAcquire(e)
    <3>1. PICK request \in DOMAIN chan[e] :
            /\ request.kind = "acquire"
            /\ \/ granted' = [granted EXCEPT ![request.lease] = "refused"]
               \/ granted' = [granted EXCEPT ![request.lease] = "waiting"]
            /\ answering' = answering \cup {request.lease}
            /\ UNCHANGED <<released, table, acquire, up, unheard>>
      BY <2>2 DEF ReceiveAcquire
    <3>2. request.lease \in Leases
      BY <1>1, <3>1, RequestTypes
    <3>3. granted[request.lease] = "unknown" /\ HomeOf[request.lease] = e /\ e \in up
      BY <1>1, <3>1 DEF AskedOnce, LossHeard
    <3>4. \A l \in Leases : IF l = request.lease THEN granted'[l] # "unknown"
                                                ELSE granted'[l] = granted[l]
      BY <1>1, <3>1, <3>2 DEF HostInv
    <3>5. table \subseteq Leases /\ answering \subseteq Leases
      BY <1>1 DEF LeaseInv, RestTypes
    <3>6. \A l \in answering' : granted'[l] # "unknown"
      BY <3>1, <3>2, <3>4, <3>5 DEF BothSidesAgree
    <3>7. \A l \in Leases : acquire'[l] = "granted" => granted'[l] = "yes"
      BY <3>1, <3>3, <3>4 DEF BothSidesAgree
    <3>8. \A l \in table : HomeOf[l] \in up => l \notin released
      BY DEF BothSidesAgree
    <3>9. \A l \in table : HomeOf[l] \notin up /\ "engine" \notin unheard[HomeOf[l]] =>
            granted'[l] = "unknown"
      BY <3>3, <3>4, <3>5 DEF BothSidesAgree
    <3>. QED BY <3>1, <3>6, <3>7, <3>8, <3>9 DEF BothSidesAgree
  <2>3. CASE ReceiveRelease(e)
    <3>1. PICK request \in DOMAIN chan[e] :
            /\ request.kind = "release"
            /\ EndEngineRuns({request.lease}) \/ UNCHANGED <<released, granted, known>>
            /\ UNCHANGED <<table, acquire, answering, up, unheard>>
      BY <2>3 DEF ReceiveRelease
    <3>2. request.lease \notin table
      BY <1>1, <3>1 DEF ChannelInv, ReleaseAfterAcquire, LeaseInv
    <3>. QED BY <3>1, <3>2, UnusedLetGo, FewerUsed
  <2>4. CASE ReceiveWithdraw(e)
    <3>1. PICK request \in DOMAIN chan[e] :
            /\ request.kind = "withdraw" /\ EndEngineRuns(LeasesOf(e))
            /\ UNCHANGED <<table, acquire, answering, up, unheard>>
      BY <2>4 DEF ReceiveWithdraw, ForgetEngine
    <3>2. LeasesOf(e) \cap table = {}
      BY <3>1 DEF ChannelInv, WithdrawnMeansUnused, LeasesOf
    <3>. QED BY <3>1, <3>2, UnusedLetGo
  <2>5. CASE HostHearsLoss(e)
    <3>1. /\ EndEngineRuns(LeasesOf(e)) /\ "host" \in unheard[e]
          /\ UNCHANGED <<table, acquire, answering, up>>
          /\ unheard' = [unheard EXCEPT ![e] = @ \ {"host"}]
      BY <2>5 DEF HostHearsLoss, ForgetEngine
    <3>2. \A l \in LeasesOf(e) : HomeOf[l] \notin up
      BY <1>1, <3>1 DEF LossHeard, LeasesOf
    <3>3. \A f \in Engines : "engine" \in unheard[f] => "engine" \in unheard'[f]
      BY <1>1, <3>1 DEF NetTypes
    <3>. QED BY <3>1, <3>2, <3>3, UnusedLetGo
  <2>. QED BY <1>8, <2>1, <2>2, <2>3, <2>4, <2>5 DEF HostStep
<1>9. ASSUME LineStep PROVE BothSidesAgree'
  <2>1. UNCHANGED <<table, acquire, answering, up, unheard, released>>
    BY <1>9 DEF LineStep, DriveFront, WorkersFreed, LetGo
  <2>2. granted' = granted \/ Grant(front)
    BY <1>9 DEF LineStep, DriveFront, WorkersFreed, LetGo
  <2>3. \A l \in Leases : /\ granted'[l] = "unknown" <=> granted[l] = "unknown"
                          /\ granted[l] = "yes" => granted'[l] = "yes"
    BY <1>1, <2>2 DEF Grant, HostInv
  <2>. QED BY <1>1, <2>1, <2>3 DEF BothSidesAgree, LeaseInv, RestTypes
<1>10. ASSUME NEW e \in Engines, TransportStep(e) PROVE BothSidesAgree'
  <2>1. CASE Lose(e)
    <3>1. answering' \subseteq answering /\ UNCHANGED <<OtherVars, lineVars, up, unheard>>
      BY <2>1 DEF Lose
    <3>. QED BY <3>1, FewerUsed
  <2>2. CASE Disconnect(e)
    BY <1>1, <1>2, <2>2 DEF Disconnect, BothSidesAgree, NetTypes, LeaseInv
  <2>3. CASE Reconnect(e)
    <3>1. \A l \in table : HomeOf[l] = e => l \notin released
      BY <1>1, <2>3 DEF Reconnect, BothSidesAgree, HostInv
    <3>. QED BY <2>3, <3>1 DEF Reconnect, BothSidesAgree
  <2>. QED BY <1>10, <2>1, <2>2, <2>3 DEF TransportStep
<1>. QED BY <1>3, <1>4, <1>6, <1>7, <1>8, <1>9, <1>10 DEF Next

-----------------------------------------------------------------------------
(* Leases and the runs they are for. *)

(* Leases that leave the table leave it as their runs' latest. *)
LEMMA FewerOfRuns ==
  ASSUME LeasesOfRuns, UNCHANGED <<leaseRun, nodeLease>>,
         NEW L, table' = table \ L,
         runLease' = [r \in Runs |-> IF runLease[r] \in L \cap table THEN None ELSE runLease[r]],
         \A l \in Leases : acquire'[l] = "unused" => acquire[l] = "unused",
         \A n \in Nodes : node'[n] # "idle" => node[n] # "idle",
         LeaseInv
  PROVE  LeasesOfRuns'
BY DEF LeasesOfRuns, LeaseInv

(* The books of the runs stay as they are. *)
LEMMA RunsUntouched ==
  ASSUME LeasesOfRuns, UNCHANGED <<leaseRun, nodeLease, table, runLease, node>>,
         \A l \in Leases : acquire'[l] = "unused" => acquire[l] = "unused"
  PROVE  LeasesOfRuns'
BY DEF LeasesOfRuns

(* A node waits on a lease of its own engine, a run on its latest. *)
LEMMA LeasesOfRunsKept ==
  ASSUME LeasesAssumption, IInv, LeasesOfRuns, Next
  PROVE  LeasesOfRuns'
<1>. USE DEF offerVars, leaseVars, nodeVars, lineVars, hostVars, netVars, OtherVars
<1>1. NetTypes /\ RestTypes /\ LeaseInv
  BY DEF IInv
<1>2. ASSUME NEW L, EndLeases(L), UNCHANGED nodeLease,
             \A n \in Nodes : node'[n] # "idle" => node[n] # "idle"
      PROVE  LeasesOfRuns'
  <2>1. \A l \in Leases : acquire'[l] = "unused" => acquire[l] = "unused"
    BY <1>1, <1>2, EndLeasesKeeps
  <2>. QED BY <1>1, <1>2, <2>1, FewerOfRuns DEF EndLeases
<1>3. ASSUME NEW e \in Engines, ForgetLeases(e), UNCHANGED <<node, nodeLease>>
      PROVE  LeasesOfRuns'
  <2>1. /\ UNCHANGED <<leaseRun, acquire>> /\ table' = table \ LeasesOf(e)
        /\ runLease' = [r \in Runs |-> IF runLease[r] \in LeasesOf(e) THEN None ELSE runLease[r]]
    BY <1>3 DEF ForgetLeases
  <2>. HIDE DEF LeasesOf
  <2>. QED BY <1>1, <1>3, <2>1 DEF LeasesOfRuns, LeaseInv
<1>4. ASSUME NEW n \in Nodes, NodeStep(n) PROVE LeasesOfRuns'
  <2>1. ASSUME NEW l \in Leases, AcquireLease(n, l), StartNode(n) PROVE LeasesOfRuns'
    <3>1. /\ RunOf[n] # None => runLease[RunOf[n]] = None
          /\ acquire[l] = "unused" /\ HomeOf[l] = HomeOf[n]
          /\ table' = table \cup {l}
          /\ leaseRun' = [leaseRun EXCEPT ![l] = RunOf[n]]
          /\ acquire' = [acquire EXCEPT ![l] = "asking"]
          /\ runLease' = [r \in Runs |-> IF r = RunOf[n] THEN l ELSE runLease[r]]
          /\ nodeLease' = [nodeLease EXCEPT ![n] = l]
          /\ node' = [node EXCEPT ![n] = "waiting"]
      BY <2>1 DEF AcquireLease, StartNode
    <3>2. leaseRun[l] = None /\ l \notin table /\ l # None /\ RunOf[n] \in Runs \cup {None}
          /\ None \notin Runs
      BY <1>1, <3>1 DEF LeasesOfRuns, LeaseInv, LeasesAssumption
    <3>3. \A m \in Nodes : IF m = n THEN nodeLease'[m] = l /\ node'[m] = "waiting"
                                    ELSE nodeLease'[m] = nodeLease[m] /\ node'[m] = node[m]
      BY <1>1, <3>1 DEF RestTypes
    <3>4. \A k \in Leases : IF k = l THEN leaseRun'[k] = RunOf[n] /\ acquire'[k] = "asking"
                                     ELSE leaseRun'[k] = leaseRun[k] /\ acquire'[k] = acquire[k]
      BY <1>1, <3>1 DEF LeaseInv
    <3>5. \A m \in Nodes : /\ nodeLease'[m] # None => HomeOf[nodeLease'[m]] = HomeOf[m]
                           /\ node'[m] # "idle" => nodeLease'[m] # None
      BY <3>1, <3>2, <3>3 DEF LeasesOfRuns
    <3>6. \A k \in Leases : leaseRun'[k] # None =>
            /\ acquire'[k] # "unused"
            /\ \E m \in Nodes : RunOf[m] = leaseRun'[k] /\ HomeOf[m] = HomeOf[k]
      BY <3>1, <3>4 DEF LeasesOfRuns
    <3>7. \A r \in Runs : runLease'[r] # None => leaseRun'[runLease'[r]] = r
      <4>1. SUFFICES ASSUME NEW r \in Runs, runLease'[r] # None
                     PROVE  leaseRun'[runLease'[r]] = r
        OBVIOUS
      <4>2. CASE r = RunOf[n]
        BY <3>1, <3>4, <4>2
      <4>3. CASE r # RunOf[n]
        <5>1. runLease'[r] = runLease[r] /\ runLease[r] \in Leases
          BY <1>1, <3>1, <4>1, <4>3 DEF LeaseInv
        <5>2. leaseRun[runLease[r]] = r /\ runLease[r] # l
          BY <3>2, <4>1, <5>1 DEF LeasesOfRuns
        <5>. QED BY <3>4, <5>1, <5>2
      <4>. QED BY <4>2, <4>3
    <3>8. \A k \in table' : leaseRun'[k] # None => runLease'[leaseRun'[k]] = k
      <4>1. SUFFICES ASSUME NEW k \in table', leaseRun'[k] # None
                     PROVE  runLease'[leaseRun'[k]] = k
        OBVIOUS
      <4>2. CASE k = l
        BY <3>1, <3>2, <3>4, <4>1, <4>2
      <4>3. CASE k # l
        <5>1. k \in table /\ k \in Leases /\ leaseRun'[k] = leaseRun[k] /\ leaseRun[k] \in Runs
          BY <1>1, <3>1, <3>4, <4>1, <4>3 DEF LeaseInv
        <5>2. runLease[leaseRun[k]] = k /\ k # None
          BY <4>1, <5>1 DEF LeasesOfRuns, LeasesAssumption
        <5>3. leaseRun[k] # RunOf[n]
          BY <3>1, <4>1, <5>1, <5>2
        <5>. QED BY <3>1, <5>1, <5>2, <5>3
      <4>. QED BY <4>2, <4>3
    <3>. QED BY <3>5, <3>6, <3>7, <3>8 DEF LeasesOfRuns
  <2>2. CASE StartNode(n) /\ WaitOnRunsLease(n)
    <3>. DEFINE l == runLease[RunOf[n]]
    <3>1. /\ RunOf[n] # None /\ l # None /\ UNCHANGED leaseVars
          /\ nodeLease' = [nodeLease EXCEPT ![n] = l]
          /\ node' = [node EXCEPT ![n] = "waiting"]
      BY <2>2 DEF StartNode, WaitOnRunsLease
    <3>2. RunOf[n] \in Runs /\ l \in Leases /\ leaseRun[l] = RunOf[n]
      BY <1>1, <3>1 DEF LeasesOfRuns, LeaseInv, LeasesAssumption
    <3>3. HomeOf[l] = HomeOf[n]
      BY <3>1, <3>2 DEF LeasesOfRuns, LeasesAssumption
    <3>. HIDE DEF l
    <3>4. \A m \in Nodes : IF m = n THEN nodeLease'[m] = l /\ node'[m] = "waiting"
                                    ELSE nodeLease'[m] = nodeLease[m] /\ node'[m] = node[m]
      BY <1>1, <3>1 DEF RestTypes
    <3>. QED BY <3>1, <3>3, <3>4 DEF LeasesOfRuns
  <2>3. CASE NodeHears(n)
    <3>1. \A m \in Nodes : node'[m] # "idle" => node[m] # "idle"
      BY <1>1, <2>3 DEF NodeHears, RestTypes
    <3>2. CASE UNCHANGED leaseVars
      BY <2>3, <3>1, <3>2 DEF NodeHears, LeasesOfRuns
    <3>. QED BY <1>2, <2>3, <3>1, <3>2 DEF NodeHears
  <2>4. CASE NodeEnds(n)
    <3>1. \A m \in Nodes : node'[m] # "idle" => node[m] # "idle"
      BY <1>1, <2>4 DEF NodeEnds, RestTypes
    <3>. QED BY <1>2, <2>4, <3>1 DEF NodeEnds
  <2>5. CASE CheckLease(n) \/ RunNode(n)
    BY <2>5, RunsUntouched DEF CheckLease, RunNode
  <2>. QED BY <1>4, <2>1, <2>2, <2>3, <2>4, <2>5 DEF NodeStep, StartNode
<1>5. ASSUME NEW r \in Runs, RunEnds(r) PROVE LeasesOfRuns'
  BY <1>2, <1>5 DEF RunEnds
<1>6. ASSUME NEW e \in Engines, AskerStep(e) PROVE LeasesOfRuns'
  <2>1. CASE Withdraw(e) \/ EngineHearsLoss(e)
    BY <1>3, <2>1 DEF Withdraw, EngineHearsLoss
  <2>2. CASE Offer(e) \/ OfferAnswered(e) \/ OfferFails(e)
    BY <2>2, RunsUntouched DEF Offer, OfferAnswered, OfferFails
  <2>. QED BY <1>6, <2>1, <2>2 DEF AskerStep
<1>7. ASSUME NEW l \in Leases, LeaseStep(l) PROVE LeasesOfRuns'
  <2>1. CASE AcquireAnswered(l) \/ AcquireLost(l)
    <3>1. \A k \in Leases : acquire'[k] = "unused" => acquire[k] = "unused"
      BY <1>1, <2>1 DEF AcquireAnswered, AcquireLost, LeaseInv
    <3>. QED BY <2>1, <3>1, RunsUntouched DEF AcquireAnswered, AcquireLost
  <2>2. CASE TellReleased(l) \/ ReleaseAnswered(l) \/ ReleaseUnanswered(l)
    BY <2>2, RunsUntouched DEF TellReleased, ReleaseAnswered, ReleaseUnanswered
  <2>. QED BY <1>7, <2>1, <2>2 DEF LeaseStep
<1>8. ASSUME NEW e \in Engines, HostStep(e) PROVE LeasesOfRuns'
  BY <1>8, RunsUntouched
  DEF HostStep, ReceiveOffer, ReceiveAcquire, ReceiveRelease, ReceiveWithdraw, HostHearsLoss
<1>9. ASSUME NEW e \in Engines, TransportStep(e) PROVE LeasesOfRuns'
  BY <1>9, RunsUntouched DEF TransportStep, Lose, Disconnect, Reconnect
<1>10. ASSUME LineStep PROVE LeasesOfRuns'
  BY <1>10, RunsUntouched DEF LineStep, DriveFront, WorkersFreed, LetGo
<1>. QED BY <1>4, <1>5, <1>6, <1>7, <1>8, <1>9, <1>10 DEF Next

-----------------------------------------------------------------------------
(* The order of a run's leases. *)

(* Whoever starts had nothing ahead; the others keep their order. *)
LEMMA HeadLeaves ==
  ASSUME NEW S, NEW l \in Lines(S), NEW next \in Heads(l)
  PROVE  /\ next \in DOMAIN l /\ l[next] = {}
         /\ DOMAIN Remove(l, {next}) = DOMAIN l \ {next}
         /\ \A j, k \in DOMAIN l :
              j # next /\ j \in l[k] =>
                k \in DOMAIN Remove(l, {next}) /\ j \in Remove(l, {next})[k]
BY DEF Heads, Remove

(* The first in line starts, or nothing does. *)
LEMMA FinishEffect ==
  ASSUME HostInv, FinishFront
  PROVE  /\ DOMAIN line' \subseteq DOMAIN line
         /\ \A j \in DOMAIN line', k \in DOMAIN line : j \in line[k] =>
              k \in DOMAIN line' /\ j \in line'[k]
         /\ front' = None \/ (front' \in DOMAIN line /\ front' \notin DOMAIN line')
<1>1. CASE Heads(line) = {}
  BY <1>1 DEF FinishFront
<1>2. CASE Heads(line) # {}
  <2>1. PICK l \in Heads(line) : front' = l /\ line' = Remove(line, {l})
    BY <1>2 DEF FinishFront
  <2>2. line \in Lines(Leases)
    BY DEF HostInv
  <2>. HIDE DEF HostInv
  <2>3. /\ l \in DOMAIN line /\ DOMAIN line' = DOMAIN line \ {l}
        /\ \A j, k \in DOMAIN line : j # l /\ j \in line[k] => k \in DOMAIN line' /\ j \in line'[k]
    BY <2>1, <2>2, HeadLeaves
  <2>. QED BY <2>1, <2>3
<1>. QED BY <1>1, <1>2

(* Where channels only lose requests or gain others than acquires, and the *)
(* host's line stays, the leases keep their order.                         *)
LEMMA ChannelsOnly ==
  ASSUME EarlierLeaseAhead, LineWaits, UNCHANGED <<leaseRun, line, front, granted>>,
         table' \subseteq table,
         \A e \in Engines : \A l \in Leases :
           AcquireOf(l) \in DOMAIN chan'[e] => AcquireOf(l) \in DOMAIN chan[e],
         \A e \in Engines : \A k, l \in Leases :
           /\ AcquireOf(k) \in DOMAIN chan'[e] /\ AcquireOf(l) \in DOMAIN chan'[e]
           /\ AcquireOf(l) \in chan[e][AcquireOf(k)]
           => AcquireOf(l) \in chan'[e][AcquireOf(k)],
         table \subseteq Leases
  PROVE  EarlierLeaseAhead' /\ LineWaits'
<1>1. LineWaits'
  BY DEF LineWaits
<1>2. SUFFICES ASSUME NEW k \in table', NEW l \in Leases, SameRun(k, l)'
               PROVE  AheadOf(k, l)'
  BY <1>1 DEF EarlierLeaseAhead
<1>3. AheadOf(k, l) /\ k \in Leases
  BY <1>2 DEF EarlierLeaseAhead, SameRun
<1>. QED BY <1>3 DEF AheadOf, AcquireOf

(* The order is kept where the books of the engines stay, the channels     *)
(* only shrink and the line moves on.                                      *)
LEMMA LineMovesOn ==
  ASSUME EarlierLeaseAhead, LineWaits, UNCHANGED <<leaseRun, table>>,
         table \subseteq Leases,
         \A e \in Engines : DOMAIN chan'[e] \subseteq DOMAIN chan[e],
         \A e \in Engines : \A m, n \in DOMAIN chan'[e] : m \in chan[e][n] => m \in chan'[e][n],
         DOMAIN line' \subseteq DOMAIN line, DOMAIN line \subseteq Leases,
         \A j \in DOMAIN line', k \in DOMAIN line : j \in line[k] /\ granted'[k] # "refused" =>
           k \in DOMAIN line' /\ j \in line'[k],
         \A l \in Leases : granted'[l] = granted[l] \/ (granted[l] = "waiting" /\ granted'[l] = "refused")
  PROVE  EarlierLeaseAhead'
<1>2. SUFFICES ASSUME NEW k \in table, NEW l \in Leases, SameRun(k, l)
               PROVE  AheadOf(k, l)'
  BY DEF EarlierLeaseAhead, SameRun
<1>3. AheadOf(k, l) /\ k \in Leases
  BY <1>2 DEF EarlierLeaseAhead
<1>. QED BY <1>3 DEF AheadOf, AcquireOf

(* A new lease comes last. *)
LEMMA NewLeaseBehind ==
  ASSUME LeasesAssumption, Ordered, IInv, LossHeard, LeasesOfRuns, EarlierLeaseAhead, LineWaits,
         NEW n \in Nodes, NEW l \in Leases, StartNode(n), AcquireLease(n, l)
  PROVE  EarlierLeaseAhead' /\ LineWaits'
<1>. DEFINE request == AcquireOf(l)
            e == HomeOf[n]
<1>1. NetTypes /\ RestTypes /\ LeaseInv /\ AskedOnce
  BY DEF IInv
<1>2. /\ Send(e, request) /\ table' = table \cup {l} /\ acquire[l] = "unused"
      /\ leaseRun' = [leaseRun EXCEPT ![l] = RunOf[n]]
      /\ RunOf[n] # None => runLease[RunOf[n]] = None
      /\ UNCHANGED <<line, front, granted>>
      /\ e \in Engines /\ HomeOf[l] = e
  BY DEF StartNode, AcquireLease, AcquireOf, LeasesAssumption, hostVars, lineVars
<1>3. \A k \in Leases : leaseRun'[k] = IF k = l THEN RunOf[n] ELSE leaseRun[k]
  BY <1>1, <1>2 DEF LeaseInv
<1>4. granted[l] = "unknown" /\ \A f \in Engines : request \notin DOMAIN chan[f]
  BY <1>1, <1>2 DEF AskedOnce, AcquireOf
<1>5. \A k \in Leases : AcquireOf(k) = request => k = l
  BY DEF AcquireOf
<1>. HIDE DEF request, e
<1>6. LineWaits'
  BY <1>2 DEF LineWaits
<1>7. ASSUME NEW k \in table', NEW j \in Leases, SameRun(k, j)' PROVE AheadOf(k, j)'
  <2>1. k \in Leases /\ k # j /\ leaseRun'[k] = leaseRun'[j] /\ leaseRun'[k] # None
    BY <1>1, <1>2, <1>7 DEF SameRun, LeaseInv
  <2>2. \A f \in Engines : AcquireOf(j) \in DOMAIN chan'[f] =>
          AcquireOf(j) \in DOMAIN chan[f] \/ (f = e /\ j = l /\ e \in up)
    BY <1>1, <1>2, <1>5, SendView
  <2>3. CASE k = l
    <3>1. \A f \in Engines : AcquireOf(j) \in DOMAIN chan'[f] => AcquireOf(j) \in DOMAIN chan[f]
      BY <2>1, <2>2, <2>3
    <3>2. \A f \in Engines : request \in DOMAIN chan'[f] => f = e /\ e \in up
      BY <1>1, <1>2, <1>4, SendView
    <3>3. AcquireOf(j) # request
      BY <1>5, <2>1, <2>3
    <3>4. AcquireOf(k) = request
      BY <2>3 DEF request
    <3>5. ASSUME AcquireOf(j) \in DOMAIN chan[e], e \in up PROVE AcquireOf(j) \in chan'[e][request]
      BY <1>1, <1>2, <3>3, <3>5, SendView
    <3>. QED BY <1>2, <1>4, <2>3, <3>1, <3>2, <3>4, <3>5 DEF AheadOf, AcquireOf
  <2>4. CASE k # l
    <3>1. k \in table /\ leaseRun'[k] = leaseRun[k]
      BY <1>2, <1>3, <1>7, <2>1, <2>4
    <3>2. runLease[leaseRun[k]] = k /\ k # None
      BY <2>1, <3>1 DEF LeasesOfRuns, LeasesAssumption
    <3>3. j # l
      BY <1>2, <1>3, <2>1, <3>1, <3>2
    <3>4. SameRun(k, j)
      BY <1>3, <2>1, <3>1, <3>3 DEF SameRun
    <3>5. AheadOf(k, j)
      BY <3>1, <3>4 DEF EarlierLeaseAhead
    <3>6. AcquireOf(k) # request /\ AcquireOf(j) # request
      BY <1>5, <2>1, <2>4, <3>3
    <3>7. ASSUME NEW f \in Engines, AcquireOf(j) \in DOMAIN chan'[f]
          PROVE  /\ granted'[k] = "unknown"
                 /\ AcquireOf(k) \in DOMAIN chan'[f] => AcquireOf(j) \in chan'[f][AcquireOf(k)]
      <4>1. AcquireOf(j) \in DOMAIN chan[f] /\ granted[k] = "unknown"
        BY <2>2, <3>3, <3>5, <3>7 DEF AheadOf
      <4>2. ASSUME AcquireOf(k) \in DOMAIN chan'[f] PROVE AcquireOf(j) \in chan'[f][AcquireOf(k)]
        <5>1. AcquireOf(k) \in DOMAIN chan[f]
          BY <1>1, <1>2, <3>6, <4>2, SendView
        <5>2. AcquireOf(j) \in chan[f][AcquireOf(k)]
          BY <3>5, <4>1, <5>1 DEF AheadOf
        <5>. QED BY <1>1, <1>2, <3>6, <4>1, <5>1, <5>2, SendView
      <4>. QED BY <1>2, <4>1, <4>2
    <3>8. AheadOf(k, j)!2'
      BY <1>2, <3>5 DEF AheadOf
    <3>. QED BY <3>7, <3>8 DEF AheadOf, AcquireOf
  <2>. QED BY <2>3, <2>4
<1>. QED BY <1>6, <1>7 DEF EarlierLeaseAhead

(* Leases of one run are of one engine. *)
LEMMA SameHome ==
  ASSUME LeasesAssumption, LeasesOfRuns, NEW k \in Leases, NEW l \in Leases, SameRun(k, l)
  PROVE  HomeOf[k] = HomeOf[l]
<1>1. /\ \E m \in Nodes : RunOf[m] = leaseRun[k] /\ HomeOf[m] = HomeOf[k]
      /\ \E n \in Nodes : RunOf[n] = leaseRun[k] /\ HomeOf[n] = HomeOf[l]
  BY DEF LeasesOfRuns, SameRun
<1>. QED BY <1>1 DEF LeasesAssumption, SameRun

(* An acquire that arrives goes to the end of the line. *)
LEMMA ArrivesBehind ==
  ASSUME LeasesAssumption, IInv, LeasesOfRuns, EarlierLeaseAhead, LineWaits,
         NEW e \in Engines, ReceiveAcquire(e)
  PROVE  EarlierLeaseAhead' /\ LineWaits'
<1>1. NetTypes /\ LeaseInv /\ HostInv /\ AskedOnce
  BY DEF IInv
<1>2. PICK request \in DOMAIN chan[e] :
        /\ request.kind = "acquire"
        /\ Take(e, request)
        /\ IF e \notin sessions
           THEN /\ granted' = [granted EXCEPT ![request.lease] = "refused"]
                /\ UNCHANGED <<line, front, stage, known>>
           ELSE /\ granted' = [granted EXCEPT ![request.lease] = "waiting"]
                /\ known' = known \cup {request.lease}
                /\ StartNextIfIdle(Enqueue(line, request.lease))
        /\ UNCHANGED <<leaseRun, table>>
  BY DEF ReceiveAcquire, OtherVars, leaseVars
<1>. DEFINE r == request.lease
<1>3. /\ r \in Leases /\ request = AcquireOf(r) /\ HomeOf[r] = e /\ granted[r] = "unknown"
  BY <1>1, <1>2, RequestTypes DEF AskedOnce, AcquireOf
<1>4. /\ chan[e][AcquireOf(r)] = {}
      /\ AcquireOf(r) \in DOMAIN chan[e]
      /\ chan' = [chan EXCEPT ![e] = Remove(@, {AcquireOf(r)})]
  <2>1. NetTypes /\ Take(e, request)
    BY <1>1, <1>2
  <2>2. chan[e][request] = {} /\ chan' = [chan EXCEPT ![e] = Remove(@, {request})]
    BY <2>1, TakeEffect
  <2>. QED BY <1>3, <2>2
<1>5. /\ \A f \in Engines : DOMAIN chan'[f] \subseteq DOMAIN chan[f]
      /\ \A f \in Engines : \A m, n \in DOMAIN chan'[f] : m \in chan[f][n] => m \in chan'[f][n]
      /\ DOMAIN chan'[e] = DOMAIN chan[e] \ {AcquireOf(r)}
  BY <1>1, <1>4, RemoveEffect
<1>6. \A f \in Engines : \A l \in Leases : AcquireOf(l) \in DOMAIN chan[f] => HomeOf[l] = f
  BY <1>1 DEF AskedOnce, AcquireOf
<1>7. r \notin DOMAIN line /\ DOMAIN line \subseteq Leases /\ table \subseteq Leases
  BY <1>1, <1>3, LineOps DEF LineWaits, HostInv, LeaseInv
<1>8. \A l \in Leases : l # r => granted'[l] = granted[l]
  BY <1>1, <1>2 DEF HostInv
<1>9. granted'[r] \in {"waiting", "refused"}
  BY <1>1, <1>2, <1>3 DEF HostInv
<1>10. /\ DOMAIN line' \subseteq DOMAIN line \cup {r}
       /\ granted'[r] = "refused" => line' = line
       /\ granted'[r] = "waiting" =>
            /\ \A j \in DOMAIN line', k \in DOMAIN line : j \in line[k] =>
                 k \in DOMAIN line' /\ j \in line'[k]
            /\ \A j \in DOMAIN line' : j # r => r \in DOMAIN line' /\ j \in line'[r]
       /\ \/ front' = front
          \/ front' \in DOMAIN line \cup {r} /\ granted'[r] = "waiting" /\ front' \notin DOMAIN line'
  <2>1. CASE e \notin sessions
    BY <1>1, <1>2, <1>3, <2>1 DEF HostInv
  <2>2. CASE e \in sessions
    <3>. DEFINE l == Enqueue(line, r)
    <3>1. /\ granted'[r] = "waiting" /\ StartNextIfIdle(l)
      BY <1>1, <1>2, <1>3, <2>2 DEF HostInv
    <3>2. /\ DOMAIN l = DOMAIN line \cup {r} /\ l[r] = DOMAIN line
          /\ \A k \in DOMAIN line : l[k] = line[k]
      BY <1>7 DEF Enqueue
    <3>3. l \in Lines(Leases)
      BY ZenonT(60), <1>1, <1>3, LineOps DEF HostInv
    <3>. HIDE DEF l
    <3>4. CASE front # None \/ Heads(l) = {}
      BY <3>1, <3>2, <3>4 DEF StartNextIfIdle
    <3>5. CASE ~ (front # None \/ Heads(l) = {})
      <4>1. PICK next \in Heads(l) : front' = next /\ line' = Remove(l, {next})
        BY <3>1, <3>5 DEF StartNextIfIdle
      <4>2. /\ next \in DOMAIN l /\ DOMAIN line' = DOMAIN l \ {next}
            /\ \A j, k \in DOMAIN l : j # next /\ j \in l[k] => k \in DOMAIN line' /\ j \in line'[k]
        BY <3>3, <4>1, HeadLeaves
      <4>. HIDE DEF r
      <4>. QED BY <1>7, <3>1, <3>2, <4>1, <4>2
    <3>. QED BY <3>4, <3>5
  <2>. QED BY <2>1, <2>2
<1>. HIDE DEF r
<1>11. LineWaits'
  <2>1. \A l \in DOMAIN line' : granted'[l] = "waiting"
    BY <1>7, <1>8, <1>9, <1>10 DEF LineWaits
  <2>2. front' \notin DOMAIN line' /\ (front' # None => granted'[front'] # "unknown")
    <3>1. CASE front' = front
      <4>1. front # None => front \in Leases /\ front # r
        BY <1>1, <1>3 DEF LineWaits, HostInv
      <4>. QED BY <1>3, <1>7, <1>8, <1>9, <1>10, <3>1, <4>1 DEF LineWaits, LeasesAssumption
    <3>2. CASE front' # front
      BY <1>7, <1>8, <1>9, <1>10, <3>2 DEF LineWaits
    <3>. QED BY <3>1, <3>2
  <2>. QED BY <2>1, <2>2 DEF LineWaits
<1>12. ASSUME NEW k \in table, NEW l \in Leases, SameRun(k, l) PROVE AheadOf(k, l)'
  <2>1. AheadOf(k, l) /\ k \in Leases /\ k # l /\ HomeOf[k] = HomeOf[l]
    BY <1>7, <1>12, SameHome DEF EarlierLeaseAhead, SameRun
  <2>2. CASE l = r
    <3>1. granted'[k] = "unknown"
      BY <1>4, <1>8, <2>1, <2>2 DEF AheadOf
    <3>2. \A f \in Engines : AcquireOf(l) \notin DOMAIN chan'[f]
      BY <1>3, <1>5, <1>6, <2>2
    <3>. QED BY <3>1, <3>2 DEF AheadOf, AcquireOf
  <2>3. CASE k = r
    <3>1. \A f \in Engines : AcquireOf(l) \notin DOMAIN chan[f]
      BY <1>3, <1>4, <1>6, <2>1, <2>3 DEF AheadOf
    <3>2. l \in DOMAIN line' /\ granted'[k] # "refused" => k \in DOMAIN line' /\ l \in line'[k]
      BY <1>9, <1>10, <2>1, <2>3
    <3>. QED BY <1>5, <3>1, <3>2 DEF AheadOf, AcquireOf
  <2>4. CASE k # r /\ l # r
    <3>1. granted'[k] = granted[k]
      BY <1>8, <2>1, <2>4
    <3>2. l \in DOMAIN line' => l \in DOMAIN line
      BY <1>10, <2>4
    <3>3. l \in DOMAIN line' /\ k \in DOMAIN line /\ l \in line[k] => k \in DOMAIN line' /\ l \in line'[k]
      BY <1>9, <1>10
    <3>. QED BY <1>5, <2>1, <3>1, <3>2, <3>3 DEF AheadOf, AcquireOf
  <2>. QED BY <2>2, <2>3, <2>4
<1>. QED BY <1>2, <1>11, <1>12 DEF EarlierLeaseAhead, SameRun

(* What the host ends leaves the line, which keeps its order. *)
LEMMA EndedLeave ==
  ASSUME LeasesAssumption, IInv, EarlierLeaseAhead, LineWaits, NEW L, EndEngineRuns(L),
         UNCHANGED <<leaseRun, table>>,
         \A e \in Engines : DOMAIN chan'[e] \subseteq DOMAIN chan[e],
         \A e \in Engines : \A m, n \in DOMAIN chan'[e] : m \in chan[e][n] => m \in chan'[e][n]
  PROVE  EarlierLeaseAhead' /\ LineWaits'
<1>. DEFINE unmet == {l \in L \cap known : granted[l] = "waiting"}
<1>1. LeaseInv /\ HostInv
  BY DEF IInv
<1>2. /\ granted' = [l \in Leases |-> IF l \in unmet THEN "refused" ELSE granted[l]]
      /\ line' = Remove(line, unmet) /\ front' = front
  BY DEF EndEngineRuns
<1>3. table \subseteq Leases /\ DOMAIN line \subseteq Leases
  BY <1>1, LineOps DEF LeaseInv, HostInv
<1>4. \A l \in unmet : l \in Leases /\ granted[l] = "waiting" /\ granted'[l] = "refused"
  BY <1>1, <1>2 DEF HostInv
<1>. HIDE DEF unmet
<1>5. /\ DOMAIN line' = DOMAIN line \ unmet
      /\ \A k \in DOMAIN line' : line'[k] = line[k] \ unmet
  BY <1>2 DEF Remove
<1>6. \A l \in Leases : \/ l \notin unmet /\ granted'[l] = granted[l]
                        \/ l \in unmet /\ granted[l] = "waiting" /\ granted'[l] = "refused"
  BY <1>2, <1>4
<1>7. LineWaits'
  BY <1>1, <1>2, <1>3, <1>5, <1>6 DEF LineWaits, HostInv
<1>. QED BY <1>3, <1>5, <1>6, <1>7, LineMovesOn

(* The lease at the front is granted: it has left the line. *)
LEMMA GrantedLeft ==
  ASSUME LeasesAssumption, IInv, EarlierLeaseAhead, LineWaits, stage # "idle", Grant(front),
         UNCHANGED <<leaseRun, table, chan>>
  PROVE  EarlierLeaseAhead' /\ LineWaits'
<1>1. LeaseInv /\ HostInv
  BY DEF IInv
<1>2. /\ front \in Leases /\ line' = line /\ front' = front
      /\ granted[front] # "unknown" /\ granted'[front] # "unknown"
      /\ granted[front] = "refused" => granted'[front] = "refused"
      /\ \A l \in Leases : l # front => granted'[l] = granted[l]
  BY <1>1 DEF HostInv, Grant, LineWaits, LeasesAssumption
<1>3. table \subseteq Leases /\ DOMAIN line \subseteq Leases
  BY <1>1, LineOps DEF LeaseInv, HostInv
<1>4. LineWaits'
  BY <1>2, <1>3 DEF LineWaits
<1>5. ASSUME NEW k \in table, NEW l \in Leases, SameRun(k, l) PROVE AheadOf(k, l)'
  <2>1. AheadOf(k, l) /\ k \in Leases
    BY <1>3, <1>5 DEF EarlierLeaseAhead
  <2>. QED BY <1>2, <2>1 DEF AheadOf, AcquireOf, LineWaits
<1>. QED BY <1>4, <1>5 DEF EarlierLeaseAhead, SameRun

(* The front is done with, and the next in line starts. *)
LEMMA FrontFinished ==
  ASSUME LeasesAssumption, IInv, EarlierLeaseAhead, LineWaits, FinishFront,
         UNCHANGED <<leaseRun, table, chan, granted>>
  PROVE  EarlierLeaseAhead' /\ LineWaits'
<1>1. LeaseInv /\ HostInv
  BY DEF IInv
<1>2. table \subseteq Leases /\ DOMAIN line \subseteq Leases
  BY <1>1, LineOps DEF LeaseInv, HostInv
<1>3. /\ DOMAIN line' \subseteq DOMAIN line
      /\ \A j \in DOMAIN line', k \in DOMAIN line : j \in line[k] =>
           k \in DOMAIN line' /\ j \in line'[k]
      /\ front' = None \/ (front' \in DOMAIN line /\ front' \notin DOMAIN line')
  BY <1>1, FinishEffect
<1>4. LineWaits'
  BY <1>2, <1>3 DEF LineWaits, LeasesAssumption
<1>. QED BY <1>2, <1>3, <1>4, LineMovesOn

(* A run's leases keep the order they were asked for in. *)
LEMMA OrderKept ==
  ASSUME LeasesAssumption, Ordered, IInv, ChannelInv, LeasesOfRuns, EarlierLeaseAhead, LineWaits,
         Next
  PROVE  EarlierLeaseAhead' /\ LineWaits'
<1>. USE DEF offerVars, leaseVars, nodeVars, lineVars, hostVars, netVars, OtherVars
<1>1. NetTypes /\ LeaseInv /\ HostInv /\ LossHeard
  BY DEF IInv, ChannelInv
<1>2. table \subseteq Leases
  BY <1>1 DEF LeaseInv
<1>3. ASSUME UNCHANGED <<leaseRun, line, front, granted, chan>>, table' \subseteq table
      PROVE  EarlierLeaseAhead' /\ LineWaits'
  BY <1>2, <1>3, ChannelsOnly
<1>4. ASSUME UNCHANGED <<leaseRun, line, front, granted>>, table' \subseteq table,
             NEW e \in Engines, NEW x, Send(e, x), x.kind # "acquire"
      PROVE  EarlierLeaseAhead' /\ LineWaits'
  <2>1. \A l : AcquireOf(l) # x
    BY <1>4 DEF AcquireOf
  <2>2. /\ \A f \in Engines : \A l \in Leases :
             AcquireOf(l) \in DOMAIN chan'[f] => AcquireOf(l) \in DOMAIN chan[f]
        /\ \A f \in Engines : \A m, n \in DOMAIN chan[f] :
             ~ (f = e /\ n = x) /\ m \in chan[f][n] => m \in chan'[f][n]
    BY <1>1, <1>4, <2>1, SendView
  <2>. QED BY <1>2, <1>4, <2>1, <2>2, ChannelsOnly
<1>5. ASSUME NEW e \in Engines, NEW S, chan' = [chan EXCEPT ![e] = Remove(@, S)]
      PROVE  /\ \A f \in Engines : DOMAIN chan'[f] \subseteq DOMAIN chan[f]
             /\ \A f \in Engines : \A m, n \in DOMAIN chan'[f] :
                  m \in chan[f][n] => m \in chan'[f][n]
  BY <1>1, <1>5, RemoveEffect
<1>6. ASSUME UNCHANGED <<leaseRun, line, front, granted, table>>,
             \A f \in Engines : DOMAIN chan'[f] \subseteq DOMAIN chan[f],
             \A f \in Engines : \A m, n \in DOMAIN chan'[f] :
               m \in chan[f][n] => m \in chan'[f][n]
      PROVE  EarlierLeaseAhead' /\ LineWaits'
  BY <1>2, <1>6, ChannelsOnly
<1>7. ASSUME NEW e \in Engines, AskerStep(e) PROVE EarlierLeaseAhead' /\ LineWaits'
  <2>1. CASE Offer(e)
    <3>1. Send(e, [kind |-> "offer", id |-> used[e].offers + 1])
      BY <2>1 DEF Offer
    <3>. QED BY <1>4, <2>1, <3>1 DEF Offer
  <2>2. CASE OfferAnswered(e)
    BY <1>3, <2>2 DEF OfferAnswered
  <2>3. CASE OfferFails(e)
    BY <1>3, <2>3 DEF OfferFails
  <2>4. CASE Withdraw(e)
    <3>1. Send(e, [kind |-> "withdraw", id |-> used[e].withdrawals + 1])
      BY <2>4 DEF Withdraw
    <3>2. UNCHANGED <<leaseRun, line, front, granted>> /\ table' \subseteq table
      BY <2>4 DEF Withdraw, ForgetLeases
    <3>. QED BY <1>4, <3>1, <3>2
  <2>5. CASE EngineHearsLoss(e)
    BY <1>3, <2>5 DEF EngineHearsLoss, ForgetLeases
  <2>. QED BY <1>7, <2>1, <2>2, <2>3, <2>4, <2>5 DEF AskerStep
<1>8. ASSUME NEW l \in Leases, LeaseStep(l) PROVE EarlierLeaseAhead' /\ LineWaits'
  <2>1. CASE AcquireAnswered(l) \/ AcquireLost(l) \/ ReleaseAnswered(l) \/ ReleaseUnanswered(l)
    BY <1>3, <2>1 DEF AcquireAnswered, AcquireLost, ReleaseAnswered, ReleaseUnanswered
  <2>2. CASE TellReleased(l) /\ offer[HomeOf[l]] = "no"
    BY <1>3, <2>2 DEF TellReleased
  <2>3. CASE TellReleased(l) /\ offer[HomeOf[l]] # "no"
    <3>1. Send(HomeOf[l], [kind |-> "release", lease |-> l, id |-> tries[l] + 1])
      BY <2>3 DEF TellReleased
    <3>2. HomeOf[l] \in Engines
      BY DEF LeasesAssumption
    <3>. QED BY <1>4, <2>3, <3>1, <3>2 DEF TellReleased
  <2>. QED BY <1>8, <2>1, <2>2, <2>3 DEF LeaseStep
<1>9. ASSUME NEW L, EndLeases(L), UNCHANGED <<line, front, granted, chan>>
      PROVE  EarlierLeaseAhead' /\ LineWaits'
  BY <1>3, <1>9 DEF EndLeases
<1>10. ASSUME NEW n \in Nodes, NodeStep(n) PROVE EarlierLeaseAhead' /\ LineWaits'
  <2>1. CASE StartNode(n) /\ WaitOnRunsLease(n)
    BY <1>3, <2>1 DEF StartNode, WaitOnRunsLease
  <2>2. CASE StartNode(n) /\ ~WaitOnRunsLease(n)
    BY <1>1, <2>2, NewLeaseBehind DEF StartNode
  <2>3. CASE NodeHears(n)
    BY <1>3, <1>9, <2>3 DEF NodeHears
  <2>4. CASE NodeEnds(n)
    BY <1>9, <2>4 DEF NodeEnds
  <2>5. CASE CheckLease(n) \/ RunNode(n)
    BY <1>3, <2>5 DEF CheckLease, RunNode
  <2>. QED BY <1>10, <2>1, <2>2, <2>3, <2>4, <2>5 DEF NodeStep
<1>11. ASSUME NEW r \in Runs, RunEnds(r) PROVE EarlierLeaseAhead' /\ LineWaits'
  BY <1>9, <1>11 DEF RunEnds
<1>12. ASSUME NEW e \in Engines, HostStep(e) PROVE EarlierLeaseAhead' /\ LineWaits'
  <2>1. ASSUME NEW request, Take(e, request)
        PROVE  /\ \A f \in Engines : DOMAIN chan'[f] \subseteq DOMAIN chan[f]
               /\ \A f \in Engines : \A m, n \in DOMAIN chan'[f] :
                    m \in chan[f][n] => m \in chan'[f][n]
    <3>1. chan' = [chan EXCEPT ![e] = Remove(@, {request})]
      BY <1>1, <2>1, TakeEffect
    <3>. QED BY <1>5, <3>1
  <2>2. CASE ReceiveOffer(e)
    BY <1>6, <2>1, <2>2 DEF ReceiveOffer
  <2>3. CASE ReceiveAcquire(e)
    BY <2>3, ArrivesBehind
  <2>4. CASE ReceiveRelease(e)
    BY <1>6, <2>1, <2>4, EndedLeave DEF ReceiveRelease
  <2>5. CASE ReceiveWithdraw(e)
    BY <2>1, <2>5, EndedLeave DEF ReceiveWithdraw, ForgetEngine
  <2>6. CASE HostHearsLoss(e)
    BY <2>6, EndedLeave DEF HostHearsLoss, ForgetEngine
  <2>. QED BY <1>12, <2>2, <2>3, <2>4, <2>5, <2>6 DEF HostStep
<1>13. ASSUME LineStep PROVE EarlierLeaseAhead' /\ LineWaits'
  <2>1. UNCHANGED <<leaseRun, table, chan>>
    BY <1>13 DEF LineStep, DriveFront, WorkersFreed, LetGo
  <2>2. CASE FinishFront /\ UNCHANGED granted
    BY <2>1, <2>2, FrontFinished
  <2>3. CASE stage # "idle" /\ Grant(front)
    BY <2>1, <2>3, GrantedLeft
  <2>4. CASE UNCHANGED <<line, front, granted>>
    BY <1>3, <2>1, <2>4
  <2>. QED BY <1>13, <2>2, <2>3, <2>4 DEF LineStep, DriveFront, WorkersFreed, LetGo
<1>14. ASSUME NEW e \in Engines, TransportStep(e) PROVE EarlierLeaseAhead' /\ LineWaits'
  <2>1. CASE Lose(e)
    <3>1. chan' = chan \/ \E S : chan' = [chan EXCEPT ![e] = Remove(@, S)]
      BY <2>1 DEF Lose
    <3>. QED BY <1>5, <1>6, <2>1, <3>1 DEF Lose
  <2>2. CASE Disconnect(e)
    <3>1. chan' = [chan EXCEPT ![e] = EmptyLine] /\ UNCHANGED <<leaseRun, line, front, granted, table>>
      BY <2>2 DEF Disconnect
    <3>2. DOMAIN chan'[e] = {} /\ \A f \in Engines : f # e => chan'[f] = chan[f]
      BY <1>1, <3>1, EmptyIsLine DEF NetTypes
    <3>. QED BY <1>6, <3>1, <3>2
  <2>3. CASE Reconnect(e)
    BY <1>3, <2>3 DEF Reconnect
  <2>. QED BY <1>14, <2>1, <2>2, <2>3 DEF TransportStep
<1>. QED BY <1>7, <1>8, <1>10, <1>11, <1>12, <1>13, <1>14 DEF Next

-----------------------------------------------------------------------------
(* What a report leaves behind. *)

(* Neither offers nor withdrawals, nor their replies, are lost while the   *)
(* connection is up.                                                       *)
OffersArrive == \A e \in Engines : Losable[e] \cap {"offer", "withdraw"} = {}

(* What most steps do: no session becomes known, no offer is added and no  *)
(* withdrawal taken.                                                       *)
Quiet ==
  /\ up' \subseteq up /\ sessions' \subseteq sessions
  /\ \A e \in up' : \A m \in DOMAIN chan[e] : m.kind = "withdraw" => m \in DOMAIN chan'[e]
  /\ \A e \in up' : \A m \in DOMAIN chan'[e] : m.kind = "offer" =>
       m \in DOMAIN chan[e] /\ chan[e][m] \cap DOMAIN chan'[e] \subseteq chan'[e][m]

(* A lease that was asked for is neither asked for nor claimed again. *)
QuietFor(l) ==
  acquire[l] # "unused" =>
    /\ AcquireOf(l) \in DOMAIN chan'[HomeOf[l]] => AcquireOf(l) \in DOMAIN chan[HomeOf[l]]
    /\ l \in known' /\ l \notin released' => Claims(l)

(* Withdrawals stay behind the offers they take back. *)
WithdrawalsStay ==
  \A e \in up' : \A w \in DOMAIN chan[e] : w.kind = "withdraw" =>
    \A m \in DOMAIN chan'[e] : m.kind = "offer" /\ m \in chan[e][w] => m \in chan'[e][w]

(* Registrations that are given up were given up before, or cannot be told *)
(* of: quiet steps keep what an unregistered engine is to the host.        *)
LEMMA QuietUnregistered ==
  ASSUME Unregistered, Quiet, WithdrawalsStay, up \subseteq Engines,
         \A e \in up' : offer'[e] = "no" => offer[e] = "no"
  PROVE  Unregistered'
<1>. SUFFICES ASSUME NEW e \in up', offer'[e] = "no"
              PROVE  \/ NoOfferLeft(e)'
                     \/ \E w \in DOMAIN chan'[e] :
                          /\ w.kind = "withdraw"
                          /\ \A m \in DOMAIN chan'[e] : m.kind = "offer" => m \in chan'[e][w]
  BY DEF Unregistered
<1>1. e \in up /\ offer[e] = "no"
  BY DEF Quiet
<1>2. CASE NoOfferLeft(e)
  BY <1>2 DEF Quiet, NoOfferLeft
<1>3. CASE ~NoOfferLeft(e)
  <2>1. PICK w \in DOMAIN chan[e] :
          /\ w.kind = "withdraw"
          /\ \A m \in DOMAIN chan[e] : m.kind = "offer" => m \in chan[e][w]
    BY <1>1, <1>3 DEF Unregistered
  <2>. QED BY <2>1 DEF Quiet, WithdrawalsStay
<1>. QED BY <1>2, <1>3

(* What a report left behind stays so. *)
LEMMA QuietOver ==
  ASSUME Quiet, NEW l \in Leases, QuietFor(l), acquire[l] # "unused", HomeOf[l] \in up',
         Freed(l) \/ WillBeRefused(l) \/ WillBeWithdrawn(l)
  PROVE  Freed(l)' \/ WillBeRefused(l)' \/ WillBeWithdrawn(l)'
<1>1. CASE Freed(l)
  BY <1>1 DEF QuietFor, Freed, Claims
<1>2. CASE WillBeRefused(l) /\ ~Freed(l)'
  <2>1. AcquireOf(l) \in DOMAIN chan'[HomeOf[l]] /\ ~Claims(l)'
    BY <1>2 DEF QuietFor, Freed, WillBeRefused, Claims
  <2>. QED BY <1>2, <2>1 DEF Quiet, WillBeRefused, AcquireOf
<1>3. CASE WillBeWithdrawn(l)
  BY <1>3 DEF Quiet, WillBeWithdrawn
<1>. QED BY <1>1, <1>2, <1>3

(* Reports that are not ended by a quiet step stay true. *)
LEMMA QuietReports ==
  ASSUME ReportsTrue, LeaseInv, Quiet, \A l \in Leases : QuietFor(l), LeasesAssumption, NetTypes,
         \A reply \in replies' : reply.request.kind = "release" =>
           \/ reply \in replies
           \/ notice'[reply.request.lease] # "none" /\ Freed(reply.request.lease)',
         \A l \in Leases : notice[l] # "none" => notice'[l] # "none",
         \A l \in Leases : notice'[l] = "over" =>
           \/ notice[l] = "over"
           \/ notice[l] # "none" /\ (HomeOf[l] \in up => Freed(l) \/ WillBeRefused(l) \/ WillBeWithdrawn(l))
  PROVE  ReportsTrue'
<1>1. ASSUME NEW reply \in replies', reply.request.kind = "release"
      PROVE  notice'[reply.request.lease] # "none" /\ Freed(reply.request.lease)'
  <2>. SUFFICES ASSUME reply \in replies PROVE notice'[reply.request.lease] # "none" /\ Freed(reply.request.lease)'
    BY <1>1
  <2>1. /\ reply \in replies /\ reply.request.lease \in Leases
        /\ notice[reply.request.lease] # "none" /\ Freed(reply.request.lease)
    BY <1>1 DEF ReportsTrue, NetTypes, Replies, Requests
  <2>2. acquire[reply.request.lease] # "unused"
    BY <2>1 DEF LeaseInv
  <2>. QED BY <2>1, <2>2 DEF QuietFor, Freed, Claims
<1>2. ASSUME NEW l \in Leases, notice'[l] = "over", HomeOf[l] \in up'
      PROVE  Freed(l)' \/ WillBeRefused(l)' \/ WillBeWithdrawn(l)'
  <2>1. /\ acquire[l] # "unused" /\ HomeOf[l] \in up
        /\ Freed(l) \/ WillBeRefused(l) \/ WillBeWithdrawn(l)
    BY <1>2 DEF ReportsTrue, Quiet, LeaseInv
  <2>. QED BY <1>2, <2>1, QuietOver
<1>. QED BY <1>1, <1>2 DEF ReportsTrue

(* Sending anything but an offer is quiet. *)
LEMMA QuietSend ==
  ASSUME LeasesAssumption, Ordered, NetTypes, NEW e \in Engines, NEW x, Send(e, x),
         UNCHANGED <<up, sessions, known, released>>, x.kind # "offer",
         \A l \in Leases : x = AcquireOf(l) => acquire[l] = "unused"
  PROVE  /\ Quiet /\ \A l \in Leases : QuietFor(l)
         /\ x.kind # "withdraw" => WithdrawalsStay
<1>1. up \subseteq Engines /\ \A l \in Leases : HomeOf[l] \in Engines
  BY DEF NetTypes, LeasesAssumption
<1>2. /\ \A f \in Engines : f # e => chan'[f] = chan[f]
      /\ e \notin up => chan' = chan
      /\ e \in up => DOMAIN chan'[e] = DOMAIN chan[e] \cup {x}
      /\ e \in up => \A n \in DOMAIN chan[e] : n # x => chan'[e][n] = chan[e][n]
  BY SendEffect
<1>3. Quiet
  BY SMTT(60), <1>1, <1>2 DEF Quiet
<1>4. \A l \in Leases : QuietFor(l)
  BY <1>1, <1>2 DEF QuietFor, Claims
<1>5. x.kind # "withdraw" => WithdrawalsStay
  BY <1>1, <1>2 DEF WithdrawalsStay
<1>. QED BY <1>3, <1>4, <1>5

(* Removing anything but withdrawals is quiet, unless it brings a claim. *)
LEMMA QuietRemove ==
  ASSUME LeasesAssumption, NetTypes, NEW e \in Engines, NEW S,
         chan' = [chan EXCEPT ![e] = Remove(@, S)],
         \A m \in S : m.kind # "withdraw", up' = up, sessions' \subseteq sessions
  PROVE  /\ Quiet /\ WithdrawalsStay
         /\ \A l \in Leases : (l \in known' /\ l \notin released' => Claims(l)) => QuietFor(l)
<1>1. up \subseteq Engines /\ \A l \in Leases : HomeOf[l] \in Engines
  BY DEF NetTypes, LeasesAssumption
<1>2. /\ \A f \in Engines : f # e => chan'[f] = chan[f]
      /\ DOMAIN chan'[e] = DOMAIN chan[e] \ S
      /\ \A n \in DOMAIN chan'[e] : chan'[e][n] = chan[e][n] \ S
  <2>1. chan'[e] = Remove(chan[e], S) /\ \A f \in Engines : f # e => chan'[f] = chan[f]
    BY DEF NetTypes
  <2>. QED BY <2>1 DEF Remove
<1>3. Quiet
  BY <1>1, <1>2 DEF Quiet
<1>4. WithdrawalsStay
  BY <1>1, <1>2 DEF WithdrawalsStay
<1>. QED BY <1>1, <1>2, <1>3, <1>4 DEF QuietFor

(* The same, of a single request. *)
LEMMA QuietTake ==
  ASSUME LeasesAssumption, NetTypes, NEW e \in Engines, NEW x,
         chan' = [chan EXCEPT ![e] = Remove(@, {x})],
         x.kind # "withdraw", up' = up, sessions' \subseteq sessions
  PROVE  /\ Quiet /\ WithdrawalsStay
         /\ \A l \in Leases : (l \in known' /\ l \notin released' => Claims(l)) => QuietFor(l)
<1>. DEFINE S == {x}
<1>1. (\A m \in S : m.kind # "withdraw") /\ chan' = [chan EXCEPT ![e] = Remove(@, S)]
  OBVIOUS
<1>. HIDE DEF S
<1>. QED BY <1>1, QuietRemove

(* So is what leaves the channels alone. *)
LEMMA QuietStay ==
  ASSUME UNCHANGED <<up, chan>>, sessions' \subseteq sessions,
         \A l \in Leases : l \in known' /\ l \notin released' => Claims(l)
  PROVE  Quiet /\ WithdrawalsStay /\ \A l \in Leases : QuietFor(l)
BY DEF Quiet, WithdrawalsStay, QuietFor

(* The host claims a lease no more once it ended it. *)
LEMMA EndedUnclaimed ==
  ASSUME HostInv, NEW L, EndEngineRuns(L)
  PROVE  /\ \A l \in Leases : l \in known' /\ l \notin released' => Claims(l) /\ l \notin L
BY DEF EndEngineRuns, Claims

(* The host claims leases of engines whose session it has. *)
LEMMA ClaimsKept ==
  ASSUME LeasesAssumption, IInv, LossHeard, ClaimsOfSessions, Next
  PROVE  ClaimsOfSessions'
<1>. USE DEF offerVars, leaseVars, nodeVars, lineVars, hostVars, netVars, OtherVars
<1>1. NetTypes /\ HostInv /\ AskedOnce /\ \A l \in Leases : HomeOf[l] \in Engines
  BY DEF IInv, LeasesAssumption
<1>2. ASSUME UNCHANGED <<known, released, sessions, up>>,
             \A e \in Engines : "host" \in unheard[e] => "host" \in unheard'[e]
      PROVE  ClaimsOfSessions'
  BY <1>2 DEF ClaimsOfSessions, Claims
<1>3. ASSUME NEW e \in Engines, AskerStep(e) PROVE ClaimsOfSessions'
  <2>1. CASE EngineHearsLoss(e)
    BY <1>1, <1>2, <2>1 DEF EngineHearsLoss, NetTypes
  <2>2. CASE Offer(e) \/ OfferAnswered(e) \/ OfferFails(e) \/ Withdraw(e)
    BY <1>2, <2>2 DEF Offer, OfferAnswered, OfferFails, Withdraw
  <2>. QED BY <1>3, <2>1, <2>2 DEF AskerStep
<1>4. ASSUME NEW l \in Leases, LeaseStep(l) PROVE ClaimsOfSessions'
  BY <1>2, <1>4 DEF LeaseStep, AcquireAnswered, AcquireLost, TellReleased, ReleaseAnswered,
                    ReleaseUnanswered
<1>5. ASSUME NEW n \in Nodes, NodeStep(n) PROVE ClaimsOfSessions'
  BY <1>2, <1>5 DEF NodeStep, StartNode, NodeHears, NodeEnds, CheckLease, RunNode
<1>6. ASSUME NEW r \in Runs, RunEnds(r) PROVE ClaimsOfSessions'
  BY <1>2, <1>6 DEF RunEnds
<1>7. ASSUME NEW e \in Engines, HostStep(e) PROVE ClaimsOfSessions'
  <2>1. CASE ReceiveOffer(e)
    <3>1. DOMAIN chan[e] # {} /\ sessions' = sessions \cup {e} /\ UNCHANGED <<known, released, up, unheard>>
      BY <2>1 DEF ReceiveOffer
    <3>. QED BY <3>1 DEF ClaimsOfSessions, Claims, LossHeard
  <2>2. CASE ReceiveAcquire(e)
    <3>1. PICK request \in DOMAIN chan[e] :
            /\ request.kind = "acquire"
            /\ known' = known \/ (e \in sessions /\ known' = known \cup {request.lease})
            /\ UNCHANGED <<released, sessions, up, unheard>>
      BY <2>2 DEF ReceiveAcquire
    <3>2. HomeOf[request.lease] = e
      BY <1>1, <3>1 DEF AskedOnce
    <3>. QED BY <3>1, <3>2 DEF ClaimsOfSessions, Claims
  <2>3. CASE ReceiveRelease(e)
    <3>1. /\ (\E L : EndEngineRuns(L)) \/ UNCHANGED <<known, released>>
          /\ UNCHANGED <<sessions, up, unheard>>
      BY <2>3 DEF ReceiveRelease
    <3>2. \A l \in Leases : l \in known' /\ l \notin released' => Claims(l)
      BY <1>1, <3>1, EndedUnclaimed DEF Claims
    <3>. QED BY <3>1, <3>2 DEF ClaimsOfSessions, Claims
  <2>4. CASE ReceiveWithdraw(e) \/ HostHearsLoss(e)
    <3>1. /\ EndEngineRuns(LeasesOf(e)) /\ sessions' = sessions \ {e} /\ up' = up
          /\ \A f \in Engines : f # e => unheard'[f] = unheard[f]
      BY <1>1, <2>4 DEF ReceiveWithdraw, HostHearsLoss, ForgetEngine, NetTypes
    <3>2. \A l \in Leases : l \in known' /\ l \notin released' => Claims(l) /\ HomeOf[l] # e
      BY <1>1, <3>1, EndedUnclaimed DEF LeasesOf
    <3>. QED BY <1>1, <3>1, <3>2 DEF ClaimsOfSessions, Claims
  <2>. QED BY <1>7, <2>1, <2>2, <2>3, <2>4 DEF HostStep
<1>8. ASSUME LineStep PROVE ClaimsOfSessions'
  <2>1. known' \subseteq known /\ UNCHANGED <<released, sessions, up, unheard>>
    BY <1>8 DEF LineStep, DriveFront, WorkersFreed, LetGo
  <2>. QED BY <2>1 DEF ClaimsOfSessions, Claims
<1>9. ASSUME NEW e \in Engines, TransportStep(e) PROVE ClaimsOfSessions'
  <2>1. CASE Lose(e)
    BY <1>2, <2>1 DEF Lose
  <2>2. CASE Disconnect(e)
    BY <1>1, <2>2 DEF Disconnect, ClaimsOfSessions, Claims, NetTypes
  <2>3. CASE Reconnect(e)
    BY <2>3 DEF Reconnect, ClaimsOfSessions, Claims
  <2>. QED BY <1>9, <2>1, <2>2, <2>3 DEF TransportStep
<1>. QED BY <1>3, <1>4, <1>5, <1>6, <1>7, <1>8, <1>9 DEF Next

LeftInv == Unregistered /\ ReportsTrue

(* The engines that ask leave behind what they say. *)
LEMMA AskerLeaves ==
  ASSUME LeasesAssumption, Ordered, OffersArrive, IInv, ChannelInv, LeftInv,
         NEW e \in Engines, AskerStep(e)
  PROVE  LeftInv'
<1>. USE DEF offerVars, leaseVars, nodeVars, lineVars, hostVars, netVars
<1>1. /\ NetTypes /\ RestTypes /\ LeaseInv /\ LossHeard /\ Unregistered /\ ReportsTrue
      /\ up \subseteq Engines /\ \A l \in Leases : HomeOf[l] \in Engines
  BY DEF IInv, ChannelInv, LeftInv, NetTypes, LeasesAssumption
<1>2. ASSUME Quiet, \A l \in Leases : QuietFor(l), notice' = notice,
             \A reply \in replies' : reply \in replies
      PROVE  ReportsTrue'
  BY <1>1, <1>2, QuietReports DEF ReportsTrue
<1>3. ASSUME UNCHANGED <<up, chan, sessions, known, released, notice>>,
             \A reply \in replies' : reply \in replies,
             \A f \in up : offer'[f] = "no" => offer[f] = "no"
      PROVE  LeftInv'
  <2>1. Quiet /\ WithdrawalsStay /\ \A l \in Leases : QuietFor(l)
    BY <1>3, QuietStay DEF Claims
  <2>. QED BY <1>1, <1>2, <1>3, <2>1, QuietUnregistered DEF LeftInv
<1>4. CASE Offer(e)
  <2>. DEFINE x == [kind |-> "offer", id |-> used[e].offers + 1]
  <2>1. /\ Send(e, x) /\ x.kind = "offer" /\ \A l : AcquireOf(l) # x
        /\ UNCHANGED <<up, sessions, known, released, notice, replies>>
        /\ offer' = [offer EXCEPT ![e] = "asked"]
    BY <1>4 DEF Offer, AcquireOf
  <2>. HIDE DEF x
  <2>2. /\ \A f \in Engines : f # e => chan'[f] = chan[f] /\ offer'[f] = offer[f]
        /\ offer'[e] = "asked"
        /\ \A f \in Engines : \A l \in Leases :
             AcquireOf(l) \in DOMAIN chan'[f] => AcquireOf(l) \in DOMAIN chan[f]
        /\ e \in up => DOMAIN chan'[e] = DOMAIN chan[e] \cup {x}
        /\ e \in up => chan'[e][x] = DOMAIN chan[e] \ {x}
        /\ e \in up => \A n \in DOMAIN chan[e] : n # x => chan'[e][n] = chan[e][n]
    BY <1>1, <2>1, SendEffect, SendView DEF RestTypes
  <2>3. Unregistered'
    BY <1>1, <2>1, <2>2 DEF Unregistered, NoOfferLeft
  <2>4. \A l \in Leases : Freed(l) => Freed(l)'
    BY <1>1, <2>1, <2>2 DEF Freed, Claims, AcquireOf
  <2>5. ASSUME NEW reply \in replies, reply.request.kind = "release"
        PROVE  notice[reply.request.lease] # "none" /\ Freed(reply.request.lease)'
    <3>1. reply.request.lease \in Leases
      BY <1>1, <2>5 DEF NetTypes, Replies, Requests
    <3>. QED BY <1>1, <2>4, <2>5, <3>1 DEF ReportsTrue
  <2>6. ASSUME NEW l \in Leases, notice[l] = "over", HomeOf[l] \in up
        PROVE  Freed(l)' \/ WillBeRefused(l)' \/ WillBeWithdrawn(l)'
    <3>1. Freed(l) \/ WillBeRefused(l) \/ WillBeWithdrawn(l)
      BY <1>1, <2>6 DEF ReportsTrue
    <3>2. CASE HomeOf[l] # e
      BY <1>1, <2>1, <2>2, <3>1, <3>2 DEF Freed, WillBeRefused, WillBeWithdrawn, Claims, AcquireOf
    <3>3. CASE HomeOf[l] = e /\ WillBeWithdrawn(l)
      BY <2>2, <2>6, <3>3 DEF WillBeWithdrawn
    <3>4. CASE HomeOf[l] = e /\ WillBeRefused(l) /\ AcquireOf(l) \in DOMAIN chan[e]
      BY <2>1, <2>2, <2>6, <3>4 DEF WillBeRefused, Claims, AcquireOf
    <3>5. CASE HomeOf[l] = e /\ WillBeRefused(l) /\ AcquireOf(l) \notin DOMAIN chan[e]
      BY <2>4, <3>5 DEF WillBeRefused, Freed
    <3>. QED BY <2>4, <3>1, <3>2, <3>3, <3>4, <3>5
  <2>. QED BY <2>1, <2>3, <2>5, <2>6 DEF ReportsTrue, LeftInv
<1>5. CASE OfferAnswered(e)
  <2>1. \A f \in Engines : offer'[f] = "no" => offer[f] = "no"
    BY <1>1, <1>5 DEF OfferAnswered, RestTypes
  <2>. QED BY <1>1, <1>3, <1>5, <2>1 DEF OfferAnswered
<1>6. CASE OfferFails(e)
  <2>1. e \notin up /\ \A f \in Engines : f # e => offer'[f] = offer[f]
    BY <1>1, <1>6 DEF OfferFails, OffersArrive, RestTypes
  <2>. QED BY <1>1, <1>3, <1>6, <2>1 DEF OfferFails
<1>7. CASE Withdraw(e)
  <2>. DEFINE x == [kind |-> "withdraw", id |-> used[e].withdrawals + 1]
  <2>1. /\ Send(e, x) /\ x.kind = "withdraw" /\ \A l : AcquireOf(l) # x
        /\ UNCHANGED <<up, sessions, known, released, notice, replies>>
        /\ offer' = [offer EXCEPT ![e] = "no"]
    BY <1>7 DEF Withdraw, ForgetLeases, AcquireOf
  <2>. HIDE DEF x
  <2>2. ReportsTrue'
    BY <1>1, <1>2, <2>1, QuietSend
  <2>3. /\ \A f \in Engines : f # e => chan'[f] = chan[f] /\ offer'[f] = offer[f]
        /\ e \in up => DOMAIN chan'[e] = DOMAIN chan[e] \cup {x}
        /\ e \in up => chan'[e][x] = DOMAIN chan[e] \ {x}
    BY <1>1, <2>1, SendEffect DEF RestTypes
  <2>4. Unregistered'
    BY <1>1, <2>1, <2>3 DEF Unregistered, NoOfferLeft
  <2>. QED BY <2>2, <2>4 DEF LeftInv
<1>8. CASE EngineHearsLoss(e)
  <2>1. e \notin up /\ \A f \in Engines : f # e => offer'[f] = offer[f]
    BY <1>1, <1>8 DEF EngineHearsLoss, LossHeard, RestTypes
  <2>. QED BY <1>1, <1>3, <1>8, <2>1 DEF EngineHearsLoss, ForgetLeases
<1>. QED BY <1>4, <1>5, <1>6, <1>7, <1>8 DEF AskerStep

(* A report ends where it was answered, or where there is nobody to tell. *)
LEMMA LeaseLeaves ==
  ASSUME LeasesAssumption, Ordered, IInv, ChannelInv, ClaimsOfSessions, LeftInv,
         (\E l \in Leases : LeaseStep(l)) \/ (\E n \in Nodes : NodeStep(n))
           \/ (\E r \in Runs : RunEnds(r))
  PROVE  LeftInv'
<1>. USE DEF offerVars, leaseVars, nodeVars, lineVars, hostVars, netVars, OtherVars
<1>1. /\ NetTypes /\ RestTypes /\ LeaseInv /\ LossHeard /\ Unregistered /\ ReportsTrue
      /\ up \subseteq Engines /\ \A l \in Leases : HomeOf[l] \in Engines
  BY DEF IInv, ChannelInv, LeftInv, NetTypes, LeasesAssumption
<1>2. ASSUME Quiet, \A l \in Leases : QuietFor(l), WithdrawalsStay, offer' = offer,
             \A reply \in replies' : reply \in replies,
             \A l \in Leases : notice[l] # "none" => notice'[l] # "none",
             \A l \in Leases : notice'[l] = "over" =>
               \/ notice[l] = "over"
               \/ /\ notice[l] # "none"
                  /\ HomeOf[l] \in up => Freed(l) \/ WillBeRefused(l) \/ WillBeWithdrawn(l)
      PROVE  LeftInv'
  <2>1. ReportsTrue'
    BY <1>1, <1>2, QuietReports
  <2>2. Unregistered'
    BY <1>1, <1>2, QuietUnregistered
  <2>. QED BY <2>1, <2>2 DEF LeftInv
<1>3. ASSUME UNCHANGED <<up, chan, sessions, known, released>>
      PROVE  Quiet /\ WithdrawalsStay /\ \A l \in Leases : QuietFor(l)
  BY <1>3, QuietStay DEF Claims
<1>4. ASSUME UNCHANGED <<up, chan, sessions, known, released, offer, notice>>,
             \A reply \in replies' : reply \in replies
      PROVE  LeftInv'
  BY <1>2, <1>3, <1>4
<1>5. ASSUME NEW L, EndLeases(L), UNCHANGED <<up, chan, sessions, known, released, offer, replies>>
      PROVE  LeftInv'
  <2>1. \A l \in Leases : /\ notice[l] # "none" => notice'[l] # "none"
                          /\ notice'[l] = "over" => notice[l] = "over"
    BY <1>5 DEF EndLeases
  <2>. QED BY <1>2, <1>3, <1>5, <2>1
<1>6. ASSUME NEW l \in Leases, LeaseStep(l) PROVE LeftInv'
  <2>1. CASE AcquireAnswered(l) \/ AcquireLost(l)
    BY <1>4, <2>1 DEF AcquireAnswered, AcquireLost
  <2>2. CASE TellReleased(l) /\ offer[HomeOf[l]] = "no"
    <3>1. /\ notice[l] = "due" /\ notice' = [notice EXCEPT ![l] = "over"]
          /\ UNCHANGED <<up, chan, sessions, known, released, offer, replies>>
      BY <2>2 DEF TellReleased
    <3>2. HomeOf[l] \in up => WillBeRefused(l) \/ WillBeWithdrawn(l)
      BY <1>1, <2>2 DEF Unregistered, NoOfferLeft, WillBeRefused, WillBeWithdrawn, ClaimsOfSessions
    <3>3. \A k \in Leases : /\ notice[k] # "none" => notice'[k] # "none"
                            /\ notice'[k] = "over" => notice[k] = "over" \/ k = l
      BY <1>1, <3>1 DEF LeaseInv
    <3>. QED BY <1>2, <1>3, <3>1, <3>2, <3>3
  <2>3. CASE TellReleased(l) /\ offer[HomeOf[l]] # "no"
    <3>. DEFINE x == [kind |-> "release", lease |-> l, id |-> tries[l] + 1]
    <3>1. /\ Send(HomeOf[l], x) /\ x.kind = "release" /\ \A k : AcquireOf(k) # x
          /\ notice[l] = "due" /\ notice' = [notice EXCEPT ![l] = "sent"]
          /\ UNCHANGED <<up, sessions, known, released, offer, replies>>
      BY <2>3 DEF TellReleased, AcquireOf
    <3>. HIDE DEF x
    <3>2. Quiet /\ WithdrawalsStay /\ \A k \in Leases : QuietFor(k)
      BY <1>1, <3>1, QuietSend
    <3>. QED BY <1>1, <1>2, <3>1, <3>2 DEF LeaseInv
  <2>4. CASE ReleaseAnswered(l)
    <3>1. PICK reply \in replies :
            /\ reply.request.kind = "release" /\ reply.request.lease = l
            /\ replies' = replies \ {reply}
            /\ notice' = [notice EXCEPT ![l] =
                            IF @ = "sent" /\ reply.request.id = tries[l] THEN "over" ELSE @]
            /\ UNCHANGED <<up, chan, sessions, known, released, offer>>
      BY <2>4 DEF ReleaseAnswered
    <3>2. notice[l] # "none" /\ Freed(l)
      BY <1>1, <3>1 DEF ReportsTrue
    <3>3. \A k \in Leases : /\ notice[k] # "none" => notice'[k] # "none"
                            /\ notice'[k] = "over" => notice[k] = "over" \/ k = l
      BY <1>1, <3>1 DEF LeaseInv
    <3>. QED BY <1>2, <1>3, <3>1, <3>2, <3>3
  <2>5. CASE ReleaseUnanswered(l)
    <3>1. \A k \in Leases : /\ notice[k] # "none" => notice'[k] # "none"
                            /\ notice'[k] = "over" => notice[k] = "over"
      BY <1>1, <2>5 DEF ReleaseUnanswered, LeaseInv
    <3>. QED BY <1>2, <1>3, <2>5, <3>1 DEF ReleaseUnanswered
  <2>. QED BY <1>6, <2>1, <2>2, <2>3, <2>4, <2>5 DEF LeaseStep
<1>7. ASSUME NEW n \in Nodes, NodeStep(n) PROVE LeftInv'
  <2>1. ASSUME NEW l \in Leases, AcquireLease(n, l), StartNode(n) PROVE LeftInv'
    <3>. DEFINE x == AcquireOf(l)
    <3>1. /\ Send(HomeOf[n], x) /\ x.kind = "acquire" /\ HomeOf[n] \in Engines
          /\ \A k : AcquireOf(k) = x => k = l
          /\ acquire[l] = "unused"
          /\ UNCHANGED <<up, sessions, known, released, offer, replies, notice>>
      BY <2>1 DEF AcquireLease, StartNode, AcquireOf, LeasesAssumption
    <3>. HIDE DEF x
    <3>2. Quiet /\ WithdrawalsStay /\ \A k \in Leases : QuietFor(k)
      BY <1>1, <3>1, QuietSend
    <3>. QED BY <1>1, <1>2, <3>1, <3>2
  <2>2. CASE StartNode(n) /\ WaitOnRunsLease(n)
    BY <1>4, <2>2 DEF StartNode, WaitOnRunsLease
  <2>3. CASE NodeHears(n)
    BY <1>4, <1>5, <2>3 DEF NodeHears
  <2>4. CASE NodeEnds(n)
    BY <1>5, <2>4 DEF NodeEnds
  <2>5. CASE CheckLease(n) \/ RunNode(n)
    BY <1>4, <2>5 DEF CheckLease, RunNode
  <2>. QED BY <1>7, <2>1, <2>2, <2>3, <2>4, <2>5 DEF NodeStep, StartNode
<1>8. ASSUME NEW r \in Runs, RunEnds(r) PROVE LeftInv'
  BY <1>5, <1>8 DEF RunEnds
<1>. QED BY <1>6, <1>7, <1>8

(* The host frees what it answers to have freed, and forgets the engine    *)
(* that withdrew.                                                          *)
LEMMA HostLeaves ==
  ASSUME LeasesAssumption, Ordered, IInv, ChannelInv, ClaimsOfSessions, LeftInv,
         (\E e \in Engines : HostStep(e)) \/ LineStep
  PROVE  LeftInv'
<1>. USE DEF offerVars, leaseVars, nodeVars, lineVars, hostVars, netVars, OtherVars
<1>1. /\ NetTypes /\ RestTypes /\ LeaseInv /\ HostInv /\ AskedOnce /\ LossHeard
      /\ Unregistered /\ ReportsTrue
      /\ up \subseteq Engines /\ \A l \in Leases : HomeOf[l] \in Engines
  BY DEF IInv, ChannelInv, LeftInv, NetTypes, LeasesAssumption
<1>2. \A reply \in replies : reply.request.kind = "release" => reply.request.lease \in Leases
  BY <1>1 DEF NetTypes, Replies, Requests
<1>3. ASSUME Quiet, \A l \in Leases : QuietFor(l), WithdrawalsStay, offer' = offer, notice' = notice,
             \A reply \in replies' : reply.request.kind = "release" =>
               \/ reply \in replies
               \/ notice[reply.request.lease] # "none" /\ Freed(reply.request.lease)'
      PROVE  LeftInv'
  <2>1. ReportsTrue'
    BY <1>1, <1>3, QuietReports
  <2>2. Unregistered'
    BY <1>1, <1>3, QuietUnregistered
  <2>. QED BY <2>1, <2>2 DEF LeftInv
<1>4. ASSUME NEW e \in Engines, ReceiveOffer(e) PROVE LeftInv'
  <2>1. PICK x \in DOMAIN chan[e] :
          /\ x.kind = "offer" /\ Take(e, x) /\ Reply(e, x, TRUE)
          /\ sessions' = sessions \cup {e}
          /\ UNCHANGED <<offer, notice, acquire, known, released, up>>
    BY <1>4 DEF ReceiveOffer
  <2>2. /\ chan[e][x] = {}
        /\ \A f \in Engines : f # e => chan'[f] = chan[f]
        /\ DOMAIN chan'[e] = DOMAIN chan[e] \ {x}
        /\ \A f \in Engines : \A m, n \in DOMAIN chan'[f] : m \in chan[f][n] => m \in chan'[f][n]
    <3>1. chan[e][x] = {} /\ chan' = [chan EXCEPT ![e] = Remove(@, {x})]
      BY <1>1, <2>1, TakeEffect
    <3>. QED BY <1>1, <3>1, RemoveEffect
  <2>3. \A reply \in replies' : reply.request.kind = "release" => reply \in replies
    BY <2>1 DEF Reply
  <2>4. \A l \in Leases : Freed(l) => Freed(l)'
    BY <1>1, <2>1, <2>2 DEF Freed, Claims
  <2>5. Unregistered'
    <3>1. SUFFICES ASSUME NEW f \in up, offer[f] = "no"
                   PROVE  \/ NoOfferLeft(f)'
                          \/ \E w \in DOMAIN chan'[f] :
                               /\ w.kind = "withdraw"
                               /\ \A m \in DOMAIN chan'[f] : m.kind = "offer" => m \in chan'[f][w]
      BY <2>1 DEF Unregistered
    <3>2. CASE f # e
      BY <1>1, <2>1, <2>2, <3>1, <3>2 DEF Unregistered, NoOfferLeft
    <3>3. CASE f = e
      <4>1. PICK w \in DOMAIN chan[e] :
              /\ w.kind = "withdraw"
              /\ \A m \in DOMAIN chan[e] : m.kind = "offer" => m \in chan[e][w]
        BY <1>1, <2>1, <3>1, <3>3 DEF Unregistered, NoOfferLeft
      <4>. QED BY <2>1, <2>2, <3>3, <4>1
    <3>. QED BY <3>2, <3>3
  <2>6. ASSUME NEW l \in Leases, notice[l] = "over", HomeOf[l] \in up
        PROVE  Freed(l)' \/ WillBeRefused(l)' \/ WillBeWithdrawn(l)'
    <3>1. Freed(l) \/ WillBeRefused(l) \/ WillBeWithdrawn(l)
      BY <1>1, <2>6 DEF ReportsTrue
    <3>2. CASE HomeOf[l] # e
      BY <1>1, <2>1, <2>2, <3>1, <3>2 DEF Freed, WillBeRefused, WillBeWithdrawn, Claims, AcquireOf
    <3>3. CASE HomeOf[l] = e /\ WillBeRefused(l)
      BY <2>1, <2>2, <3>3 DEF WillBeRefused
    <3>4. CASE HomeOf[l] = e /\ WillBeWithdrawn(l)
      BY <2>1, <2>2, <3>4 DEF WillBeWithdrawn
    <3>. QED BY <2>4, <3>1, <3>2, <3>3, <3>4
  <2>7. ReportsTrue'
    BY <1>1, <1>2, <2>1, <2>3, <2>4, <2>6 DEF ReportsTrue
  <2>. QED BY <2>5, <2>7 DEF LeftInv
<1>5. ASSUME NEW e \in Engines, ReceiveAcquire(e) PROVE LeftInv'
  <2>1. PICK x \in DOMAIN chan[e] :
          /\ x.kind = "acquire" /\ Take(e, x)
          /\ known' = known \/ (e \in sessions /\ known' = known \cup {x.lease})
          /\ UNCHANGED <<released, sessions, up, offer, notice, acquire, replies>>
    BY <1>5 DEF ReceiveAcquire
  <2>. DEFINE r == x.lease
  <2>2. r \in Leases /\ x = AcquireOf(r) /\ HomeOf[r] = e
    BY <1>1, <2>1, RequestTypes DEF AskedOnce, AcquireOf
  <2>3. chan' = [chan EXCEPT ![e] = Remove(@, {x})]
    BY <1>1, <2>1, TakeEffect
  <2>. HIDE DEF r
  <2>4. /\ Quiet /\ WithdrawalsStay
        /\ \A l \in Leases : (l \in known' /\ l \notin released' => Claims(l)) => QuietFor(l)
    BY <1>1, <2>1, <2>3, QuietTake
  <2>5. \A l \in Leases : l # r \/ e \notin sessions => QuietFor(l)
    BY <2>1, <2>4 DEF Claims, r
  <2>6. Unregistered'
    BY <1>1, <2>1, <2>4, QuietUnregistered
  <2>7. ~Freed(r) /\ (e \in sessions => ~WillBeRefused(r))
    BY <2>1, <2>2 DEF Freed, WillBeRefused
  <2>8. ASSUME NEW reply \in replies, reply.request.kind = "release"
        PROVE  notice[reply.request.lease] # "none" /\ Freed(reply.request.lease)'
    <3>1. /\ reply.request.lease \in Leases /\ notice[reply.request.lease] # "none"
          /\ Freed(reply.request.lease) /\ reply.request.lease # r
      BY <1>1, <1>2, <2>7, <2>8 DEF ReportsTrue
    <3>2. QuietFor(reply.request.lease) /\ acquire[reply.request.lease] # "unused"
      BY <1>1, <2>5, <3>1 DEF LeaseInv
    <3>. QED BY <3>1, <3>2 DEF QuietFor, Freed, Claims
  <2>9. ASSUME NEW l \in Leases, notice[l] = "over", HomeOf[l] \in up
        PROVE  Freed(l)' \/ WillBeRefused(l)' \/ WillBeWithdrawn(l)'
    <3>1. /\ Freed(l) \/ WillBeRefused(l) \/ WillBeWithdrawn(l)
          /\ acquire[l] # "unused" /\ HomeOf[l] \in up'
      BY <1>1, <2>1, <2>9 DEF ReportsTrue, LeaseInv
    <3>2. CASE l # r \/ e \notin sessions
      BY <2>4, <2>5, <3>1, <3>2, QuietOver
    <3>3. CASE l = r /\ e \in sessions
      <4>1. WillBeWithdrawn(l)
        BY <2>7, <3>1, <3>3
      <4>. QED BY <2>4, <3>1, <4>1 DEF WillBeWithdrawn, Quiet
    <3>. QED BY <3>2, <3>3
  <2>10. ReportsTrue'
    BY <2>1, <2>8, <2>9 DEF ReportsTrue
  <2>. QED BY <2>6, <2>10 DEF LeftInv
<1>6. ASSUME NEW e \in Engines, ReceiveRelease(e) PROVE LeftInv'
  <2>1. PICK x \in DOMAIN chan[e] :
          /\ x.kind = "release" /\ Take(e, x)
          /\ IF e \in sessions
             THEN EndEngineRuns({x.lease})
             ELSE UNCHANGED <<released, granted, known, line, front, stage>>
          /\ Reply(e, x, e \in sessions)
          /\ UNCHANGED <<sessions, up, offer, notice, acquire>>
    BY <1>6 DEF ReceiveRelease
  <2>2. x.lease \in Leases /\ HomeOf[x.lease] = e /\ notice[x.lease] # "none"
    BY <1>1, <2>1, RequestTypes DEF ChannelInv, ReleaseAfterAcquire
  <2>3. chan' = [chan EXCEPT ![e] = Remove(@, {x})] /\ chan[e][x] = {}
    BY <1>1, <2>1, TakeEffect
  <2>4. \A l \in Leases : l \in known' /\ l \notin released' => Claims(l)
    BY <1>1, <2>1, EndedUnclaimed DEF Claims
  <2>5. Quiet /\ WithdrawalsStay /\ \A l \in Leases : QuietFor(l)
    BY <1>1, <2>1, <2>3, <2>4, QuietTake
  <2>6. ~Claims(x.lease)'
    <3>1. CASE e \in sessions
      BY <1>1, <2>1, <2>2, <3>1, EndedUnclaimed DEF Claims
    <3>2. CASE e \notin sessions
      BY <2>1, <2>2, <3>2 DEF ClaimsOfSessions, Claims
    <3>. QED BY <3>1, <3>2
  <2>7. AcquireOf(x.lease) \notin DOMAIN chan'[e]
    <3>1. AcquireOf(x.lease) \notin DOMAIN chan[e]
      BY <2>1, <2>3 DEF ChannelInv, ReleaseAfterAcquire
    <3>. QED BY <1>1, <2>3, <3>1, RemoveEffect
  <2>8. Freed(x.lease)'
    BY <2>2, <2>6, <2>7 DEF Freed, AcquireOf
  <2>9. \A reply \in replies' : reply \in replies \/ reply.request = x
    BY <2>1 DEF Reply
  <2>. QED BY <1>3, <2>1, <2>2, <2>5, <2>8, <2>9
<1>7. ASSUME NEW e \in Engines, ReceiveWithdraw(e) PROVE LeftInv'
  <2>1. PICK x \in DOMAIN chan[e] :
          /\ x.kind = "withdraw" /\ Take(e, x) /\ EndEngineRuns(LeasesOf(e))
          /\ sessions' = sessions \ {e}
          /\ UNCHANGED <<offer, notice, acquire, up, replies>>
    BY <1>7 DEF ReceiveWithdraw, ForgetEngine
  <2>2. /\ chan[e][x] = {}
        /\ \A f \in Engines : f # e => chan'[f] = chan[f]
        /\ DOMAIN chan'[e] = DOMAIN chan[e] \ {x}
        /\ \A f \in Engines : \A m, n \in DOMAIN chan'[f] : m \in chan[f][n] => m \in chan'[f][n]
    <3>1. chan[e][x] = {} /\ chan' = [chan EXCEPT ![e] = Remove(@, {x})]
      BY <1>1, <2>1, TakeEffect
    <3>. QED BY <1>1, <3>1, RemoveEffect
  <2>3. \A l \in Leases : l \in known' /\ l \notin released' => Claims(l) /\ HomeOf[l] # e
    BY <1>1, <2>1, EndedUnclaimed DEF LeasesOf
  <2>4. \A m \in DOMAIN chan[e] : m.kind # "acquire"
    BY <2>1, <2>2 DEF ChannelInv, WithdrawnMeansUnused
  <2>5. \A l \in Leases : HomeOf[l] = e \/ Freed(l) => Freed(l)'
    BY <1>1, <2>1, <2>2, <2>3, <2>4 DEF Freed, Claims, AcquireOf
  <2>6. Unregistered'
    <3>1. SUFFICES ASSUME NEW f \in up, offer[f] = "no"
                   PROVE  \/ NoOfferLeft(f)'
                          \/ \E w \in DOMAIN chan'[f] :
                               /\ w.kind = "withdraw"
                               /\ \A m \in DOMAIN chan'[f] : m.kind = "offer" => m \in chan'[f][w]
      BY <2>1 DEF Unregistered
    <3>2. CASE f # e
      BY <1>1, <2>1, <2>2, <3>1, <3>2 DEF Unregistered, NoOfferLeft
    <3>3. CASE f = e /\ \A m \in DOMAIN chan[e] : m.kind # "offer"
      BY <2>1, <2>2, <3>3 DEF NoOfferLeft
    <3>4. CASE f = e /\ ~ \A m \in DOMAIN chan[e] : m.kind # "offer"
      <4>1. PICK w \in DOMAIN chan[e] :
              /\ w.kind = "withdraw"
              /\ \A m \in DOMAIN chan[e] : m.kind = "offer" => m \in chan[e][w]
        BY <1>1, <3>1, <3>4 DEF Unregistered, NoOfferLeft
      <4>. QED BY <2>1, <2>2, <3>4, <4>1
    <3>. QED BY <3>2, <3>3, <3>4
  <2>7. ASSUME NEW l \in Leases, notice[l] = "over", HomeOf[l] \in up
        PROVE  Freed(l)' \/ WillBeRefused(l)' \/ WillBeWithdrawn(l)'
    <3>1. Freed(l) \/ WillBeRefused(l) \/ WillBeWithdrawn(l)
      BY <1>1, <2>7 DEF ReportsTrue
    <3>2. CASE HomeOf[l] # e
      BY <1>1, <2>1, <2>2, <2>3, <3>1, <3>2 DEF Freed, WillBeRefused, WillBeWithdrawn, Claims, AcquireOf
    <3>. QED BY <2>5, <3>2
  <2>8. ReportsTrue'
    BY <1>1, <1>2, <2>1, <2>5, <2>7 DEF ReportsTrue
  <2>. QED BY <2>6, <2>8 DEF LeftInv
<1>8. ASSUME UNCHANGED <<offer, notice, up, chan, replies>>, sessions' \subseteq sessions,
             \A l \in Leases : l \in known' /\ l \notin released' => Claims(l)
      PROVE  LeftInv'
  BY <1>3, <1>8, QuietStay
<1>9. ASSUME NEW e \in Engines, HostHearsLoss(e) PROVE LeftInv'
  BY <1>1, <1>8, <1>9, EndedUnclaimed DEF HostHearsLoss, ForgetEngine
<1>10. ASSUME LineStep PROVE LeftInv'
  <2>1. known' \subseteq known /\ UNCHANGED <<offer, notice, up, chan, replies, sessions, released>>
    BY <1>10 DEF LineStep, DriveFront, WorkersFreed, LetGo
  <2>. QED BY <1>8, <2>1 DEF Claims
<1>. QED BY <1>4, <1>5, <1>6, <1>7, <1>9, <1>10 DEF HostStep

(* A connection that comes back has nothing under way, to a host that      *)
(* forgot the engine.                                                      *)
LEMMA TransportLeaves ==
  ASSUME LeasesAssumption, Ordered, OffersArrive, IInv, ChannelInv, ClaimsOfSessions, LeftInv,
         NEW e \in Engines, TransportStep(e)
  PROVE  LeftInv'
<1>. USE DEF offerVars, leaseVars, nodeVars, lineVars, hostVars, netVars, OtherVars
<1>1. /\ NetTypes /\ LeaseInv /\ LossHeard /\ Unregistered /\ ReportsTrue
      /\ up \subseteq Engines /\ \A l \in Leases : HomeOf[l] \in Engines
  BY DEF IInv, ChannelInv, LeftInv, NetTypes, LeasesAssumption
<1>2. ASSUME Quiet, \A l \in Leases : QuietFor(l), WithdrawalsStay, offer' = offer, notice' = notice,
             \A reply \in replies' : reply \in replies
      PROVE  LeftInv'
  <2>1. ReportsTrue'
    BY <1>1, <1>2, QuietReports
  <2>2. Unregistered'
    BY <1>1, <1>2, QuietUnregistered
  <2>. QED BY <2>1, <2>2 DEF LeftInv
<1>3. CASE Lose(e)
  <2>1. /\ UNCHANGED <<offer, notice, up, sessions, known, released>>
        /\ \A reply \in replies' : reply \in replies
    BY <1>3 DEF Lose
  <2>2. \/ chan' = chan
        \/ \E x : x.kind # "withdraw" /\ chan' = [chan EXCEPT ![e] = Remove(@, {x})]
    BY <1>3 DEF Lose, OffersArrive
  <2>3. CASE chan' = chan
    BY <1>2, <2>1, <2>3, QuietStay DEF Claims
  <2>4. CASE chan' # chan
    <3>1. PICK x : x.kind # "withdraw" /\ chan' = [chan EXCEPT ![e] = Remove(@, {x})]
      BY <2>2, <2>4
    <3>2. Quiet /\ WithdrawalsStay /\ \A l \in Leases : QuietFor(l)
      BY <1>1, <2>1, <3>1, QuietTake DEF Claims
    <3>. QED BY <1>2, <2>1, <3>2
  <2>. QED BY <2>3, <2>4
<1>4. CASE Disconnect(e)
  <2>1. /\ UNCHANGED <<offer, notice, acquire, sessions, known, released>>
        /\ \A reply \in replies' : reply \in replies
        /\ up' = up \ {e} /\ chan' = [chan EXCEPT ![e] = EmptyLine]
    BY <1>4 DEF Disconnect
  <2>2. DOMAIN chan'[e] = {} /\ \A f \in Engines : f # e => chan'[f] = chan[f]
    BY <1>1, <2>1, EmptyIsLine DEF NetTypes
  <2>3. Quiet /\ WithdrawalsStay /\ \A l \in Leases : QuietFor(l)
    BY <1>1, <2>1, <2>2 DEF Quiet, WithdrawalsStay, QuietFor, Claims
  <2>. QED BY <1>2, <2>1, <2>3
<1>5. CASE Reconnect(e)
  <2>1. /\ UNCHANGED <<offer, notice, acquire, sessions, known, released, chan, replies>>
        /\ up' = up \cup {e} /\ e \notin up /\ unheard[e] = {}
    BY <1>5 DEF Reconnect
  <2>2. DOMAIN chan[e] = {} /\ e \notin sessions /\ \A l \in Leases : HomeOf[l] = e => ~Claims(l)
    BY <1>1, <2>1 DEF LossHeard, ClaimsOfSessions
  <2>3. Unregistered'
    BY <1>1, <2>1, <2>2 DEF Unregistered, NoOfferLeft
  <2>4. \A l \in Leases : Freed(l) \/ HomeOf[l] = e => Freed(l)'
    BY <2>1, <2>2 DEF Freed, Claims, AcquireOf
  <2>5. \A reply \in replies : reply.request.kind = "release" => reply.request.lease \in Leases
    BY <1>1 DEF NetTypes, Replies, Requests
  <2>6. ReportsTrue'
    BY <1>1, <2>1, <2>4, <2>5 DEF ReportsTrue, WillBeRefused, WillBeWithdrawn, Claims, AcquireOf
  <2>. QED BY <2>3, <2>6 DEF LeftInv
<1>. QED BY <1>3, <1>4, <1>5 DEF TransportStep

-----------------------------------------------------------------------------
(* The theorems. *)

GrantInv ==
  /\ IInv /\ ChannelInv /\ BothSidesAgree
  /\ LeasesOfRuns /\ EarlierLeaseAhead /\ LineWaits

(* The invariant holds at the start. *)
LEMMA GrantStart == LeasesAssumption /\ Init => GrantInv
<1>. SUFFICES ASSUME LeasesAssumption, Init PROVE GrantInv
  OBVIOUS
<1>1. IInv /\ ChannelInv
  BY InitInv, ChannelsStart
<1>2. BothSidesAgree
  BY DEF Init, BothSidesAgree
<1>3. LeasesOfRuns
  BY DEF Init, LeasesOfRuns
<1>4. EarlierLeaseAhead /\ LineWaits
  BY EmptyIsLine DEF Init, EarlierLeaseAhead, LineWaits
<1>. QED BY <1>1, <1>2, <1>3, <1>4 DEF GrantInv

(* Every step keeps it. *)
LEMMA GrantStep ==
  ASSUME LeasesAssumption, Ordered, GrantInv, [Next]_vars
  PROVE  GrantInv'
<1>1. CASE UNCHANGED vars
  <2>1. IInv' /\ ChannelInv'
    BY <1>1, StepKeeps, ChannelsStutter DEF GrantInv
  <2>2. BothSidesAgree' /\ LeasesOfRuns' /\ EarlierLeaseAhead' /\ LineWaits'
    BY <1>1 DEF GrantInv, vars, offerVars, leaseVars, nodeVars, lineVars, hostVars, netVars,
                BothSidesAgree, LeasesOfRuns, EarlierLeaseAhead, LineWaits, SameRun, AheadOf, AcquireOf
  <2>. QED BY <2>1, <2>2 DEF GrantInv
<1>2. CASE Next
  <2>1. IInv'
    BY StepKeeps DEF GrantInv
  <2>2. ChannelInv'
    BY <1>2, <2>1, ChannelsKept DEF GrantInv
  <2>3. BothSidesAgree' /\ LeasesOfRuns' /\ EarlierLeaseAhead' /\ LineWaits'
    BY <1>2, AgreementKept, LeasesOfRunsKept, OrderKept DEF GrantInv
  <2>. QED BY <2>1, <2>2, <2>3 DEF GrantInv
<1>. QED BY <1>1, <1>2

(* The host holds itself for every lease a connected engine uses. *)
LEMMA UseIsHeld == LeasesAssumption /\ GrantInv => GrantIsTrue
BY DEF GrantInv, GrantIsTrue, BothSidesAgree, InUse, Holds, IInv, LeaseInv

(* Two engines do not use leases at once. *)
LEMMA UseIsApart == LeasesAssumption /\ GrantInv => NodesApart
<1>. SUFFICES ASSUME LeasesAssumption, GrantInv, NEW m \in Nodes, NEW n \in Nodes,
                     HomeOf[m] # HomeOf[n], node[m] = "sent", node[n] = "sent",
                     InUse(nodeLease[m]), InUse(nodeLease[n])
              PROVE  FALSE
  BY DEF NodesApart
<1>1. /\ nodeLease[m] \in Leases /\ HomeOf[nodeLease[m]] = HomeOf[m]
      /\ nodeLease[n] \in Leases /\ HomeOf[nodeLease[n]] = HomeOf[n]
  BY DEF GrantInv, IInv, LeaseInv, InUse, LeasesOfRuns, LeasesAssumption
<1>2. Holds(nodeLease[m]) /\ Holds(nodeLease[n])
  BY <1>1, UseIsHeld DEF GrantIsTrue
<1>. QED BY <1>1, <1>2 DEF GrantInv, IInv, HostInv

(* No run waits behind its own lease. *)
LEMMA NoneBehindItself == LeasesAssumption /\ GrantInv => NotBehindItself
<1>. SUFFICES ASSUME LeasesAssumption, GrantInv, NEW k \in Leases, NEW l \in Leases,
                     SameRun(k, l), l \in DOMAIN line, Holds(k), k \in table
              PROVE  FALSE
  BY DEF NotBehindItself, SameRun
<1>1. k \in DOMAIN line
  BY DEF GrantInv, EarlierLeaseAhead, AheadOf, Holds
<1>. QED BY <1>1 DEF GrantInv, LineWaits, Holds

(* As long as an engine uses a lease it was granted and is connected, the  *)
(* host holds itself for that lease, whatever is lost and whichever        *)
(* connections break, if a channel keeps the order of its requests         *)
(* (hold_for_engine_run, _end_engine_run, _end_lease).                     *)
THEOREM UsedIsHeld == ASSUME Ordered PROVE Spec => []GrantIsTrue
<1>1. Init => GrantInv
  BY LeasesAssumption, GrantStart
<1>2. GrantInv /\ [Next]_vars => GrantInv'
  BY LeasesAssumption, GrantStep
<1>3. GrantInv => GrantIsTrue
  BY LeasesAssumption, UseIsHeld
<1>. QED BY <1>1, <1>2, <1>3, PTL DEF Spec

(* Nodes of two engines, both still under a lease in use, never run on the *)
(* host at once, if a channel keeps the order of its requests              *)
(* (lease_refusal).                                                        *)
THEOREM EnginesApart == ASSUME Ordered PROVE Spec => []NodesApart
<1>1. Init => GrantInv
  BY LeasesAssumption, GrantStart
<1>2. GrantInv /\ [Next]_vars => GrantInv'
  BY LeasesAssumption, GrantStep
<1>3. GrantInv => NodesApart
  BY LeasesAssumption, UseIsApart
<1>. QED BY <1>1, <1>2, <1>3, PTL DEF Spec

(* A run never waits in the host's line behind a lease of its own that it  *)
(* still uses, if a channel keeps the order of its requests (_lease_for,   *)
(* _end_lease).                                                            *)
THEOREM RunNotBehindItself == ASSUME Ordered PROVE Spec => []NotBehindItself
<1>1. Init => GrantInv
  BY LeasesAssumption, GrantStart
<1>2. GrantInv /\ [Next]_vars => GrantInv'
  BY LeasesAssumption, GrantStep
<1>3. GrantInv => NotBehindItself
  BY LeasesAssumption, NoneBehindItself
<1>. QED BY <1>1, <1>2, <1>3, PTL DEF Spec

ReportInv == IInv /\ ChannelInv /\ ClaimsOfSessions /\ LeftInv

(* The invariant holds at the start. *)
LEMMA ReportStart == LeasesAssumption /\ Init => ReportInv
<1>. SUFFICES ASSUME LeasesAssumption, Init PROVE ReportInv
  OBVIOUS
<1>1. IInv /\ ChannelInv
  BY InitInv, ChannelsStart
<1>2. ClaimsOfSessions
  BY DEF Init, ClaimsOfSessions, Claims, LeasesAssumption
<1>3. \A e \in Engines : DOMAIN chan[e] = {}
  BY EmptyIsLine DEF Init
<1>4. Unregistered
  BY <1>3 DEF Init, Unregistered, NoOfferLeft
<1>5. ReportsTrue
  BY DEF Init, ReportsTrue
<1>. QED BY <1>1, <1>2, <1>4, <1>5 DEF ReportInv, LeftInv

(* Every step keeps it. *)
LEMMA ReportStep ==
  ASSUME LeasesAssumption, Ordered, OffersArrive, ReportInv, [Next]_vars
  PROVE  ReportInv'
<1>1. IInv'
  BY StepKeeps DEF ReportInv
<1>2. CASE UNCHANGED vars
  <2>1. ChannelInv'
    BY <1>2, ChannelsStutter DEF ReportInv
  <2>2. ClaimsOfSessions' /\ LeftInv'
    BY <1>2 DEF ReportInv, vars, offerVars, leaseVars, nodeVars, lineVars, hostVars, netVars,
                ClaimsOfSessions, LeftInv, Unregistered, ReportsTrue, NoOfferLeft, Freed,
                WillBeRefused, WillBeWithdrawn, Claims, AcquireOf
  <2>. QED BY <1>1, <2>1, <2>2 DEF ReportInv
<1>3. CASE Next
  <2>1. ChannelInv' /\ ClaimsOfSessions'
    BY <1>1, <1>3, ChannelsKept, ClaimsKept DEF ReportInv, ChannelInv
  <2>2. LeftInv'
    BY <1>3, AskerLeaves, LeaseLeaves, HostLeaves, TransportLeaves DEF Next, ReportInv
  <2>. QED BY <1>1, <2>1, <2>2 DEF ReportInv
<1>. QED BY <1>2, <1>3

(* What was left behind is nothing, or goes with a withdrawal. *)
LEMMA OverIsFreed == ReportInv => ReportOverMeansFreed
BY DEF ReportInv, LeftInv, ReportsTrue, ReportOverMeansFreed, Freed, WillBeRefused, WillBeWithdrawn

(* A report that stopped without giving up left nothing behind, if a       *)
(* channel keeps the order of its requests and neither offers nor          *)
(* withdrawals get lost on a connection that is up: an engine that counts  *)
(* its registration as failed must not be one the host knows               *)
(* (_report_until_answered, _has_session_with).                            *)
THEOREM ReportFreesLease ==
  ASSUME Ordered, OffersArrive PROVE Spec => []ReportOverMeansFreed
<1>1. Init => ReportInv
  BY LeasesAssumption, ReportStart
<1>2. ReportInv /\ [Next]_vars => ReportInv'
  BY LeasesAssumption, ReportStep
<1>3. ReportInv => ReportOverMeansFreed
  BY OverIsFreed
<1>. QED BY <1>1, <1>2, <1>3, PTL DEF Spec

=============================================================================
