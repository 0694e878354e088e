------------------------- MODULE LocalObjectsProofs -------------------------
(***************************************************************************)
(* Theorems about LocalObjects, for any objects, nodes, slots, libraries,  *)
(* workflows and threads, and for any object put again whatever became of  *)
(* it before.                                                              *)
(***************************************************************************)
EXTENDS LocalObjects, FiniteSetTheorems, TLAPS

-----------------------------------------------------------------------------
(* The inductive invariant. *)

Has(E, v) == IF \E e \in E : e.value = v THEN 1 ELSE 0

(* The threads that are yet to decide about an object or to free it.       *)
Waiting(v) == {t \in Threads : Has(batch[t], v) = 1}

(* Every life of an object is spent in one place: in entries of the store, *)
(* in the batch of one thread, among the entries held back, or on a hook.  *)
Account(v) ==
  /\ IsFiniteSet(Waiting(v))
  /\ Cardinality(Waiting(v)) + Has(store, v) + Has(deferred, v) + frees[v] <= lives[v]

(* What an executing node got hold of is in no batch whose hooks run,      *)
(* unless it was put again.                                                *)
Safe(n) ==
  \A v \in hand[n] :
    /\ lives[v] > 0
    /\ lives[v] = 1 =>
         /\ frees[v] = 0
         /\ \A t \in Threads : pc[t] = "hooks" => Has(batch[t], v) = 0

(* The loop's tail of a node leaves no room for another to start.          *)
TailInv ==
  /\ tail = "egress" <=> ending # None
  /\ tail = "take" => executing = {}
  /\ \A n \in Nodes \ executing : hand[n] = {}

IInv ==
  /\ TypeOK /\ TailInv
  /\ \A v \in Values : Account(v)
  /\ \A n \in executing : Safe(n)

-----------------------------------------------------------------------------
(* The account of an object's lives. *)

LEMMA HasType == \A E, v : Has(E, v) \in {0, 1}
  BY DEF Has

(* When one thread's batch changes, the threads waiting are counted again. *)
LEMMA Counted ==
  ASSUME NEW v, NEW t \in Threads, \A r \in Threads : r # t => batch'[r] = batch[r],
         IsFiniteSet(Waiting(v))
  PROVE  /\ IsFiniteSet(Waiting(v)')
         /\ Cardinality(Waiting(v)) \in Nat
         /\ Cardinality(Waiting(v)') = Cardinality(Waiting(v)) - Has(batch[t], v) + Has(batch'[t], v)
<1>. DEFINE W == Waiting(v)
            X == {r \in Threads : Has(batch'[r], v) = 1}
<1>1. X = Waiting(v)'
  BY DEF Waiting, Threads
<1>2. /\ t \in W <=> Has(batch[t], v) = 1
      /\ t \in X <=> Has(batch'[t], v) = 1
      /\ W \ {t} = X \ {t}
  BY DEF Waiting
<1>3. Has(batch[t], v) \in {0, 1} /\ Has(batch'[t], v) \in {0, 1}
  BY HasType
<1>4. IsFiniteSet(W) /\ Cardinality(W) \in Nat
  BY FS_CardinalityType
<1>. HIDE DEF W, X
<1>5. /\ IsFiniteSet(W \ {t})
      /\ Cardinality(W \ {t}) = IF t \in W THEN Cardinality(W) - 1 ELSE Cardinality(W)
  BY <1>4, FS_RemoveElement
<1>6. X = IF t \in X THEN (W \ {t}) \cup {t} ELSE W \ {t}
  BY <1>2
<1>7. /\ IsFiniteSet((W \ {t}) \cup {t})
      /\ Cardinality((W \ {t}) \cup {t}) = Cardinality(W \ {t}) + 1
  BY <1>5, FS_AddElement
<1>8. IsFiniteSet(X) /\ Cardinality(X) = Cardinality(W \ {t}) + (IF t \in X THEN 1 ELSE 0)
  <2>1. CASE t \in X
    BY <1>6, <1>7, <2>1
  <2>2. CASE t \notin X
    <3>1. Cardinality(W \ {t}) \in Nat
      BY <1>5, FS_CardinalityType
    <3>. QED BY <1>5, <1>6, <2>2, <3>1
  <2>. QED BY <2>1, <2>2
<1>. QED BY <1>1, <1>2, <1>3, <1>4, <1>5, <1>8 DEF W

(* A step of one thread that does not add to what the lives are spent on   *)
(* keeps the account.                                                      *)
LEMMA AccountMoves ==
  ASSUME NEW v, NEW t \in Threads, \A r \in Threads : r # t => batch'[r] = batch[r],
         Account(v), frees[v] \in Nat, lives[v] \in Nat, frees'[v] \in Nat, lives'[v] \in Nat,
         Has(batch'[t], v) + Has(store', v) + Has(deferred', v) + frees'[v] + lives[v]
           <= Has(batch[t], v) + Has(store, v) + Has(deferred, v) + frees[v] + lives'[v]
  PROVE  Account(v)'
<1>1. /\ IsFiniteSet(Waiting(v)')
      /\ Cardinality(Waiting(v)) \in Nat
      /\ Cardinality(Waiting(v)') = Cardinality(Waiting(v)) - Has(batch[t], v) + Has(batch'[t], v)
  BY Counted DEF Account
<1>2. /\ Has(batch[t], v) \in {0, 1} /\ Has(batch'[t], v) \in {0, 1}
      /\ Has(store, v) \in {0, 1} /\ Has(store', v) \in {0, 1}
      /\ Has(deferred, v) \in {0, 1} /\ Has(deferred', v) \in {0, 1}
  BY HasType
<1>3. Cardinality(Waiting(v)) + Has(store, v) + Has(deferred, v) + frees[v] <= lives[v]
  BY DEF Account
<1>4. Cardinality(Waiting(v)') + Has(store', v) + Has(deferred', v) + frees'[v] <= lives'[v]
  BY <1>1, <1>2, <1>3
<1>5. Account(v)' <=>
        /\ IsFiniteSet(Waiting(v)')
        /\ Cardinality(Waiting(v)') + Has(store', v) + Has(deferred', v) + frees'[v] <= lives'[v]
  BY DEF Account, Has
<1>. QED BY <1>1, <1>4, <1>5

(* An account is kept by a step that moves no entry. *)
LEMMA AccountStays ==
  ASSUME NEW v, Account(v), UNCHANGED <<store, deferred, batch, fates>>
  PROVE  Account(v)'
  BY DEF Account, Waiting, Has, fates

(* While entries hold an object put once, nothing else does. *)
LEMMA HeldOnce ==
  ASSUME NEW v, Account(v), frees[v] \in Nat, lives[v] \in Nat, v \in Held
  PROVE  /\ lives[v] > 0 /\ frees[v] < lives[v]
         /\ lives[v] = 1 => frees[v] = 0 /\ \A t \in Threads : Has(batch[t], v) = 0
<1>1. Has(store, v) = 1 /\ Has(deferred, v) \in {0, 1}
  BY HasType DEF Has, Held
<1>2. Cardinality(Waiting(v)) \in Nat
  BY FS_CardinalityType DEF Account
<1>3. Cardinality(Waiting(v)) + Has(store, v) + Has(deferred, v) + frees[v] <= lives[v]
  BY DEF Account
<1>4. lives[v] > 0 /\ frees[v] < lives[v]
  BY <1>1, <1>2, <1>3
<1>5. ASSUME lives[v] = 1 PROVE frees[v] = 0 /\ Cardinality(Waiting(v)) = 0
  BY <1>1, <1>2, <1>3, <1>5
<1>6. Cardinality(Waiting(v)) = 0 => Waiting(v) = {}
  BY FS_EmptySet DEF Account
<1>7. Waiting(v) = {} => \A t \in Threads : Has(batch[t], v) = 0
  BY HasType DEF Waiting
<1>. QED BY <1>4, <1>5, <1>6, <1>7

(* And so after a step. *)
LEMMA HeldOnceNext ==
  ASSUME NEW v, Account(v)', frees'[v] \in Nat, lives'[v] \in Nat, v \in Held'
  PROVE  /\ lives'[v] > 0
         /\ lives'[v] = 1 => frees'[v] = 0 /\ \A t \in Threads : Has(batch'[t], v) = 0
<1>. DEFINE W == {t \in Threads : Has(batch'[t], v) = 1}
<1>1. /\ IsFiniteSet(W)
      /\ Cardinality(W) + Has(store', v) + Has(deferred', v) + frees'[v] <= lives'[v]
  BY DEF Account, Waiting, Has, Threads
<1>2. Has(store', v) = 1 /\ Has(deferred', v) \in {0, 1} /\ Cardinality(W) \in Nat
  BY <1>1, FS_CardinalityType, HasType DEF Has, Held
<1>3. (Cardinality(W) = 0) => W = {}
  BY <1>1, FS_EmptySet
<1>4. W = {} => \A t \in Threads : Has(batch'[t], v) = 0
  BY HasType
<1>. HIDE DEF W
<1>5. lives'[v] > 0 /\ (lives'[v] = 1 => frees'[v] = 0 /\ Cardinality(W) = 0)
  BY <1>1, <1>2
<1>. QED BY <1>3, <1>4, <1>5

(* What a node got hold of stays safe while no thread begins with hooks.   *)
LEMMA SafeStays ==
  ASSUME NEW n, Safe(n), hand'[n] = hand[n],
         \A v \in hand[n] : lives[v] \in Nat /\ lives'[v] \in Nat /\ lives[v] <= lives'[v],
         UNCHANGED frees,
         \A t \in Threads : pc'[t] = "hooks" => pc[t] = "hooks" /\ batch'[t] = batch[t]
  PROVE  Safe(n)'
<1>1. ASSUME NEW v \in hand[n]
      PROVE  /\ lives'[v] > 0
             /\ lives'[v] = 1 =>
                  /\ frees'[v] = 0
                  /\ \A t \in Threads : pc'[t] = "hooks" => Has(batch'[t], v) = 0
  <2>1. lives[v] > 0 /\ (lives'[v] = 1 => lives[v] = 1)
    BY DEF Safe
  <2>. QED BY <2>1 DEF Safe
<1>2. Safe(n)' <=> \A v \in hand'[n] :
        /\ lives'[v] > 0
        /\ lives'[v] = 1 =>
             /\ frees'[v] = 0
             /\ \A t \in Threads : pc'[t] = "hooks" => Has(batch'[t], v) = 0
  BY DEF Safe, Has, Threads
<1>. QED BY <1>1, <1>2

-----------------------------------------------------------------------------
(* What several actions do keeps the invariant.                            *)

(* What threads that are handed entries of the store keep of the rest.     *)
HandedOut ==
  /\ store' \subseteq Entries /\ UNCHANGED <<deferred, executing, frees>>
  /\ lives' \in [Values -> Nat] /\ \A v \in Values : lives[v] <= lives'[v]
  /\ pc' \in [Threads -> {"idle", "decide", "defer", "hooks"}]
  /\ batch' \in [Threads -> SUBSET Entries]
  /\ \A s \in Threads : pc'[s] = "idle" <=> batch'[s] = {}
  /\ \A s \in Threads : pc'[s] = "hooks" => pc[s] = "hooks" /\ batch'[s] = batch[s]
  /\ \A v \in Values : Account(v)'

(* A thread that takes entries out of the store is handed those that were  *)
(* the last of their object.                                               *)
LEMMA RemoveKeeps ==
  ASSUME IInv, NEW t \in Threads, pc[t] = "idle", NEW E \in SUBSET store, Remove(t, E)
  PROVE  HandedOut
<1>. DEFINE release == LastOnes(E, store \ E)
<1>1. /\ store' = store \ E
      /\ batch' = [batch EXCEPT ![t] = release]
      /\ pc' = [pc EXCEPT ![t] = IF release = {} THEN "idle" ELSE "decide"]
      /\ UNCHANGED <<deferred, executing, lives, frees>>
  BY DEF Remove, Hand, nodeVars, fates
<1>2. release \subseteq store /\ \A e \in store \ E : \A f \in release : e.value # f.value
  BY DEF LastOnes
<1>. HIDE DEF release
<1>3. /\ batch' \in [Threads -> SUBSET Entries]
      /\ batch'[t] = release /\ \A s \in Threads : s # t => batch'[s] = batch[s]
  BY <1>1, <1>2 DEF IInv, TypeOK
<1>4. /\ pc' \in [Threads -> {"idle", "decide", "defer", "hooks"}]
      /\ pc'[t] # "hooks" /\ (pc'[t] = "idle" <=> release = {})
      /\ \A s \in Threads : s # t => pc'[s] = pc[s]
  BY <1>1 DEF IInv, TypeOK
<1>5. ASSUME NEW v \in Values PROVE Account(v)'
  <2>1. Has(batch'[t], v) + Has(store', v) <= Has(batch[t], v) + Has(store, v)
    BY <1>1, <1>2, <1>3 DEF Has
  <2>2. /\ frees[v] \in Nat /\ lives[v] \in Nat /\ frees'[v] = frees[v] /\ lives'[v] = lives[v]
        /\ Has(deferred', v) = Has(deferred, v)
    BY <1>1 DEF IInv, TypeOK, Has
  <2>3. /\ Has(batch'[t], v) \in {0, 1} /\ Has(store', v) \in {0, 1} /\ Has(deferred, v) \in {0, 1}
        /\ Has(batch[t], v) \in {0, 1} /\ Has(store, v) \in {0, 1}
    BY HasType
  <2>4. Account(v)
    BY DEF IInv
  <2>5. Has(batch'[t], v) + Has(store', v) + Has(deferred', v) + frees'[v] + lives[v]
          <= Has(batch[t], v) + Has(store, v) + Has(deferred, v) + frees[v] + lives'[v]
    BY <2>1, <2>2, <2>3
  <2>. QED BY <1>3, <2>2, <2>4, <2>5, AccountMoves
<1>6. lives' \in [Values -> Nat] /\ \A v \in Values : lives[v] <= lives'[v]
  BY <1>1 DEF IInv, TypeOK
<1>. QED BY <1>1, <1>3, <1>4, <1>5, <1>6 DEF IInv, TypeOK, HandedOut

(* A thread that puts an object is handed what it displaced.               *)
LEMMA PutKeeps ==
  ASSUME IInv, NEW t \in Threads, pc[t] = "idle",
         NEW n \in Nodes, NEW v \in Values, NEW s \in Slots \cup {None}, Put(t, n, v, s)
  PROVE  HandedOut /\ v \in Held'
<1>. DEFINE displaced == IF s = None THEN UnderKey(n) ELSE InSlot(n, s)
            new == [value |-> v, source |-> n, slot |-> s]
            rest == (store \ displaced) \cup {new}
            release == LastOnes(displaced, rest)
<1>1. /\ store' = rest
      /\ batch' = [batch EXCEPT ![t] = release]
      /\ pc' = [pc EXCEPT ![t] = IF release = {} THEN "idle" ELSE "decide"]
      /\ lives' = IF v \in Held THEN lives ELSE [lives EXCEPT ![v] = @ + 1]
      /\ UNCHANGED <<deferred, executing, frees>>
  BY DEF Put, Hand, fates
<1>2. displaced \subseteq store
  BY DEF UnderKey, InSlot
<1>. HIDE DEF displaced
<1>3. release \subseteq store /\ \A e \in rest : \A f \in release : e.value # f.value
  BY <1>2 DEF LastOnes
<1>4. new \in Entries /\ new.value = v
  BY DEF Entries
<1>. HIDE DEF new, release
<1>5. /\ store' \subseteq store \cup {new} /\ new \in store'
      /\ \A e \in store' : \A f \in release : e.value # f.value
  BY <1>1, <1>3
<1>. HIDE DEF rest
<1>6. /\ batch' \in [Threads -> SUBSET Entries]
      /\ batch'[t] = release /\ \A r \in Threads : r # t => batch'[r] = batch[r]
  BY <1>1, <1>3 DEF IInv, TypeOK
<1>7. /\ pc' \in [Threads -> {"idle", "decide", "defer", "hooks"}]
      /\ pc'[t] # "hooks" /\ (pc'[t] = "idle" <=> release = {})
      /\ \A r \in Threads : r # t => pc'[r] = pc[r]
  BY <1>1 DEF IInv, TypeOK
<1>8. /\ lives' \in [Values -> Nat]
      /\ \A w \in Values : lives'[w] = IF w = v /\ v \notin Held THEN lives[w] + 1 ELSE lives[w]
  BY <1>1 DEF IInv, TypeOK
<1>9. ASSUME NEW w \in Values PROVE Account(w)'
  <2>1. /\ Has(batch'[t], w) \in {0, 1} /\ Has(store', w) \in {0, 1} /\ Has(deferred, w) \in {0, 1}
        /\ Has(batch[t], w) \in {0, 1} /\ Has(store, w) \in {0, 1}
    BY HasType
  <2>2. /\ frees[w] \in Nat /\ lives[w] \in Nat /\ frees'[w] = frees[w] /\ lives'[w] \in Nat
        /\ Has(deferred', w) = Has(deferred, w)
    BY <1>1, <1>8 DEF IInv, TypeOK, Has
  <2>3. Has(batch'[t], w) + Has(store', w) + lives[w] <= Has(batch[t], w) + Has(store, w) + lives'[w]
    <3>1. ~ (Has(batch'[t], w) = 1 /\ Has(store', w) = 1)
      BY <1>5, <1>6 DEF Has
    <3>2. Has(batch'[t], w) = 1 => Has(store, w) = 1
      BY <1>3, <1>6 DEF Has
    <3>3. Has(store', w) = 1 => w = v \/ Has(store, w) = 1
      BY <1>4, <1>5 DEF Has
    <3>4. w \in Held => Has(store, w) = 1
      BY DEF Has, Held
    <3>5. lives[w] <= lives'[w] /\ (w = v /\ w \notin Held => lives'[w] = lives[w] + 1)
      BY <1>8, <2>2
    <3>. QED BY <2>1, <2>2, <3>1, <3>2, <3>3, <3>4, <3>5
  <2>4. Account(w)
    BY DEF IInv
  <2>5. Has(batch'[t], w) + Has(store', w) + Has(deferred', w) + frees'[w] + lives[w]
          <= Has(batch[t], w) + Has(store, w) + Has(deferred, w) + frees[w] + lives'[w]
    BY <2>1, <2>2, <2>3
  <2>. QED BY <1>6, <2>2, <2>4, <2>5, AccountMoves
<1>10. \A w \in Values : lives[w] <= lives'[w]
  BY <1>8 DEF IInv, TypeOK
<1>11. store' \subseteq Entries
  BY <1>4, <1>5 DEF IInv, TypeOK
<1>12. \A r \in Threads : pc'[r] = "idle" <=> batch'[r] = {}
  BY <1>6, <1>7 DEF IInv, TypeOK
<1>13. \A r \in Threads : pc'[r] = "hooks" => pc[r] = "hooks" /\ batch'[r] = batch[r]
  BY <1>6, <1>7
<1>14. HandedOut
  BY <1>1, <1>6, <1>7, <1>8, <1>9, <1>10, <1>11, <1>12, <1>13 DEF HandedOut
<1>15. v \in Held'
  BY <1>4, <1>5 DEF Held
<1>. QED BY <1>14, <1>15

(* What executing nodes got hold of stays safe. *)
LEMMA HandedOutSafe ==
  ASSUME IInv, HandedOut, NEW n \in executing, hand'[n] = hand[n]
  PROVE  Safe(n)'
<1>1. Safe(n) /\ hand[n] \subseteq Values /\ UNCHANGED frees
  BY DEF IInv, TypeOK, HandedOut
<1>2. \A v \in hand[n] : lives[v] \in Nat /\ lives'[v] \in Nat /\ lives[v] <= lives'[v]
  BY <1>1 DEF IInv, TypeOK, HandedOut
<1>3. \A t \in Threads : pc'[t] = "hooks" => pc[t] = "hooks" /\ batch'[t] = batch[t]
  BY DEF HandedOut
<1>. QED BY <1>1, <1>2, <1>3, SafeStays

-----------------------------------------------------------------------------
(* The steps. *)

(* The invariant holds at the start. *)
LEMMA InitInv == ObjectsAssumption /\ Init => IInv
<1>. SUFFICES ASSUME ObjectsAssumption, Init PROVE IInv
  OBVIOUS
<1>. USE DEF Init
<1>1. TypeOK /\ TailInv
  BY DEF ObjectsAssumption, TypeOK, TailInv, Entries
<1>2. ASSUME NEW v \in Values PROVE Account(v)
  <2>1. Waiting(v) = {} /\ Has(store, v) = 0 /\ Has(deferred, v) = 0
    BY DEF Waiting, Has
  <2>2. IsFiniteSet(Waiting(v)) /\ Cardinality(Waiting(v)) = 0
    BY <2>1, FS_EmptySet
  <2>. QED BY <2>1, <2>2 DEF Account
<1>. QED BY <1>1, <1>2 DEF IInv

(* A thread drops entries. *)
LEMMA DropKeeps ==
  ASSUME IInv, NEW t \in Threads, NEW E \in SUBSET store,
         Idle(t), Remove(t, E), UNCHANGED <<hand, loopVars>>
  PROVE  IInv'
<1>1. HandedOut
  BY RemoveKeeps DEF Idle
<1>2. TypeOK' /\ TailInv'
  BY <1>1 DEF HandedOut, IInv, TypeOK, TailInv, loopVars
<1>3. \A n \in executing' : Safe(n)'
  BY <1>1, HandedOutSafe DEF HandedOut
<1>. QED BY <1>1, <1>2, <1>3 DEF IInv, HandedOut

(* What a thread does to the store. *)
LEMMA StoreStepKeeps ==
  ASSUME IInv, NEW t \in Threads, StoreStep(t)
  PROVE  IInv'
<1>1. ASSUME NEW n \in Nodes, NEW v \in Values, PutNamed(t, n, v)
      PROVE  IInv'
  <2>1. /\ pc[t] = "idle" /\ n \in executing /\ Put(t, n, v, None)
        /\ hand' = [hand EXCEPT ![n] = @ \cup {v}]
        /\ UNCHANGED <<tail, ending, unsent>>
    BY <1>1 DEF PutNamed, Idle, loopVars
  <2>2. HandedOut /\ v \in Held'
    BY <2>1, PutKeeps
  <2>3. TypeOK' /\ TailInv'
    BY <2>1, <2>2 DEF HandedOut, IInv, TypeOK, TailInv
  <2>4. ASSUME NEW k \in executing' PROVE Safe(k)'
    <3>1. k \in executing /\ Account(v)' /\ frees'[v] \in Nat /\ lives'[v] \in Nat
      BY <2>2 DEF HandedOut, IInv, TypeOK
    <3>2. CASE k # n
      <4>1. hand'[k] = hand[k]
        BY <2>1, <3>1, <3>2 DEF IInv, TypeOK
      <4>. QED BY <2>2, <3>1, <4>1, HandedOutSafe
    <3>3. CASE k = n
      <4>1. hand'[k] = hand[k] \cup {v}
        BY <2>1, <3>1, <3>3 DEF IInv, TypeOK
      <4>2. /\ lives'[v] > 0
            /\ lives'[v] = 1 => frees'[v] = 0 /\ \A r \in Threads : Has(batch'[r], v) = 0
        <5>1. Threads' = Threads
          BY DEF Threads
        <5>2. \A r \in Threads : Has(batch[r], v)' = Has(batch'[r], v)
          BY DEF Has
        <5>. QED BY <2>2, <3>1, <5>1, <5>2, HeldOnceNext
      <4>3. ASSUME NEW w \in hand[k]
            PROVE  /\ lives'[w] > 0
                   /\ lives'[w] = 1 =>
                        /\ frees'[w] = 0
                        /\ \A r \in Threads : pc'[r] = "hooks" => Has(batch'[r], w) = 0
        <5>1. w \in Values /\ lives[w] \in Nat /\ lives'[w] \in Nat /\ lives[w] <= lives'[w]
          BY <2>2, <3>1 DEF HandedOut, IInv, TypeOK
        <5>2. /\ lives[w] > 0
              /\ lives[w] = 1 =>
                   /\ frees[w] = 0
                   /\ \A r \in Threads : pc[r] = "hooks" => Has(batch[r], w) = 0
          BY <3>1 DEF IInv, Safe
        <5>3. /\ frees' = frees
              /\ \A r \in Threads : pc'[r] = "hooks" => pc[r] = "hooks" /\ batch'[r] = batch[r]
          BY <2>2 DEF HandedOut
        <5>4. lives'[w] > 0 /\ (lives'[w] = 1 => lives[w] = 1)
          BY <5>1, <5>2
        <5>. QED BY <5>2, <5>3, <5>4
      <4>4. Safe(k)' <=> \A w \in hand'[k] :
              /\ lives'[w] > 0
              /\ lives'[w] = 1 =>
                   /\ frees'[w] = 0
                   /\ \A r \in Threads : pc'[r] = "hooks" => Has(batch'[r], w) = 0
        BY DEF Safe, Has, Threads
      <4>. QED BY <4>1, <4>2, <4>3, <4>4
    <3>. QED BY <3>2, <3>3
  <2>. QED BY <2>2, <2>3, <2>4 DEF IInv, HandedOut
<1>2. ASSUME NEW E \in SUBSET store, Idle(t), Remove(t, E), UNCHANGED loopVars
      PROVE  IInv'
  BY <1>2, DropKeeps DEF Remove, nodeVars
<1>3. ASSUME NEW e \in store, DropObject(t, e) PROVE IInv'
  BY <1>2, <1>3 DEF DropObject
<1>4. CASE DropAll(t)
  BY <1>2, <1>4 DEF DropAll
<1>5. CASE DropLibraryNamed(t)
  <2>1. {e \in store : e.slot = None} \in SUBSET store
    OBVIOUS
  <2>. QED BY <1>2, <1>5, <2>1 DEF DropLibraryNamed
<1>6. ASSUME NEW n \in Nodes, DropForWorkflow(t, n) \/ DropForGroup(t, n) PROVE IInv'
  <2>1. /\ {e \in store : WorkflowOf[e.source] = WorkflowOf[n]} \in SUBSET store
        /\ {e \in store : LibraryOf[e.source] = LibraryOf[n]} \in SUBSET store
    OBVIOUS
  <2>. QED BY <1>2, <1>6, <2>1 DEF DropForWorkflow, DropForGroup
<1>. QED BY <1>1, <1>3, <1>4, <1>5, <1>6 DEF StoreStep

(* What a thread does with the entries it removed. *)
LEMMA HookStepKeeps ==
  ASSUME IInv, NEW t \in Threads, HookStep(t)
  PROVE  IInv'
<1>. USE DEF nodeVars, loopVars, fates
<1>1. CASE Decide(t)
  <2>1. /\ UNCHANGED <<store, deferred, batch, executing, hand, tail, ending, unsent, lives, frees>>
        /\ pc[t] = "decide"
        /\ pc' = [pc EXCEPT ![t] = IF executing = {} THEN "hooks" ELSE "defer"]
    BY <1>1 DEF Decide
  <2>2. TypeOK' /\ TailInv'
    BY <2>1 DEF IInv, TypeOK, TailInv
  <2>3. \A v \in Values : Account(v)'
    BY <2>1, AccountStays DEF IInv
  <2>4. ASSUME NEW n \in executing' PROVE Safe(n)'
    <3>1. \A s \in Threads : pc'[s] = "hooks" => pc[s] = "hooks" /\ batch'[s] = batch[s]
      BY <2>1, <2>4 DEF IInv, TypeOK
    <3>. QED BY <2>1, <3>1, SafeStays DEF IInv, TypeOK
  <2>. QED BY <2>2, <2>3, <2>4 DEF IInv
<1>2. CASE Defer(t)
  <2>1. /\ UNCHANGED <<store, executing, hand, tail, ending, unsent, lives, frees>>
        /\ deferred' = deferred \cup batch[t]
        /\ pc' = [pc EXCEPT ![t] = "idle"]
        /\ batch' = [batch EXCEPT ![t] = {}]
    BY <1>2 DEF Defer
  <2>2. TypeOK' /\ TailInv'
    BY <2>1 DEF IInv, TypeOK, TailInv
  <2>3. /\ batch'[t] = {} /\ \A s \in Threads : s # t => batch'[s] = batch[s]
        /\ pc'[t] = "idle" /\ \A s \in Threads : s # t => pc'[s] = pc[s]
    BY <2>1 DEF IInv, TypeOK
  <2>4. ASSUME NEW v \in Values PROVE Account(v)'
    <3>1. Has(deferred', v) <= Has(deferred, v) + Has(batch[t], v) /\ Has(batch'[t], v) = 0
      BY <2>1, <2>3 DEF Has
    <3>2. /\ Has(store', v) = Has(store, v) /\ Has(store, v) \in {0, 1}
          /\ Has(deferred', v) \in {0, 1} /\ Has(deferred, v) \in {0, 1} /\ Has(batch[t], v) \in {0, 1}
      BY <2>1, HasType
    <3>3. /\ frees[v] \in Nat /\ lives[v] \in Nat /\ frees' = frees /\ lives' = lives /\ Account(v)
      BY <2>1 DEF IInv, TypeOK
    <3>4. Has(batch'[t], v) + Has(store', v) + Has(deferred', v) + frees'[v] + lives[v]
            <= Has(batch[t], v) + Has(store, v) + Has(deferred, v) + frees[v] + lives'[v]
      BY <3>1, <3>2, <3>3
    <3>5. frees'[v] \in Nat /\ lives'[v] \in Nat
      BY <3>3
    <3>. QED BY <2>3, <3>3, <3>4, <3>5, AccountMoves
  <2>5. ASSUME NEW n \in executing' PROVE Safe(n)'
    <3>1. \A s \in Threads : pc'[s] = "hooks" => pc[s] = "hooks" /\ batch'[s] = batch[s]
      BY <2>3
    <3>. QED BY <2>1, <3>1, SafeStays DEF IInv, TypeOK
  <2>. QED BY <2>2, <2>4, <2>5 DEF IInv
<1>3. ASSUME NEW e \in batch[t], RunHook(t, e) PROVE IInv'
  <2>. DEFINE same == {f \in batch[t] : f.value = e.value}
  <2>1. /\ UNCHANGED <<store, deferred, executing, hand, tail, ending, unsent, lives>>
        /\ pc[t] = "hooks"
        /\ batch' = [batch EXCEPT ![t] = batch[t] \ same]
        /\ pc' = [pc EXCEPT ![t] = IF batch[t] = same THEN "idle" ELSE "hooks"]
        /\ frees' = frees \/ frees' = [frees EXCEPT ![e.value] = @ + 1]
    BY <1>3 DEF RunHook
  <2>2. /\ same \subseteq batch[t] /\ \A f \in batch[t] : f \in same <=> f.value = e.value
    OBVIOUS
  <2>. HIDE DEF same
  <2>3. e \in Entries /\ e.value \in Values
    BY <2>1 DEF IInv, TypeOK, Entries
  <2>4. /\ batch'[t] = batch[t] \ same /\ \A s \in Threads : s # t => batch'[s] = batch[s]
        /\ batch' \in [Threads -> SUBSET Entries]
        /\ \A s \in Threads : s # t => pc'[s] = pc[s]
        /\ pc'[t] = "idle" <=> batch[t] = same
        /\ pc' \in [Threads -> {"idle", "decide", "defer", "hooks"}]
    BY <2>1 DEF IInv, TypeOK
  <2>5. /\ frees' \in [Values -> Nat]
        /\ \A v \in Values : frees'[v] = frees[v] \/ (v = e.value /\ frees'[v] = frees[v] + 1)
    BY <2>1, <2>3 DEF IInv, TypeOK
  <2>6. TypeOK' /\ TailInv'
    <3>1. \A s \in Threads : pc'[s] = "idle" <=> batch'[s] = {}
      BY <2>2, <2>4 DEF IInv, TypeOK
    <3>. QED BY <2>1, <2>4, <2>5, <3>1 DEF IInv, TypeOK, TailInv
  <2>7. ASSUME NEW v \in Values PROVE Account(v)'
    <3>1. IF v = e.value THEN Has(batch[t], v) = 1 /\ Has(batch'[t], v) = 0
                         ELSE Has(batch'[t], v) = Has(batch[t], v)
      BY <2>2, <2>4 DEF Has
    <3>2. /\ Has(store', v) = Has(store, v) /\ Has(store, v) \in {0, 1}
          /\ Has(deferred', v) = Has(deferred, v) /\ Has(deferred, v) \in {0, 1}
          /\ Has(batch[t], v) \in {0, 1}
      BY <2>1, HasType
    <3>3. /\ frees[v] \in Nat /\ lives[v] \in Nat /\ lives' = lives /\ Account(v)
          /\ frees'[v] \in Nat
      BY <2>1, <2>5 DEF IInv, TypeOK
    <3>4. Has(batch'[t], v) + Has(store', v) + Has(deferred', v) + frees'[v] + lives[v]
            <= Has(batch[t], v) + Has(store, v) + Has(deferred, v) + frees[v] + lives'[v]
      BY <2>5, <3>1, <3>2, <3>3
    <3>5. lives'[v] \in Nat
      BY <3>3
    <3>. QED BY <2>4, <3>3, <3>4, <3>5, AccountMoves
  <2>8. ASSUME NEW n \in executing', NEW v \in hand'[n]
        PROVE  /\ lives'[v] > 0
               /\ lives'[v] = 1 =>
                    /\ frees'[v] = 0
                    /\ \A s \in Threads : pc'[s] = "hooks" => Has(batch'[s], v) = 0
    <3>1. /\ v \in Values /\ lives[v] > 0
          /\ lives[v] = 1 =>
               /\ frees[v] = 0
               /\ \A s \in Threads : pc[s] = "hooks" => Has(batch[s], v) = 0
      BY <2>1, <2>8 DEF IInv, TypeOK, Safe
    <3>2. Has(batch[t], e.value) = 1
      BY DEF Has
    <3>3. lives[v] = 1 => v # e.value
      BY <2>1, <3>1, <3>2
    <3>4. \A s \in Threads : pc'[s] = "hooks" => pc[s] = "hooks" /\ batch'[s] \subseteq batch[s]
      BY <2>1, <2>4
    <3>5. \A s \in Threads : Has(batch[s], v) = 0 /\ batch'[s] \subseteq batch[s] => Has(batch'[s], v) = 0
      BY DEF Has
    <3>. QED BY <2>1, <2>5, <3>1, <3>3, <3>4, <3>5
  <2>9. ASSUME NEW n \in executing' PROVE Safe(n)'
    BY <2>8 DEF Safe, Has, Threads
  <2>. QED BY <2>6, <2>7, <2>9 DEF IInv
<1>. QED BY <1>1, <1>2, <1>3 DEF HookStep

(* What nodes do. *)
LEMMA NodeStepKeeps ==
  ASSUME ObjectsAssumption, IInv, NEW n \in Nodes,
         NodeStarts(n) \/ ScopeExits(n) \/ \E e \in store : Read(n, e)
  PROVE  IInv'
<1>. USE DEF nodeVars, loopVars, fates
<1>1. CASE NodeStarts(n)
  <2>1. /\ UNCHANGED <<store, deferred, pc, batch, hand, tail, ending, unsent, lives, frees>>
        /\ executing' = executing \cup {n} /\ n \notin executing
        /\ tail = "none" /\ ending = None /\ hand[n] = {}
    BY <1>1 DEF NodeStarts, Idle, IInv, TailInv, ObjectsAssumption
  <2>2. TypeOK' /\ TailInv'
    BY <2>1 DEF IInv, TypeOK, TailInv
  <2>3. \A v \in Values : Account(v)'
    BY <2>1, AccountStays DEF IInv
  <2>4. \A k \in executing' : Safe(k)'
    BY <2>1 DEF IInv, Safe, Has
  <2>. QED BY <2>2, <2>3, <2>4 DEF IInv
<1>2. CASE ScopeExits(n)
  <2>1. /\ UNCHANGED <<store, deferred, pc, batch, lives, frees>>
        /\ executing' = executing \ {n} /\ n \in executing
        /\ hand' = [hand EXCEPT ![n] = {}]
        /\ tail = "none" /\ ending = None
        /\ \/ tail' = "egress" /\ ending' = n /\ unsent' = SlotsOf(n)
           \/ tail' = "drain" /\ ending' = None /\ unsent' = unsent
    BY <1>2 DEF ScopeExits, Idle, IInv, TailInv
  <2>2. TypeOK' /\ TailInv'
    BY <2>1 DEF IInv, TypeOK, TailInv, ObjectsAssumption, SlotsOf
  <2>3. \A v \in Values : Account(v)'
    BY <2>1, AccountStays DEF IInv
  <2>4. ASSUME NEW k \in executing' PROVE Safe(k)'
    <3>1. hand'[k] = hand[k] /\ Safe(k)
      BY <2>1 DEF IInv, TypeOK
    <3>. QED BY <2>1, <3>1 DEF Safe, Has
  <2>. QED BY <2>2, <2>3, <2>4 DEF IInv
<1>3. ASSUME NEW e \in store, Read(n, e) PROVE IInv'
  <2>1. /\ UNCHANGED <<store, deferred, pc, batch, executing, tail, ending, unsent, lives, frees>>
        /\ hand' = [hand EXCEPT ![n] = @ \cup {e.value}] /\ n \in executing
    BY <1>3 DEF Read
  <2>2. e.value \in Values /\ e.value \in Held
    BY DEF IInv, TypeOK, Entries, Held
  <2>3. TypeOK' /\ TailInv'
    BY <2>1, <2>2 DEF IInv, TypeOK, TailInv
  <2>4. \A v \in Values : Account(v)'
    BY <2>1, AccountStays DEF IInv
  <2>5. /\ lives[e.value] > 0
        /\ lives[e.value] = 1 =>
             frees[e.value] = 0 /\ \A t \in Threads : Has(batch[t], e.value) = 0
    BY <2>2, HeldOnce DEF IInv, TypeOK
  <2>6. ASSUME NEW k \in executing' PROVE Safe(k)'
    <3>1. Safe(k) /\ \A w \in hand'[k] : w \in hand[k] \/ w = e.value
      BY <2>1 DEF IInv, TypeOK
    <3>. QED BY <2>1, <2>5, <3>1 DEF Safe, Has
  <2>. QED BY <2>3, <2>4, <2>6 DEF IInv
<1>. QED BY <1>1, <1>2, <1>3

(* What the loop does after a node. *)
LEMMA LoopStepKeeps ==
  ASSUME ObjectsAssumption, IInv, LoopStep
  PROVE  IInv'
<1>. USE DEF nodeVars, loopVars, fates
<1>0. loop \in Threads
  BY DEF Threads
<1>1. CASE Egress
  <2>1. PICK s \in unsent : ParkForEgress(s) /\ unsent' = unsent \ {s}
    BY <1>1 DEF Egress
  <2>2. /\ tail = "egress" /\ pc[loop] = "idle" /\ ending \in Nodes /\ s \in Slots
        /\ UNCHANGED <<hand, tail, ending>> /\ unsent' \subseteq Slots
    BY <1>1, <2>1 DEF Egress, IInv, TypeOK, TailInv
  <2>3. HandedOut
    <3>1. ASSUME NEW v \in Values, Put(loop, ending, v, s) PROVE HandedOut
      BY <1>0, <2>2, <3>1, PutKeeps
    <3>2. CASE Remove(loop, InSlot(ending, s))
      <4>1. InSlot(ending, s) \in SUBSET store
        BY DEF InSlot
      <4>. QED BY <1>0, <2>2, <3>2, <4>1, RemoveKeeps
    <3>3. CASE UNCHANGED <<store, deferred, pc, batch, executing, fates>>
      <4>1. \A v \in Values : Account(v)'
        BY <3>3, AccountStays DEF IInv
      <4>. QED BY <3>3, <4>1 DEF IInv, TypeOK, HandedOut
    <3>. QED BY <2>1, <3>1, <3>2, <3>3 DEF ParkForEgress
  <2>4. TypeOK' /\ TailInv'
    BY <2>2, <2>3 DEF IInv, TypeOK, TailInv, HandedOut
  <2>5. \A k \in executing' : Safe(k)'
    BY <2>2, <2>3, HandedOutSafe DEF HandedOut
  <2>. QED BY <2>3, <2>4, <2>5 DEF IInv, HandedOut
<1>2. CASE EgressEnds \/ Drain
  <2>1. /\ UNCHANGED <<store, deferred, pc, batch, executing, hand, unsent, lives, frees>>
        /\ \/ tail' = "drain" /\ ending' = None
           \/ tail = "drain" /\ tail' = (IF executing = {} THEN "take" ELSE "none") /\ ending' = ending
    BY <1>2 DEF EgressEnds, Drain
  <2>2. TypeOK' /\ TailInv'
    BY <2>1 DEF IInv, TypeOK, TailInv
  <2>3. \A v \in Values : Account(v)'
    BY <2>1, AccountStays DEF IInv
  <2>4. \A k \in executing' : Safe(k)'
    BY <2>1 DEF IInv, Safe, Has
  <2>. QED BY <2>2, <2>3, <2>4 DEF IInv
<1>3. CASE TakeDeferred
  <2>1. /\ UNCHANGED <<store, executing, hand, ending, unsent, lives, frees>>
        /\ tail = "take" /\ tail' = "none" /\ executing = {}
        /\ pc[loop] = "idle" /\ deferred' = {}
        /\ batch' = [batch EXCEPT ![loop] = deferred]
        /\ pc' = [pc EXCEPT ![loop] = IF deferred = {} THEN "idle" ELSE "hooks"]
    BY <1>3 DEF TakeDeferred, IInv, TailInv
  <2>2. TypeOK' /\ TailInv'
    BY <1>0, <2>1 DEF IInv, TypeOK, TailInv
  <2>3. /\ batch'[loop] = deferred /\ \A s \in Threads : s # loop => batch'[s] = batch[s]
        /\ batch[loop] = {}
    BY <1>0, <2>1 DEF IInv, TypeOK
  <2>4. ASSUME NEW v \in Values PROVE Account(v)'
    <3>1. /\ Has(batch'[loop], v) = Has(deferred, v) /\ Has(deferred', v) = 0
          /\ Has(store', v) = Has(store, v) /\ Has(batch[loop], v) = 0
      BY <2>1, <2>3 DEF Has
    <3>2. Has(store, v) \in {0, 1} /\ Has(deferred, v) \in {0, 1}
      BY HasType
    <3>3. /\ frees[v] \in Nat /\ lives[v] \in Nat /\ frees' = frees /\ lives' = lives /\ Account(v)
      BY <2>1 DEF IInv, TypeOK
    <3>4. Has(batch'[loop], v) + Has(store', v) + Has(deferred', v) + frees'[v] + lives[v]
            <= Has(batch[loop], v) + Has(store, v) + Has(deferred, v) + frees[v] + lives'[v]
      BY <3>1, <3>2, <3>3
    <3>5. frees'[v] \in Nat /\ lives'[v] \in Nat
      BY <3>3
    <3>. QED BY <1>0, <2>3, <3>3, <3>4, <3>5, AccountMoves
  <2>. QED BY <2>1, <2>2, <2>4 DEF IInv
<1>. QED BY <1>1, <1>2, <1>3 DEF LoopStep

(* The invariant is inductive. *)
LEMMA Inductive ==
  ASSUME ObjectsAssumption, IInv, [Next]_vars
  PROVE  IInv'
<1>1. CASE UNCHANGED vars
  <2>1. \A v \in Values : Account(v)'
    BY <1>1, AccountStays DEF vars, fates, IInv
  <2>. QED BY <1>1, <2>1 DEF vars, nodeVars, loopVars, fates, IInv, TypeOK, TailInv, Safe, Has
<1>. QED BY <1>1, StoreStepKeeps, HookStepKeeps, NodeStepKeeps, LoopStepKeeps DEF Next

-----------------------------------------------------------------------------
(* The invariant holds throughout. *)
LEMMA Invariance == Spec => []IInv
<1>1. Init => IInv
  BY InitInv, ObjectsAssumption
<1>2. IInv /\ [Next]_vars => IInv'
  BY Inductive, ObjectsAssumption
<1>. QED BY <1>1, <1>2, PTL DEF Spec

(* The four theorems below hold for the same reason: each time an object   *)
(* is put while no entry holds it, it begins a life that ends in one       *)
(* place, in entries of the store, in one thread's batch, among the        *)
(* entries held back, or on a hook, and hooks only begin to run while no   *)
(* node executes.                                                          *)

(* The state has its types: a thread is idle when it has no entries left   *)
(* to decide about (_invoke_hooks_once_per_object).                        *)
THEOREM TypeCorrect == Spec => []TypeOK
<1>1. IInv => TypeOK
  BY DEF IInv
<1>. QED BY <1>1, Invariance, PTL

(* The hook of an object in entries ran fewer times than it was put anew:  *)
(* none frees it from another entry (_value_still_held_locked).            *)
THEOREM EntriesAreLive == Spec => []HeldIsLive
<1>1. ASSUME IInv, NEW v \in Held PROVE frees[v] < lives[v]
  <2>1. v \in Values /\ Account(v) /\ frees[v] \in Nat /\ lives[v] \in Nat
    BY <1>1 DEF IInv, TypeOK, Held, Entries
  <2>. QED BY <2>1, HeldOnce
<1>2. IInv => HeldIsLive
  BY <1>1 DEF HeldIsLive
<1>. QED BY <1>2, Invariance, PTL

(* No hook runs on an object an executing node got hold of, whichever      *)
(* thread dropped it, unless it was put anew (drain_deferred_releases).    *)
THEOREM NothingFreedInUse == Spec => []NotFreedInUse
<1>1. IInv => NotFreedInUse
  BY DEF IInv, Safe, NotFreedInUse
<1>. QED BY <1>1, Invariance, PTL

(* A hook runs no oftener than the object was put anew, however many       *)
(* entries held it and whichever threads removed them (_run_hooks).        *)
THEOREM HooksRunOnce == Spec => []FreedOnce
<1>1. ASSUME IInv, NEW v \in Values PROVE frees[v] <= lives[v]
  <2>1. /\ Cardinality(Waiting(v)) \in Nat
        /\ Cardinality(Waiting(v)) + Has(store, v) + Has(deferred, v) + frees[v] <= lives[v]
    BY <1>1, FS_CardinalityType DEF IInv, Account
  <2>2. Has(store, v) \in {0, 1} /\ Has(deferred, v) \in {0, 1} /\ frees[v] \in Nat /\ lives[v] \in Nat
    BY <1>1, HasType DEF IInv, TypeOK
  <2>. QED BY <2>1, <2>2
<1>2. IInv => FreedOnce
  BY <1>1 DEF FreedOnce
<1>. QED BY <1>2, Invariance, PTL
=============================================================================
