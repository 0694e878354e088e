---------------------------- MODULE LocalObjects ----------------------------
(***************************************************************************)
(* The live objects one process holds for its libraries                    *)
(* (resource_manager.py, exe_types/local_objects.py): entries by key, the  *)
(* slot of a node's parameter an entry was parked for, and the release     *)
(* hooks, run once an object's last entry is gone and held back while a    *)
(* node executes.                                                          *)
(*                                                                         *)
(* Code under _local_objects_lock is one action; between two of those,     *)
(* other threads run.  Nodes start, end and send their outputs on the      *)
(* loop, whose synchronous code nothing else on the loop interrupts.       *)
(* The owner of every entry is the process, so it is left out, and a       *)
(* library names one key.                                                  *)
(***************************************************************************)
EXTENDS Naturals, FiniteSets

CONSTANTS
  Values,      \* the objects, by identity
  Nodes,       \* LocalObjectEntry.source
  Slots,       \* their parameters that hold an object
  Places,      \* the <<node, slot>> objects are put in; None: under a key
  LibraryOf,   \* the library of each node: LocalObjectEntry.group
  WorkflowOf,  \* the workflow of each node
  Hooked,      \* the <<node, slot>> that pass an on_drop
  Pool,        \* the threads besides the loop's
  MaxLives,    \* how often each object is put while no entry holds it
  loop, None

ASSUME ObjectsAssumption ==
  /\ None \notin Slots \cup Nodes
  /\ loop \notin Pool
  /\ Hooked \subseteq Nodes \X (Slots \cup {None})
  /\ Places \subseteq Nodes \X (Slots \cup {None})
  /\ MaxLives \in [Values -> Nat \ {0}]

Threads == Pool \cup {loop}

VARIABLES
  store,      \* _local_objects: a caller's own key has no slot
  deferred,   \* _deferred_releases
  pc,         \* each thread in _invoke_hooks_once_per_object
  batch,      \* the entries it removed and is to run hooks for
  executing,  \* the nodes inside node_execution_scope
  hand,       \* the objects the code of each of them refers to
  tail,       \* what the loop has left of _hydrate_and_run_node
  ending,     \* for this node
  unsent,     \* its parameters not yet sent
  lives,      \* how often each object was put while no entry held it
  frees       \* how often its hook ran

Entries == [value : Values, source : Nodes, slot : Slots \cup {None}]

TypeOK ==
  /\ store \subseteq Entries /\ deferred \subseteq Entries
  /\ pc \in [Threads -> {"idle", "decide", "defer", "hooks"}]
  /\ batch \in [Threads -> SUBSET Entries]
  /\ \A t \in Threads : pc[t] = "idle" <=> batch[t] = {}
  /\ executing \subseteq Nodes /\ hand \in [Nodes -> SUBSET Values]
  /\ tail \in {"none", "egress", "drain", "take"}
  /\ ending \in Nodes \cup {None} /\ unsent \subseteq Slots
  /\ lives \in [Values -> Nat] /\ frees \in [Values -> Nat]

Init ==
  /\ store = {} /\ deferred = {}
  /\ pc = [t \in Threads |-> "idle"]
  /\ batch = [t \in Threads |-> {}]
  /\ executing = {}
  /\ hand = [n \in Nodes |-> {}]
  /\ tail = "none" /\ ending = None /\ unsent = {}
  /\ lives = [v \in Values |-> 0] /\ frees = [v \in Values |-> 0]

nodeVars == <<executing, hand>>
loopVars == <<tail, ending, unsent>>
fates == <<lives, frees>>
vars == <<store, deferred, pc, batch, nodeVars, loopVars, fates>>

Held == {e.value : e \in store}
SlotsOf(n) == {s \in Slots : <<n, s>> \in Places}
HasHook(e) == <<e.source, e.slot>> \in Hooked

-----------------------------------------------------------------------------
(* The store.                                                              *)

Idle(t) == pc[t] = "idle" /\ (t = loop => tail = "none")

(* A broken variant: every removed entry releases its object.              *)
EveryOne(E, rest) == E

(* Of the removed entries, those whose object no entry holds any more      *)
(* (_value_still_held_locked).                                             *)
LastOnes(E, rest) == {e \in E : \A f \in rest : f.value # e.value}

Hand(t, release) ==
  /\ batch' = [batch EXCEPT ![t] = release]
  /\ pc' = [pc EXCEPT ![t] = IF release = {} THEN "idle" ELSE "decide"]

Remove(t, E) ==
  /\ store' = store \ E
  /\ Hand(t, LastOnes(E, store \ E))
  /\ UNCHANGED <<deferred, nodeVars, fates>>

(* _take_slot_entries_locked *)
InSlot(n, s) == {e \in store : e.source = n /\ e.slot = s}

UnderKey(n) == {e \in store : e.slot = None /\ LibraryOf[e.source] = LibraryOf[n]}

(* put_local_object, of any object, whatever became of it before.          *)
Put(t, n, v, s) ==
  LET displaced == IF s = None THEN UnderKey(n) ELSE InSlot(n, s)
      rest == (store \ displaced) \cup {[value |-> v, source |-> n, slot |-> s]} IN
  /\ store' = rest
  /\ Hand(t, LastOnes(displaced, rest))
  /\ IF v \in Held THEN UNCHANGED lives
     ELSE lives[v] < MaxLives[v] /\ lives' = [lives EXCEPT ![v] = @ + 1]
  /\ UNCHANGED <<deferred, executing, frees>>

(* LocalObjects.put, from a node's code.                                   *)
PutNamed(t, n, v) ==
  /\ Idle(t)
  /\ n \in executing /\ <<n, None>> \in Places
  /\ Put(t, n, v, None)
  /\ hand' = [hand EXCEPT ![n] = @ \cup {v}]
  /\ UNCHANGED loopVars

(* LocalObjects.get and the resolving of inputs.                           *)
Read(n, e) ==
  /\ n \in executing /\ e.value \notin hand[n]
  /\ hand' = [hand EXCEPT ![n] = @ \cup {e.value}]
  /\ UNCHANGED <<store, deferred, pc, batch, executing, loopVars, fates>>

(* drop_local_object, drop_parked_local_object, release_parked_key         *)
DropObject(t, e) == Idle(t) /\ Remove(t, {e}) /\ UNCHANGED loopVars
DropAll(t) == Idle(t) /\ Remove(t, store) /\ UNCHANGED loopVars
DropLibraryNamed(t) ==
  Idle(t) /\ Remove(t, {e \in store : e.slot = None}) /\ UNCHANGED loopVars
DropForWorkflow(t, n) ==
  /\ Idle(t)
  /\ Remove(t, {e \in store : WorkflowOf[e.source] = WorkflowOf[n]})
  /\ UNCHANGED loopVars
DropForGroup(t, n) ==
  /\ Idle(t)
  /\ Remove(t, {e \in store : LibraryOf[e.source] = LibraryOf[n]})
  /\ UNCHANGED loopVars

-----------------------------------------------------------------------------
(* Release hooks: _invoke_hooks_once_per_object asks whether a node        *)
(* executes, and then takes the lock again to hold its entries back.       *)

(* A broken variant: nobody asks.                                          *)
DecideToRun(t) ==
  /\ pc[t] = "decide"
  /\ pc' = [pc EXCEPT ![t] = "hooks"]
  /\ UNCHANGED <<store, deferred, batch, nodeVars, loopVars, fates>>

Decide(t) ==
  /\ pc[t] = "decide"
  /\ pc' = [pc EXCEPT ![t] = IF executing = {} THEN "hooks" ELSE "defer"]
  /\ UNCHANGED <<store, deferred, batch, nodeVars, loopVars, fates>>

(* A broken variant: the entries held back are kept by key.                *)
DeferByKey(t) ==
  /\ pc[t] = "defer"
  /\ deferred' = batch[t] \cup {e \in deferred : \A f \in batch[t] :
                    ~ (e.slot = None /\ f.slot = None /\ LibraryOf[e.source] = LibraryOf[f.source])}
  /\ pc' = [pc EXCEPT ![t] = "idle"]
  /\ batch' = [batch EXCEPT ![t] = {}]
  /\ UNCHANGED <<store, nodeVars, loopVars, fates>>

Defer(t) ==
  /\ pc[t] = "defer"
  /\ deferred' = deferred \cup batch[t]
  /\ pc' = [pc EXCEPT ![t] = "idle"]
  /\ batch' = [batch EXCEPT ![t] = {}]
  /\ UNCHANGED <<store, nodeVars, loopVars, fates>>

(* A broken variant: the hook runs for each entry of an object.            *)
RunHookOfEach(t, e) ==
  /\ pc[t] = "hooks" /\ e \in batch[t]
  /\ batch' = [batch EXCEPT ![t] = @ \ {e}]
  /\ pc' = [pc EXCEPT ![t] = IF batch[t] = {e} THEN "idle" ELSE @]
  /\ frees' = IF HasHook(e) THEN [frees EXCEPT ![e.value] = @ + 1] ELSE frees
  /\ UNCHANGED <<store, deferred, nodeVars, loopVars, lives>>

(* _run_hooks: once for each object, if one of its entries has a hook.     *)
RunHook(t, e) ==
  LET same == {f \in batch[t] : f.value = e.value} IN
  /\ pc[t] = "hooks" /\ e \in batch[t]
  /\ batch' = [batch EXCEPT ![t] = @ \ same]
  /\ pc' = [pc EXCEPT ![t] = IF batch[t] = same THEN "idle" ELSE @]
  /\ frees' = IF \E f \in same : HasHook(f) THEN [frees EXCEPT ![e.value] = @ + 1] ELSE frees
  /\ UNCHANGED <<store, deferred, nodeVars, loopVars, lives>>

-----------------------------------------------------------------------------
(* The loop: _hydrate_and_run_node.                                        *)

NodeStarts(n) ==
  /\ Idle(loop)
  /\ n \notin executing
  /\ executing' = executing \cup {n}
  /\ UNCHANGED <<store, deferred, pc, batch, hand, loopVars, fates>>

(* The execution scope is left before the outputs are sent; a node that    *)
(* failed or was cancelled sends none.                                     *)
ScopeExits(n) ==
  /\ Idle(loop)
  /\ n \in executing
  /\ executing' = executing \ {n}
  /\ hand' = [hand EXCEPT ![n] = {}]
  /\ \/ tail' = "egress" /\ ending' = n /\ unsent' = SlotsOf(n)
     \/ tail' = "drain" /\ UNCHANGED <<ending, unsent>>
  /\ UNCHANGED <<store, deferred, pc, batch, fates>>

(* _park_for_egress: an object, which may be the one the slot holds; a     *)
(* plain value; a reference to what the slot holds, or no value at all.    *)
ParkForEgress(s) ==
  \/ \E v \in Values : Put(loop, ending, v, s)
  \/ Remove(loop, InSlot(ending, s))
  \/ UNCHANGED <<store, deferred, pc, batch, executing, fates>>

(* cache_outputs_for_egress: one output after another, each with the hooks *)
(* of what it displaced.                                                   *)
Egress ==
  /\ tail = "egress" /\ pc[loop] = "idle"
  /\ \E s \in unsent :
       /\ ParkForEgress(s)
       /\ unsent' = unsent \ {s}
  /\ UNCHANGED <<hand, tail, ending>>

EgressEnds ==
  /\ tail = "egress" /\ pc[loop] = "idle" /\ unsent = {}
  /\ tail' = "drain" /\ ending' = None
  /\ UNCHANGED <<store, deferred, pc, batch, nodeVars, unsent, fates>>

(* drain_deferred_releases *)
Drain ==
  /\ tail = "drain" /\ pc[loop] = "idle"
  /\ tail' = IF executing = {} THEN "take" ELSE "none"
  /\ UNCHANGED <<store, deferred, pc, batch, nodeVars, ending, unsent, fates>>

(* A broken variant: a drain with nothing to take waits for hooks.         *)
TakeDeferredAnyway ==
  /\ tail = "take" /\ pc[loop] = "idle"
  /\ tail' = "none"
  /\ deferred' = {}
  /\ batch' = [batch EXCEPT ![loop] = deferred]
  /\ pc' = [pc EXCEPT ![loop] = "hooks"]
  /\ UNCHANGED <<store, nodeVars, ending, unsent, fates>>

TakeDeferred ==
  /\ tail = "take" /\ pc[loop] = "idle"
  /\ tail' = "none"
  /\ deferred' = {}
  /\ batch' = [batch EXCEPT ![loop] = deferred]
  /\ pc' = [pc EXCEPT ![loop] = IF deferred = {} THEN "idle" ELSE "hooks"]
  /\ UNCHANGED <<store, nodeVars, ending, unsent, fates>>

-----------------------------------------------------------------------------
StoreStep(t) ==
  \/ \E n \in Nodes, v \in Values : PutNamed(t, n, v)
  \/ \E e \in store : DropObject(t, e)
  \/ DropAll(t) \/ DropLibraryNamed(t)
  \/ \E n \in Nodes : DropForWorkflow(t, n) \/ DropForGroup(t, n)

HookStep(t) == Decide(t) \/ Defer(t) \/ \E e \in batch[t] : RunHook(t, e)

LoopStep == Egress \/ EgressEnds \/ Drain \/ TakeDeferred

Next ==
  \/ \E t \in Threads : StoreStep(t) \/ HookStep(t)
  \/ \E n \in Nodes : NodeStarts(n) \/ ScopeExits(n) \/ \E e \in store : Read(n, e)
  \/ LoopStep

Spec == Init /\ [][Next]_vars

(* A thread finishes what it began; nothing obliges nodes to run.          *)
FairSpec ==
  Spec /\ WF_vars(LoopStep) /\ \A t \in Threads : WF_vars(HookStep(t))

-----------------------------------------------------------------------------
(* The hook of an object runs only for a time it had lost its last entry:  *)
(* never while the object sits in another entry, another slot, or that of  *)
(* another library, whichever threads drop it.  So what an entry holds was *)
(* freed only if it was put again after it had lost all its entries, and   *)
(* no more often than that happened (_value_still_held_locked).            *)
HeldIsLive == \A v \in Held : frees[v] < lives[v]

(* No hook runs on an object that an executing node got hold of, whichever *)
(* thread drops it, unless it was put again without an entry: the hook     *)
(* then may be under way already (drain_deferred_releases).                *)
NotFreedInUse == \A n \in executing : \A v \in hand[n] : lives[v] = 1 => frees[v] = 0

(* A hook runs once for each time an object lost its last entry, however   *)
(* many entries it sat in and whichever threads removed them (_run_hooks). *)
FreedOnce == \A v \in Values : frees[v] <= lives[v]

(* An object no entry holds any more is freed in the end, as long as nodes *)
(* go on running and being idle: entries held back by a thread that asked  *)
(* before the last node ended wait for the end of the next one.            *)
Orphan(v) == lives[v] > 0 /\ v \notin Held
EventuallyFreed ==
  []<>(executing # {}) /\ []<>(executing = {})
    => \A v \in Values : Orphan(v) ~> frees[v] > 0
=============================================================================
