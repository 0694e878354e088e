---------------------------- MODULE WorkersProofs ----------------------------
(***************************************************************************)
(* Proofs about Workers, for any number of attempts, nodes, challenges     *)
(* and remembered requests.                                                *)
(*                                                                         *)
(* Three inductive invariants: what the records say of the processes that  *)
(* run (Recorded), what is left of a start while a reset stops the library *)
(* (StopInv), and where an answer's request is remembered (AnswersKnown).  *)
(***************************************************************************)
EXTENDS Workers, TLAPS, FiniteSetTheorems

Active == {"asked", "spawning", "forked"}

NodeStates == {"idle", "waiting", "picked", "awaiting", "ended"}

Stoppers ==
    [at : {"idle", "waiting", "terminating", "unsubscribing"}, kind : {"none", "reset", "reload"},
     victim : Procs \cup {None}, ids : SUBSET Procs]

Sweeps ==
    [at : {"resting", "evicting", "unsubscribing", "terminating"}, todo : SUBSET Procs,
     wid : Procs \cup {None}, known : BOOLEAN, victim : Procs \cup {None}]

-----------------------------------------------------------------------------
(* The inductive invariants.                                                *)

\* A process the records have not lost is the recorded one or belongs to the claim, and while
\* a claim is held, a recorded process is one the records have lost.
Recorded ==
    /\ \A p \in Procs : task[p] \in {"none", "asked", "spawning"} => proc[p] = "unborn"
    /\ \A p \in Running : p \in strays \/ p = managed \/ (p = claim /\ task[p] = "forked")
    /\ claim # None /\ managed # None => managed \in strays
    /\ \A p \in Procs : task[p] \in {"spawning", "forked"} => claim = p \/ p \in strays
    /\ \A p \in Procs : p \in goodbyes \/ stage[p] = "leaving" => proc[p] = "gone"

\* While the records have lost nothing and nothing was started during a reset: the request and
\* the claim name the tasks under way, ...
TasksNamed ==
    /\ \A p \in Procs : task[p] = "asked" => requested = p
    /\ \A p \in Procs : task[p] \in {"spawning", "forked"}
                            => claim = p /\ (requested = p \/ Reloading)
    /\ claim # None => task[claim] \in {"spawning", "forked"}
    /\ requested # None => task[requested] \in Active

\* ... a reset that waits waits for the only task there is, and one that went on left none.
ResetAlone ==
    /\ stopper.at = "waiting" => \A p \in Procs \ {stopper.victim} : task[p] \notin Active
    /\ stopper.kind = "reset" /\ stopper.at # "waiting" =>
          /\ requested = None /\ claim = None /\ managed = None
          /\ \A p \in Procs : task[p] \notin Active

Calm == strays = {} /\ ~disturbed

StopShape ==
    /\ stopper.at = "idle" <=> stopper.kind = "none"
    /\ stopper.at = "waiting" => stopper.kind = "reset"

StopInv == StopShape /\ (Calm => TasksNamed /\ ResetAlone)

\* A request that is at its worker, or whose answer is on its way back, is tracked, remembered
\* as given up, or forgotten; it is in one place, and only a request that was routed is.
AnswersKnown ==
    /\ sent \cup replies \subseteq pending \cup ToSet(abandoned) \cup forgotten
    /\ sent \cap replies = {}
    /\ \A n \in Nodes : node[n] \in {"idle", "waiting", "picked"}
                            => n \notin sent \cup replies \cup pending
    /\ LateRepliesDropped

-----------------------------------------------------------------------------
(* Lemmas about the model's operators.                                      *)

(* The attempts are finitely many numbers, and None is none of them. *)
LEMMA Attempted ==
  ASSUME WorkersAssumption
  PROVE  IsFiniteSet(Procs) /\ None \notin Procs /\ Procs \subseteq Nat
<1>1. 1 \in Int /\ Attempts \in Int
  BY DEF WorkersAssumption
<1>2. IsFiniteSet(Procs)
  BY <1>1, FS_Interval DEF Procs
<1>. QED BY <1>2 DEF Procs, None, WorkersAssumption

(* Registering a worker and forgetting some leave a line of workers. *)
LEMMA WorkersLine ==
  ASSUME NEW l \in Line!Lines(Procs)
  PROVE  /\ \A p \in Procs : Line!Enqueue(l, p) \in Line!Lines(Procs)
         /\ \A W : Line!Remove(l, W) \in Line!Lines(Procs)
         /\ Line!Heads(l) \subseteq DOMAIN l
         /\ DOMAIN l \subseteq Procs
<1>1. DOMAIN l \subseteq Procs /\ l \in [DOMAIN l -> SUBSET Procs]
  BY DEF Line!Lines
<1>2. ASSUME NEW p \in Procs PROVE Line!Enqueue(l, p) \in Line!Lines(Procs)
  <2>1. /\ DOMAIN Line!Enqueue(l, p) \subseteq Procs
        /\ Line!Enqueue(l, p) \in [DOMAIN Line!Enqueue(l, p) -> SUBSET Procs]
    BY <1>1 DEF Line!Enqueue
  <2>. QED BY <2>1 DEF Line!Lines
<1>3. ASSUME NEW W PROVE Line!Remove(l, W) \in Line!Lines(Procs)
  <2>1. /\ DOMAIN Line!Remove(l, W) \subseteq Procs
        /\ Line!Remove(l, W) \in [DOMAIN Line!Remove(l, W) -> SUBSET Procs]
    BY <1>1 DEF Line!Remove
  <2>. QED BY <2>1 DEF Line!Lines
<1>. QED BY <1>1, <1>2, <1>3 DEF Line!Heads

(* An order of a finite set is a sequence of its members that leaves none out. *)
LEMMA OrdersAreComplete ==
  ASSUME NEW S, IsFiniteSet(S), NEW order \in SetToSeqs(S)
  PROVE  order \in Seq(S) /\ ToSet(order) = S
<1>. DEFINE k == Cardinality(S)
            D == 1..k
<1>1. k \in Nat
  BY FS_CardinalityType
<1>2. order \in [D -> S] /\ \A i, j \in D : i # j => order[i] # order[j]
  BY DEF SetToSeqs
<1>3. order \in Seq(S) /\ DOMAIN order = D
  BY <1>1, <1>2
<1>4. IsFiniteSet(D) /\ Cardinality(D) = k
  BY <1>1, FS_Interval
<1>5. order \in Injection(D, S)
  BY <1>2 DEF Injection, IsInjective
<1>6. order \in Surjection(D, S)
  BY <1>4, <1>5, FS_Injection
<1>7. \A x \in S : \E i \in D : order[i] = x
  BY <1>6 DEF Surjection
<1>. QED BY <1>2, <1>3, <1>7 DEF ToSet

(* Taking a member out of a sequence keeps the others. *)
LEMMA RemoveAtEffect ==
  ASSUME NEW S, NEW s \in Seq(S), NEW i \in 1..Len(s)
  PROVE  /\ RemoveAt(s, i) \in Seq(S) /\ Len(RemoveAt(s, i)) < Len(s)
         /\ \A x \in ToSet(s) : x # s[i] => x \in ToSet(RemoveAt(s, i))
<1>. DEFINE before == SubSeq(s, 1, i - 1)
            after  == SubSeq(s, i + 1, Len(s))
            rest   == before \o after
<1>1. Len(s) \in Nat /\ i \in Nat /\ DOMAIN s = 1..Len(s)
  OBVIOUS
<1>2. /\ before \in Seq(S) /\ Len(before) = i - 1
      /\ \A j \in 1..(i - 1) : before[j] = s[j]
  BY <1>1
<1>3. /\ after \in Seq(S) /\ Len(after) = Len(s) - i
      /\ \A j \in 1..(Len(s) - i) : after[j] = s[i + j]
  <2>1. after \in Seq(S) /\ Len(after) = Len(s) - i
    <3>1. i + 1 \in 1..(Len(s) + 1) /\ Len(s) \in 0..Len(s)
      BY <1>1
    <3>2. after \in Seq(S)
      BY <3>1
    <3>3. Len(after) = IF i + 1 <= Len(s) THEN Len(s) - (i + 1) + 1 ELSE 0
      BY <3>1
    <3>4. ASSUME NEW n \in Nat, NEW k \in 1..n
          PROVE  (IF k + 1 <= n THEN n - (k + 1) + 1 ELSE 0) = n - k
      OBVIOUS
    <3>. QED BY <1>1, <3>2, <3>3, <3>4
  <2>2. ASSUME NEW j \in 1..(Len(s) - i) PROVE after[j] = s[i + j]
    <3>1. after[j] = s[(i + 1) + j - 1]
      BY <1>1, <2>1
    <3>2. (i + 1) + j - 1 = i + j
      BY <1>1
    <3>. QED BY <3>1, <3>2
  <2>. QED BY <2>1, <2>2
<1>. HIDE DEF before, after
<1>4. /\ rest \in Seq(S) /\ Len(rest) = Len(s) - 1
      /\ \A j \in 1..(i - 1) : rest[j] = before[j]
      /\ \A j \in 1..(Len(s) - i) : rest[i - 1 + j] = after[j]
  <2>1. rest \in Seq(S) /\ Len(rest) = Len(before) + Len(after)
    <3>1. before \in Seq(S) /\ after \in Seq(S)
      BY <1>2, <1>3
    <3>. QED BY <3>1
  <2>2. ASSUME NEW j \in 1..(i - 1) PROVE rest[j] = before[j]
    BY <1>1, <1>2, <1>3
  <2>3. ASSUME NEW j \in 1..(Len(s) - i) PROVE rest[i - 1 + j] = after[j]
    <3>1. rest[Len(before) + j] = after[j]
      BY <1>1, <1>2, <1>3
    <3>. QED BY <1>2, <3>1
  <2>4. Len(rest) = Len(s) - 1
    BY <1>1, <1>2, <1>3, <2>1
  <2>. QED BY <2>1, <2>2, <2>3, <2>4
<1>. HIDE DEF rest
<1>5. ASSUME NEW j \in 1..Len(s), j # i PROVE s[j] \in ToSet(rest)
  <2>1. CASE j < i
    <3>1. j \in 1..Len(rest) /\ rest[j] = s[j]
      BY <1>1, <1>2, <1>4, <2>1
    <3>. QED BY <1>4, <3>1 DEF ToSet
  <2>2. CASE j > i
    <3>1. j - i \in 1..(Len(s) - i) /\ j - 1 \in 1..Len(rest) /\ i - 1 + (j - i) = j - 1
      BY <1>1, <1>4, <2>2
    <3>2. rest[i - 1 + (j - i)] = after[j - i] /\ after[j - i] = s[i + (j - i)]
      BY <1>3, <1>4, <3>1
    <3>3. i + (j - i) = j
      BY <1>1
    <3>4. rest[j - 1] = s[j]
      BY <3>1, <3>2, <3>3
    <3>. QED BY <1>4, <3>1, <3>4 DEF ToSet
  <2>. QED BY <1>1, <1>5, <2>1, <2>2
<1>6. \A x \in ToSet(s) : x # s[i] => x \in ToSet(rest)
  BY <1>1, <1>5 DEF ToSet
<1>7. RemoveAt(s, i) = rest
  BY DEF RemoveAt, rest, before, after
<1>. QED BY <1>1, <1>4, <1>6, <1>7

(* What is given up joins what is remembered: of both, each request is     *)
(* remembered or forgotten, and no more than the limit is remembered.      *)
LEMMA RememberEffect ==
  ASSUME WorkersAssumption, NEW S \in SUBSET Nodes, Remember(S),
         abandoned \in Seq(Nodes), forgotten \subseteq Nodes
  PROVE  /\ abandoned' \in Seq(Nodes) /\ Len(abandoned') <= Remembered
         /\ forgotten \subseteq forgotten' /\ forgotten' \subseteq Nodes
         /\ S \cup ToSet(abandoned) \subseteq ToSet(abandoned') \cup forgotten'
<1>1. IsFiniteSet(S)
  BY FS_Subset DEF WorkersAssumption
<1>2. PICK order \in SetToSeqs(S) :
        LET all  == abandoned \o order
            over == IF Len(all) > Remembered THEN Len(all) - Remembered ELSE 0
        IN  /\ abandoned' = SubSeq(all, over + 1, Len(all))
            /\ forgotten' = forgotten \cup ToSet(SubSeq(all, 1, over))
  BY DEF Remember
<1>. DEFINE all  == abandoned \o order
            over == IF Len(all) > Remembered THEN Len(all) - Remembered ELSE 0
            kept == SubSeq(all, over + 1, Len(all))
            lost == SubSeq(all, 1, over)
<1>3. order \in Seq(Nodes) /\ ToSet(order) = S
  BY <1>1, OrdersAreComplete
<1>4. all \in Seq(Nodes) /\ Len(all) \in Nat /\ Remembered \in Nat
  BY <1>3 DEF WorkersAssumption
<1>5. over \in 0..Len(all) /\ Len(all) - over <= Remembered
  BY <1>4
<1>6. \A x \in S \cup ToSet(abandoned) : \E i \in 1..Len(all) : all[i] = x
  <2>1. ASSUME NEW x \in ToSet(abandoned) PROVE \E i \in 1..Len(all) : all[i] = x
    <3>1. PICK i \in 1..Len(abandoned) : abandoned[i] = x
      BY <2>1 DEF ToSet
    <3>2. i \in 1..Len(all) /\ all[i] = x
      BY <1>3, <3>1
    <3>. QED BY <3>2
  <2>2. ASSUME NEW x \in S PROVE \E i \in 1..Len(all) : all[i] = x
    <3>1. PICK i \in 1..Len(order) : order[i] = x
      BY <1>3, <2>2 DEF ToSet
    <3>2. Len(abandoned) + i \in 1..Len(all) /\ all[Len(abandoned) + i] = x
      BY <1>3, <3>1
    <3>. QED BY <3>2
  <2>. QED BY <2>1, <2>2
<1>. HIDE DEF all, over
<1>7. /\ kept \in Seq(Nodes) /\ Len(kept) = Len(all) - over
      /\ \A i \in 1..Len(kept) : kept[i] = all[over + i]
  BY <1>4, <1>5
<1>8. /\ lost \in Seq(Nodes) /\ Len(lost) = over
      /\ \A i \in 1..over : lost[i] = all[i]
  BY <1>4, <1>5
<1>10. abandoned' = kept /\ forgotten' = forgotten \cup ToSet(lost)
  BY <1>2 DEF all, over
<1>. HIDE DEF kept, lost
<1>9. ASSUME NEW i \in 1..Len(all) PROVE all[i] \in ToSet(kept) \cup ToSet(lost)
  <2>1. CASE i <= over
    <3>1. i \in 1..Len(lost) /\ lost[i] = all[i]
      BY <1>4, <1>5, <1>8, <2>1
    <3>. QED BY <1>8, <3>1 DEF ToSet
  <2>2. CASE i > over
    <3>1. i - over \in 1..Len(kept) /\ kept[i - over] = all[i]
      BY <1>4, <1>5, <1>7, <2>2
    <3>. QED BY <1>7, <3>1 DEF ToSet
  <2>. QED BY <1>4, <1>5, <2>1, <2>2
<1>11. ToSet(lost) \subseteq Nodes
  BY <1>8 DEF ToSet
<1>. QED BY <1>4, <1>5, <1>6, <1>7, <1>9, <1>10, <1>11

(* What is asked of the system stays within the bound. *)
LEMMA CountsBounded ==
  ASSUME WorkersAssumption, TypeOK, MoreToCome
  PROVE  stops + 1 \in 0..Events
<1>. DEFINE P == {p \in Procs : task[p] # "none"}
            N == {n \in Nodes : node[n] # "idle"}
<1>1. IsFiniteSet(P) /\ IsFiniteSet(N)
  BY Attempted, FS_Subset DEF WorkersAssumption
<1>2. Cardinality(P) \in Nat /\ Cardinality(N) \in Nat
  BY <1>1, FS_CardinalityType
<1>3. Cardinality(P) + Cardinality(N) + stops < Events
  BY DEF MoreToCome
<1>. QED BY <1>2, <1>3 DEF TypeOK, WorkersAssumption

-----------------------------------------------------------------------------
(* Types.                                                                   *)

LEMMA InitTypes == WorkersAssumption /\ Init => TypeOK
<1>. SUFFICES ASSUME WorkersAssumption, Init PROVE TypeOK
  OBVIOUS
<1>1. workers \in Line!Lines(Procs)
  <2>1. workers \in [{} -> SUBSET Procs]
    BY DEF Init, Line!EmptyLine
  <2>. QED BY <2>1 DEF Line!Lines
<1>2. abandoned \in Seq(Nodes) /\ Len(abandoned) = 0
  BY DEF Init
<1>3. stopper \in Stoppers /\ sweep \in Sweeps
  BY DEF Init, Idle, Resting, Stoppers, Sweeps
<1>4. unanswered \in [Procs -> 0..Allowed] /\ stops \in 0..Events
  BY DEF Init, WorkersAssumption
<1>5. Len(abandoned) <= Remembered
  BY <1>2 DEF WorkersAssumption
<1>. QED BY <1>1, <1>2, <1>3, <1>4, <1>5 DEF Init, TypeOK, NodeStates, Stoppers, Sweeps

LEMMA SpawnTypes ==
  ASSUME WorkersAssumption, TypeOK, NEW p \in Procs, Spawns(p) \/ NoticeExit(p)
  PROVE  TypeOK'
<1>. USE DEF TypeOK, joining, gates, nodes, requests, counts
<1>1. CASE ClaimSpawn(p)
  <2>1. CASE EndTask(p) /\ UNCHANGED claim
    BY <1>1, <2>1 DEF ClaimSpawn, EndTask
  <2>2. CASE claim' = p /\ task' = [task EXCEPT ![p] = "spawning"] /\ UNCHANGED requested
    BY <1>1, <2>2 DEF ClaimSpawn
  <2>. QED BY <1>1, <2>1, <2>2 DEF ClaimSpawn
<1>2. CASE RefuseCommand(p)
  BY <1>2 DEF RefuseCommand, EndTask, Opened
<1>3. CASE Fork(p)
  BY <1>3 DEF Fork
<1>4. CASE ForkFails(p)
  BY <1>4 DEF ForkFails, EndTask, FreeClaim, Opened
<1>5. CASE RecordProcess(p)
  BY <1>5 DEF RecordProcess, EndTask, FreeClaim
<1>6. CASE NoticeExit(p)
  BY <1>6 DEF NoticeExit, Opened
<1>. QED BY <1>1, <1>2, <1>3, <1>4, <1>5, <1>6 DEF Spawns

LEMMA WorkerTypes ==
  ASSUME WorkersAssumption, TypeOK, NEW p \in Procs, WorkerActs(p) \/ Challenge(p)
  PROVE  TypeOK'
<1>. USE DEF TypeOK, spawning, joining, gates, nodes, requests, counts, WorkersAssumption
<1>1. CASE AnswerChallenge(p)
  BY <1>1 DEF AnswerChallenge
<1>2. CASE Exit(p)
  BY SMTT(60), <1>2 DEF Exit
<1>3. CASE LeaveCleanly(p)
  BY <1>3 DEF LeaveCleanly
<1>4. CASE Challenge(p)
  BY SMTT(60), <1>4 DEF Challenge
<1>. QED BY <1>1, <1>2, <1>3, <1>4 DEF WorkerActs

(* Forgetting some workers keeps the types of the line and of the counts. *)
LEMMA ForgetTypes ==
  ASSUME WorkersAssumption, TypeOK, NEW W, Forget(W)
  PROVE  /\ workers' \in Line!Lines(Procs)
         /\ unanswered' \in [Procs -> 0..Allowed]
<1>1. workers' \in Line!Lines(Procs)
  BY WorkersLine DEF TypeOK, Forget
<1>2. unanswered' \in [Procs -> 0..Allowed]
  BY DEF TypeOK, Forget, WorkersAssumption
<1>. QED BY <1>1, <1>2

LEMMA JoinTypes ==
  ASSUME WorkersAssumption, TypeOK, NEW p \in Procs,
         Register(p) \/ HearLoad(p) \/ Unregister(p) \/ FinishUnregister(p)
  PROVE  TypeOK'
<1>. USE DEF spawning, gates, nodes, requests, counts
<1>1. CASE Register(p)
  <2>1. workers' \in Line!Lines(Procs)
    BY <1>1, WorkersLine DEF Register, TypeOK
  <2>. QED BY <1>1, <2>1 DEF Register, TypeOK
<1>2. CASE HearLoad(p)
  BY <1>2 DEF HearLoad, Opened, TypeOK
<1>3. CASE Unregister(p)
  <2>1. workers' \in Line!Lines(Procs) /\ unanswered' \in [Procs -> 0..Allowed]
    BY <1>3, ForgetTypes DEF Unregister
  <2>2. /\ goodbyes' = goodbyes \ {p}
        /\ stage' \in [Procs -> {"booting", "loading", "serving", "silent", "leaving"}]
        /\ UNCHANGED <<spawning, gates, stopper, sweep, nodes, requests, counts>>
    BY <1>3 DEF Unregister, TypeOK
  <2>. QED BY SMTT(60), <2>1, <2>2 DEF TypeOK
<1>4. CASE FinishUnregister(p)
  BY <1>4 DEF FinishUnregister, Opened, TypeOK
<1>. QED BY <1>1, <1>2, <1>3, <1>4

(* Failing the requests of some workers keeps the types of what it sets. *)
LEMMA FailTypes ==
  ASSUME WorkersAssumption, TypeOK, NEW W, FailRequestsOf(W)
  PROVE  /\ node' \in [Nodes -> NodeStates]
         /\ pending' \cup forgotten' \subseteq Nodes
         /\ abandoned' \in Seq(Nodes) /\ Len(abandoned') <= Remembered
<1>. DEFINE failed == {n \in pending : target[n] \in W}
<1>1. failed \in SUBSET Nodes /\ Remember(failed)
  BY DEF FailRequestsOf, TypeOK, NodeStates, Stoppers
<1>. HIDE DEF failed
<1>2. /\ abandoned' \in Seq(Nodes) /\ Len(abandoned') <= Remembered
      /\ forgotten' \subseteq Nodes
  BY <1>1, RememberEffect DEF TypeOK
<1>3. /\ node' \in [Nodes -> NodeStates]
      /\ pending' \subseteq Nodes
  BY DEF FailRequestsOf, TypeOK, NodeStates, Stoppers
<1>. QED BY <1>2, <1>3

LEMMA EvictionTypes ==
  ASSUME WorkersAssumption, TypeOK, Evictions
  PROVE  TypeOK'
<1>. USE DEF spawning, joining, gates, nodes, requests, counts
<1>1. CASE EvictProcess
  <2>1. /\ managed' \in Procs \cup {None}
        /\ proc' \in [Procs -> {"unborn", "live", "told", "gone"}]
    BY <1>1 DEF EvictProcess, Tell, TypeOK
  <2>2. sweep \in Sweeps /\ managed \in Procs \cup {None}
    BY DEF TypeOK, Sweeps
  <2>3. /\ [sweep EXCEPT !.at = "terminating", !.victim = managed] \in Sweeps
        /\ [sweep EXCEPT !.at = "terminating"] \in Sweeps
    BY <2>2 DEF Sweeps
  <2>4. sweep' \in Sweeps
    BY <1>1, <2>3 DEF EvictProcess
  <2>5. UNCHANGED <<task, requested, claim, joining, gates, stopper, nodes, requests, counts>>
    BY <1>1 DEF EvictProcess
  <2>. QED BY SMTT(60), <2>1, <2>4, <2>5 DEF TypeOK, Sweeps
<1>2. CASE FinishEviction
  <2>1. /\ node' \in [Nodes -> NodeStates]
        /\ pending' \cup forgotten' \subseteq Nodes
        /\ abandoned' \in Seq(Nodes) /\ Len(abandoned') <= Remembered
    BY <1>2, FailTypes DEF FinishEviction
  <2>2. opened' \subseteq Procs
    BY <1>2 DEF FinishEviction, Opened, TypeOK
  <2>3. sweep' = Resting \/ sweep' = [Resting EXCEPT !.at = "evicting", !.todo = sweep.todo]
    BY <1>2 DEF FinishEviction
  <2>. QED BY <1>2, <2>1, <2>2, <2>3 DEF FinishEviction, TypeOK, Resting, NodeStates, Stoppers
<1>3. ASSUME NEW p \in Procs, NEW todo \in SUBSET Procs, Evicting(p, todo)
      PROVE  TypeOK'
  <2>1. workers' \in Line!Lines(Procs) /\ unanswered' \in [Procs -> 0..Allowed]
    BY <1>3, ForgetTypes DEF Evicting
  <2>2. sweep' \in Sweeps
    <3>1. (p \in Registered) \in BOOLEAN
      OBVIOUS
    <3>2. sweep' = [at |-> "unsubscribing", todo |-> todo \ {p}, wid |-> p,
                    known |-> p \in Registered, victim |-> None]
      BY <1>3 DEF Evicting, Resting
    <3>3. \A b \in BOOLEAN :
            [at |-> "unsubscribing", todo |-> todo \ {p}, wid |-> p,
             known |-> b, victim |-> None] \in Sweeps
      BY <1>3 DEF Sweeps
    <3>. QED BY <3>1, <3>2, <3>3
  <2>. QED BY <1>3, <2>1, <2>2 DEF Evicting, TypeOK, Sweeps
<1>4. Unanswering \in SUBSET Procs /\ sweep.todo \in SUBSET Procs
  BY WorkersLine DEF Unanswering, TypeOK, Registered
<1>. QED BY <1>1, <1>2, <1>3, <1>4 DEF Evictions, BeginSweep, EvictNext

LEMMA StopTypes ==
  ASSUME WorkersAssumption, TypeOK, NEW kind \in {"reset", "reload"}, BeginStop(kind)
  PROVE  /\ task' \in [Procs -> {"none", "asked", "spawning", "forked", "ended"}]
         /\ {requested', managed'} \subseteq Procs \cup {None}
         /\ proc' \in [Procs -> {"unborn", "live", "told", "gone"}]
         /\ stopper' \in Stoppers
  BY DEF BeginStop, WithdrawRequest, Withdrawn, Tell, Idle, TypeOK, NodeStates, Stoppers

LEMMA ResetTypes ==
  ASSUME WorkersAssumption, TypeOK, StartWorker \/ ResetLibrary \/ ReloadLibraries \/ StopGoesOn
  PROVE  TypeOK'
<1>. USE DEF spawning, joining, gates, nodes, requests, counts
<1>1. CASE StartWorker
  BY <1>1 DEF StartWorker, TypeOK
<1>2. CASE ResetLibrary
  <2>1. stops' \in 0..Events
    BY <1>2, CountsBounded DEF ResetLibrary
  <2>2. opened' \subseteq Procs
    BY <1>2 DEF ResetLibrary, BeginReset, Opened, TypeOK
  <2>3. CASE claim = None
    <3>1. BeginStop("reset")
      BY <1>2, <2>3 DEF ResetLibrary, BeginReset
    <3>2. /\ task' \in [Procs -> {"none", "asked", "spawning", "forked", "ended"}]
          /\ {requested', managed'} \subseteq Procs \cup {None}
          /\ proc' \in [Procs -> {"unborn", "live", "told", "gone"}]
          /\ stopper' \in Stoppers
      BY <3>1, StopTypes
    <3>3. UNCHANGED <<claim, joining, gate, sweep, nodes, requests, strays, disturbed>>
      BY <1>2 DEF ResetLibrary
    <3>. QED BY SMTT(60), <2>1, <2>2, <3>2, <3>3 DEF TypeOK, Stoppers
  <2>4. CASE claim # None
    <3>1. stopper' = [at |-> "waiting", kind |-> "reset", victim |-> claim, ids |-> {}]
      BY <1>2, <2>4 DEF ResetLibrary, Idle
    <3>2. stopper' \in Stoppers
      BY <3>1 DEF TypeOK, Stoppers
    <3>. QED BY SMTT(60), <1>2, <2>1, <2>4, <3>2 DEF ResetLibrary, TypeOK, NodeStates, Stoppers
  <2>. QED BY <2>3, <2>4
<1>3. CASE ReloadLibraries
  <2>1. stops' \in 0..Events
    BY <1>3, CountsBounded DEF ReloadLibraries
  <2>2. /\ abandoned' \in Seq(Nodes) /\ Len(abandoned') <= Remembered
        /\ forgotten' \subseteq Nodes
    BY <1>3, RememberEffect DEF ReloadLibraries, TypeOK, NodeStates, Stoppers
  <2>3. /\ node' \in [Nodes -> NodeStates]
        /\ waitsOn' \in [Nodes -> Procs \cup {None}]
    BY <1>3 DEF ReloadLibraries, TypeOK, NodeStates, Stoppers
  <2>4. BeginStop("reload")
    BY <1>3 DEF ReloadLibraries
  <2>5. /\ task' \in [Procs -> {"none", "asked", "spawning", "forked", "ended"}]
        /\ {requested', managed'} \subseteq Procs \cup {None}
        /\ proc' \in [Procs -> {"unborn", "live", "told", "gone"}]
        /\ stopper' \in Stoppers
    BY <2>4, StopTypes
  <2>6. /\ gate' = None /\ pending' = {}
        /\ UNCHANGED <<claim, joining, opened, sweep, target, sent, replies, relayed, strays, disturbed>>
    BY <1>3 DEF ReloadLibraries
  <2>. QED BY SMTT(60), <2>1, <2>2, <2>3, <2>5, <2>6 DEF TypeOK, NodeStates, Stoppers
<1>4. CASE ClaimReleased
  <2>1. opened' \subseteq Procs
    BY <1>4 DEF ClaimReleased, BeginReset, Opened, TypeOK
  <2>2. BeginStop("reset")
    BY <1>4 DEF ClaimReleased, BeginReset
  <2>3. /\ task' \in [Procs -> {"none", "asked", "spawning", "forked", "ended"}]
        /\ {requested', managed'} \subseteq Procs \cup {None}
        /\ proc' \in [Procs -> {"unborn", "live", "told", "gone"}]
        /\ stopper' \in Stoppers
    BY <2>2, StopTypes
  <2>4. UNCHANGED <<claim, joining, gate, sweep, nodes, requests, counts>>
    BY <1>4 DEF ClaimReleased
  <2>. QED BY SMTT(60), <2>1, <2>3, <2>4 DEF TypeOK, Stoppers
<1>5. CASE FailTheirRequests
  <2>1. /\ node' \in [Nodes -> NodeStates]
        /\ pending' \cup forgotten' \subseteq Nodes
        /\ abandoned' \in Seq(Nodes) /\ Len(abandoned') <= Remembered
    BY <1>5, FailTypes DEF FailTheirRequests
  <2>2. Registered \subseteq Procs
    BY WorkersLine DEF Registered, TypeOK
  <2>. QED BY <1>5, <2>1, <2>2 DEF FailTheirRequests, TypeOK, NodeStates, Stoppers
<1>6. CASE FinishReset
  <2>1. workers' \in Line!Lines(Procs) /\ unanswered' \in [Procs -> 0..Allowed]
    BY <1>6, ForgetTypes DEF FinishReset
  <2>. QED BY <1>6, <2>1 DEF FinishReset, Opened, Idle, TypeOK, NodeStates, Stoppers
<1>7. CASE FinishReload
  <2>1. workers' \in Line!Lines(Procs) /\ unanswered' \in [Procs -> 0..Allowed]
    BY <1>7, ForgetTypes DEF FinishReload
  <2>. QED BY SMTT(60), <1>7, <2>1 DEF FinishReload, Idle, TypeOK, NodeStates, Stoppers
<1>. QED BY <1>1, <1>2, <1>3, <1>4, <1>5, <1>6, <1>7 DEF StopGoesOn

(* Picking a worker, or finding none, keeps the types of the nodes. *)
LEMMA PickTypes ==
  ASSUME TypeOK, NEW n \in Nodes, Picks(n)
  PROVE  /\ node' \in [Nodes -> NodeStates]
         /\ target' \in [Nodes -> Procs \cup {None}]
<1>1. Line!Heads(workers) \subseteq Procs
  BY WorkersLine DEF TypeOK
<1>2. ASSUME NEW p \in Line!Heads(workers), target' = [target EXCEPT ![n] = p]
      PROVE  target' \in [Nodes -> Procs \cup {None}]
  BY <1>1, <1>2 DEF TypeOK
<1>3. node' \in [Nodes -> NodeStates]
  BY DEF Picks, TypeOK, NodeStates, Stoppers
<1>. QED BY <1>2, <1>3 DEF Picks, TypeOK, NodeStates, Stoppers

LEMMA NodeTypes ==
  ASSUME WorkersAssumption, TypeOK, NEW n \in Nodes, NodeActs(n)
  PROVE  TypeOK'
<1>. USE DEF spawning, joining, gates, counts
<1>1. CASE RunNode(n)
  <2>1. CASE Picks(n) /\ UNCHANGED waitsOn
    <3>1. node' \in [Nodes -> NodeStates] /\ target' \in [Nodes -> Procs \cup {None}]
      BY <2>1, PickTypes
    <3>. QED BY <1>1, <2>1, <3>1 DEF RunNode, requests, TypeOK, NodeStates
  <2>2. CASE ~(Picks(n) /\ UNCHANGED waitsOn)
    <3>1. /\ node' = [node EXCEPT ![n] = "waiting"]
          /\ waitsOn' = [waitsOn EXCEPT ![n] = gate]
          /\ UNCHANGED target
      BY <1>1, <2>2 DEF RunNode
    <3>. QED BY <1>1, <3>1 DEF RunNode, requests, TypeOK, NodeStates
  <2>. QED BY <2>1, <2>2
<1>2. CASE StopWaiting(n)
  <2>1. /\ node' \in [Nodes -> NodeStates]
        /\ target' \in [Nodes -> Procs \cup {None}]
    BY SMTT(60), <1>2, PickTypes DEF StopWaiting, TypeOK, NodeStates, Stoppers
  <2>2. /\ waitsOn' = [waitsOn EXCEPT ![n] = None]
        /\ UNCHANGED <<spawning, joining, gates, stopper, sweep, requests, counts>>
    BY <1>2 DEF StopWaiting
  <2>. QED BY SMTT(60), <2>1, <2>2 DEF requests, TypeOK, NodeStates, Stoppers
<1>3. CASE Route(n)
  BY <1>3 DEF Route, TypeOK
<1>4. CASE RouteFails(n)
  <2>1. /\ abandoned' \in Seq(Nodes) /\ Len(abandoned') <= Remembered
        /\ forgotten' \subseteq Nodes
    <3>. DEFINE S == {n}
    <3>1. S \in SUBSET Nodes /\ Remember(S)
      BY <1>4 DEF RouteFails
    <3>. HIDE DEF S
    <3>. QED BY <3>1, RememberEffect DEF TypeOK
  <2>. QED BY <1>4, <2>1 DEF RouteFails, TypeOK
<1>5. CASE CancelNode(n)
  <2>1. /\ abandoned' \in Seq(Nodes) /\ Len(abandoned') <= Remembered
        /\ forgotten' \subseteq Nodes
    <3>. DEFINE S == pending \cap {n}
    <3>1. S \in SUBSET Nodes /\ Remember(S)
      BY <1>5 DEF CancelNode, TypeOK
    <3>. HIDE DEF S
    <3>. QED BY <3>1, RememberEffect DEF TypeOK
  <2>. QED BY <1>5, <2>1 DEF CancelNode, TypeOK
<1>6. CASE AnswerNode(n)
  BY <1>6 DEF AnswerNode, nodes, TypeOK
<1>7. CASE HearReply(n)
  <2>1. ASSUME NEW i \in DOMAIN abandoned
        PROVE  RemoveAt(abandoned, i) \in Seq(Nodes) /\ Len(RemoveAt(abandoned, i)) <= Remembered
    <3>1. abandoned \in Seq(Nodes) /\ i \in 1..Len(abandoned)
      BY <2>1 DEF TypeOK
    <3>2. RemoveAt(abandoned, i) \in Seq(Nodes) /\ Len(RemoveAt(abandoned, i)) < Len(abandoned)
      BY <3>1, RemoveAtEffect
    <3>. QED BY <3>1, <3>2 DEF TypeOK, WorkersAssumption
  <2>2. abandoned' \in Seq(Nodes) /\ Len(abandoned') <= Remembered
    BY <1>7, <2>1 DEF HearReply, TypeOK, NodeStates, Stoppers
  <2>3. /\ node' \in [Nodes -> NodeStates]
        /\ pending' \cup replies' \cup relayed' \subseteq Nodes
    BY SMTT(60), <1>7 DEF HearReply, TypeOK, NodeStates, Stoppers
  <2>. QED BY SMTT(60), <1>7, <2>2, <2>3 DEF HearReply, TypeOK, NodeStates, Stoppers
<1>. QED BY <1>1, <1>2, <1>3, <1>4, <1>5, <1>6, <1>7 DEF NodeActs

LEMMA StepTypes == WorkersAssumption /\ TypeOK /\ [Next]_vars => TypeOK'
<1>. SUFFICES ASSUME WorkersAssumption, TypeOK, [Next]_vars PROVE TypeOK'
  OBVIOUS
<1>1. CASE UNCHANGED vars
  BY <1>1 DEF TypeOK, vars, spawning, joining, gates, nodes, requests, counts, Registered
<1>. QED BY <1>1, SpawnTypes, WorkerTypes, JoinTypes, EvictionTypes, ResetTypes, NodeTypes
         DEF Next, Handles

(* Every variable keeps its type, no counter passes its bound, and the     *)
(* RequestClient remembers no more given-up requests than its limit.       *)
THEOREM TypeCorrect == Spec => []TypeOK
  BY InitTypes, StepTypes, WorkersAssumption, PTL DEF Spec

-----------------------------------------------------------------------------
(* What the records say of the processes that run.                          *)

LEMMA InitRecorded == WorkersAssumption /\ Init => Recorded
  BY DEF Init, Recorded, Running, None

LEMMA SpawnRecorded ==
  ASSUME WorkersAssumption, TypeOK, Recorded, NEW p \in Procs, Spawns(p) \/ NoticeExit(p)
  PROVE  Recorded'
<1>. USE Attempted DEF Recorded, Running, TypeOK, joining, counts
<1>1. CASE ClaimSpawn(p)
  <2>1. CASE EndTask(p) /\ UNCHANGED claim
    BY <1>1, <2>1 DEF ClaimSpawn, EndTask
  <2>2. CASE managed = None /\ claim = None /\ claim' = p
             /\ task' = [task EXCEPT ![p] = "spawning"]
    BY SMTT(60), <1>1, <2>2 DEF ClaimSpawn
  <2>. QED BY <1>1, <2>1, <2>2 DEF ClaimSpawn
<1>2. CASE RefuseCommand(p)
  BY <1>2 DEF RefuseCommand, EndTask
<1>3. CASE Fork(p)
  BY SMTT(60), <1>3 DEF Fork
<1>4. CASE ForkFails(p)
  BY SMTT(60), <1>4 DEF ForkFails, EndTask, FreeClaim
<1>5. CASE RecordProcess(p)
  BY <1>5 DEF RecordProcess, EndTask, FreeClaim
<1>6. CASE NoticeExit(p)
  BY <1>6 DEF NoticeExit
<1>. QED BY <1>1, <1>2, <1>3, <1>4, <1>5, <1>6 DEF Spawns

LEMMA WorkerRecorded ==
  ASSUME WorkersAssumption, TypeOK, Recorded, NEW p \in Procs,
         WorkerActs(p) \/ Challenge(p) \/ Handles(p)
  PROVE  Recorded'
<1>. USE Attempted DEF Recorded, Running, TypeOK, spawning, joining, counts
<1>1. CASE AnswerChallenge(p)
  BY <1>1 DEF AnswerChallenge
<1>2. CASE Exit(p)
  BY SMTT(60), <1>2 DEF Exit
<1>3. CASE LeaveCleanly(p)
  BY SMTT(60), <1>3 DEF LeaveCleanly
<1>4. CASE Challenge(p)
  BY <1>4 DEF Challenge
<1>5. CASE Register(p)
  BY <1>5 DEF Register
<1>6. CASE HearLoad(p)
  BY SMTT(60), <1>6 DEF HearLoad
<1>7. CASE Unregister(p)
  BY <1>7 DEF Unregister
<1>8. CASE FinishUnregister(p)
  BY SMTT(60), <1>8 DEF FinishUnregister
<1>9. CASE NoticeExit(p)
  BY <1>9, SpawnRecorded
<1>. QED BY <1>1, <1>2, <1>3, <1>4, <1>5, <1>6, <1>7, <1>8, <1>9 DEF WorkerActs, Handles

(* A stop drops the recorded process from the records and tells it to stop. *)
LEMMA StopRecorded ==
  ASSUME WorkersAssumption, TypeOK, Recorded, NEW kind, BeginStop(kind),
         UNCHANGED <<claim, strays, goodbyes, stage>>
  PROVE  Recorded'
  BY SMTT(60), Attempted DEF BeginStop, WithdrawRequest, Withdrawn, Tell, Recorded, Running, TypeOK

LEMMA ResetRecorded ==
  ASSUME WorkersAssumption, TypeOK, Recorded,
         StartWorker \/ ResetLibrary \/ ReloadLibraries \/ StopGoesOn \/ Evictions
  PROVE  Recorded'
<1>. USE Attempted DEF spawning, joining, counts
<1>1. CASE StartWorker
  BY <1>1 DEF StartWorker, Recorded, Running, TypeOK
<1>2. CASE ResetLibrary
  <2>1. CASE claim = None
    BY <1>2, <2>1, StopRecorded DEF ResetLibrary, BeginReset
  <2>2. CASE claim # None
    BY <1>2, <2>2 DEF ResetLibrary, Recorded, Running
  <2>. QED BY <2>1, <2>2
<1>3. CASE ReloadLibraries
  BY <1>3, StopRecorded DEF ReloadLibraries
<1>4. CASE ClaimReleased
  BY <1>4, StopRecorded DEF ClaimReleased, BeginReset
<1>5. CASE FailTheirRequests
  BY <1>5 DEF FailTheirRequests, Recorded, Running
<1>6. CASE FinishReset
  BY <1>6 DEF FinishReset, Recorded, Running
<1>7. CASE FinishReload
  BY <1>7 DEF FinishReload, Recorded, Running, TypeOK
<1>8. CASE EvictProcess
  <2>1. CASE sweep.known
    <3>1. /\ managed' = None
          /\ proc' = [q \in Procs |-> IF q = managed /\ proc[q] = "live" THEN "told" ELSE proc[q]]
          /\ UNCHANGED <<task, claim, strays, goodbyes, stage>>
      BY <1>8, <2>1 DEF EvictProcess, Tell
    <3>2. \A q \in Procs : proc'[q] = "live" => proc[q] = "live" /\ q # managed
      BY <3>1
    <3>3. \A q \in Procs : proc[q] \in {"unborn", "gone"} => proc'[q] = proc[q]
      BY <3>1
    <3>. QED BY <3>1, <3>2, <3>3 DEF Recorded, Running
  <2>2. CASE ~sweep.known
    BY <1>8, <2>2 DEF EvictProcess, Recorded, Running
  <2>. QED BY <2>1, <2>2
<1>9. CASE FinishEviction
  BY <1>9 DEF FinishEviction, Recorded, Running
<1>10. ASSUME NEW p \in Procs, BeginSweep(p) \/ EvictNext(p) PROVE Recorded'
  BY <1>10 DEF BeginSweep, EvictNext, Evicting, Recorded, Running
<1>. QED BY <1>1, <1>2, <1>3, <1>4, <1>5, <1>6, <1>7, <1>8, <1>9, <1>10
         DEF StopGoesOn, Evictions

(* What a node does leaves the processes and their records alone. *)
LEMMA NodesApart ==
  ASSUME NEW n \in Nodes, NodeActs(n)
  PROVE  UNCHANGED <<spawning, joining, gates, stopper, sweep, counts>>
  BY DEF NodeActs, RunNode, StopWaiting, Route, RouteFails, CancelNode, AnswerNode, HearReply

LEMMA StepRecorded ==
  WorkersAssumption /\ TypeOK /\ Recorded /\ [Next]_vars => Recorded'
<1>. SUFFICES ASSUME WorkersAssumption, TypeOK, Recorded, [Next]_vars PROVE Recorded'
  OBVIOUS
<1>1. CASE UNCHANGED vars
  BY <1>1 DEF Recorded, Running, vars, spawning, joining, counts
<1>2. ASSUME NEW n \in Nodes, NodeActs(n) PROVE Recorded'
  BY <1>2, NodesApart DEF Recorded, Running, spawning, joining, counts
<1>. QED BY <1>1, <1>2, SpawnRecorded, WorkerRecorded, ResetRecorded DEF Next

LEMMA RecordedAlways == Spec => [](TypeOK /\ Recorded)
<1>1. Init => TypeOK /\ Recorded
  BY InitTypes, InitRecorded, WorkersAssumption
<1>2. TypeOK /\ Recorded /\ [Next]_vars => TypeOK' /\ Recorded'
  BY StepTypes, StepRecorded, WorkersAssumption
<1>. QED BY <1>1, <1>2, PTL DEF Spec

(* At most one process runs that was not told to stop and that the records *)
(* have not lost, however starts, refusals, failed forks, exits, goodbyes, *)
(* evictions, resets and reloads interleave.                               *)
THEOREM OneTrackedProcess == Spec => []ForksCounted
<1>1. TypeOK /\ Recorded => ForksCounted
  <2>. SUFFICES ASSUME TypeOK, Recorded, NEW p \in Running, NEW q \in Running, p # q,
                       p \notin strays, q \notin strays
                PROVE  FALSE
    BY DEF ForksCounted
  <2>1. {p, q} = {managed, claim}
    BY DEF Recorded
  <2>2. p # None /\ q # None
    BY Attempted, WorkersAssumption DEF Running
  <2>3. managed \in strays
    BY <2>1, <2>2 DEF Recorded
  <2>. QED BY <2>1, <2>3
<1>. QED BY <1>1, RecordedAlways, PTL

-----------------------------------------------------------------------------
(* Where the request of an answer is remembered.                            *)

(* Whatever is given up of what is tracked is remembered or forgotten, so  *)
(* every answer's request stays known.                                     *)
LEMMA GiveUpKeepsAnswers ==
  ASSUME WorkersAssumption, TypeOK, AnswersKnown, NEW S \in SUBSET Nodes, Remember(S),
         pending \ S \subseteq pending', pending' \subseteq pending,
         \A n \in Nodes : node'[n] \in {"idle", "waiting", "picked"} => node'[n] = node[n],
         UNCHANGED <<sent, replies, relayed>>
  PROVE  AnswersKnown'
<1>1. forgotten \subseteq forgotten' /\ S \cup ToSet(abandoned) \subseteq ToSet(abandoned') \cup forgotten'
  BY RememberEffect DEF TypeOK
<1>. QED BY <1>1 DEF AnswersKnown, LateRepliesDropped

LEMMA FailKeepsAnswers ==
  ASSUME WorkersAssumption, TypeOK, AnswersKnown, NEW W, FailRequestsOf(W),
         UNCHANGED <<sent, replies, relayed>>
  PROVE  AnswersKnown'
<1>. DEFINE failed == {n \in pending : target[n] \in W}
<1>1. failed \in SUBSET Nodes /\ Remember(failed) /\ pending' = pending \ failed
  BY DEF FailRequestsOf, TypeOK
<1>2. \A n \in Nodes : node'[n] \in {"idle", "waiting", "picked"} => node'[n] = node[n]
  BY DEF FailRequestsOf
<1>. HIDE DEF failed
<1>. QED BY <1>1, <1>2, GiveUpKeepsAnswers

LEMMA NodeKeepsAnswers ==
  ASSUME WorkersAssumption, TypeOK, AnswersKnown, NEW n \in Nodes, NodeActs(n)
  PROVE  AnswersKnown'
<1>. USE DEF nodes, requests, counts
<1>1. CASE RunNode(n) \/ StopWaiting(n)
  <2>1. node[n] \in {"idle", "waiting"}
        /\ \A m \in Nodes \ {n} : node'[m] = node[m]
    BY <1>1 DEF RunNode, StopWaiting, Picks, TypeOK
  <2>2. UNCHANGED requests
    BY <1>1 DEF RunNode, StopWaiting
  <2>. QED BY <2>1, <2>2 DEF AnswersKnown, LateRepliesDropped
<1>2. CASE Route(n)
  BY <1>2 DEF Route, AnswersKnown, LateRepliesDropped, TypeOK
<1>3. CASE RouteFails(n)
  <2>. DEFINE S == {n}
  <2>1. S \in SUBSET Nodes /\ Remember(S) /\ UNCHANGED <<pending, sent, replies, relayed>>
    BY <1>3 DEF RouteFails
  <2>2. \A m \in Nodes : node'[m] \in {"idle", "waiting", "picked"} => node'[m] = node[m]
    BY <1>3 DEF RouteFails, TypeOK
  <2>. HIDE DEF S
  <2>. QED BY <2>1, <2>2, GiveUpKeepsAnswers
<1>4. CASE CancelNode(n)
  <2>. DEFINE S == pending \cap {n}
  <2>1. S \in SUBSET Nodes /\ Remember(S) /\ pending' = pending \ S
        /\ UNCHANGED <<sent, replies, relayed>>
    BY <1>4 DEF CancelNode, TypeOK
  <2>2. \A m \in Nodes : node'[m] \in {"idle", "waiting", "picked"} => node'[m] = node[m]
    BY <1>4 DEF CancelNode, TypeOK
  <2>. HIDE DEF S
  <2>. QED BY <2>1, <2>2, GiveUpKeepsAnswers
<1>5. CASE AnswerNode(n)
  BY <1>5 DEF AnswerNode, AnswersKnown, LateRepliesDropped
<1>6. CASE HearReply(n)
  <2>1. \A m \in sent' \cup replies' : m \in sent \cup replies /\ m # n
    BY <1>6 DEF HearReply, AnswersKnown
  <2>2. ASSUME NEW i \in DOMAIN abandoned, abandoned[i] = n, abandoned' = RemoveAt(abandoned, i)
        PROVE  ToSet(abandoned) \ {n} \subseteq ToSet(abandoned')
    <3>1. abandoned \in Seq(Nodes) /\ i \in 1..Len(abandoned)
      BY <2>2 DEF TypeOK
    <3>. QED BY <2>2, <3>1, RemoveAtEffect
  <2>3. ToSet(abandoned) \ {n} \subseteq ToSet(abandoned')
    BY <1>6, <2>2 DEF HearReply
  <2>4. pending \ {n} \subseteq pending' /\ pending' \subseteq pending
        /\ \A m \in Nodes : node'[m] \in {"idle", "waiting", "picked"} => node'[m] = node[m]
    BY <1>6 DEF HearReply, TypeOK
  <2>5. sent' = sent /\ replies' = replies \ {n} /\ forgotten' = forgotten /\ n \in replies
    BY <1>6 DEF HearReply
  <2>6. relayed' \subseteq forgotten'
    <3>1. n \in pending \cup ToSet(abandoned) \cup forgotten
      BY <2>5 DEF AnswersKnown
    <3>2. relayed' = relayed \/ (relayed' = relayed \cup {n} /\ n \notin ToSet(abandoned) \cup pending)
      BY <1>6 DEF HearReply
    <3>. QED BY <2>5, <3>1, <3>2 DEF AnswersKnown, LateRepliesDropped
  <2>. QED BY <2>1, <2>3, <2>4, <2>5, <2>6 DEF AnswersKnown, LateRepliesDropped
<1>. QED BY <1>1, <1>2, <1>3, <1>4, <1>5, <1>6 DEF NodeActs

LEMMA StepKeepsAnswers ==
  WorkersAssumption /\ TypeOK /\ AnswersKnown /\ [Next]_vars => AnswersKnown'
<1>. SUFFICES ASSUME WorkersAssumption, TypeOK, AnswersKnown, [Next]_vars PROVE AnswersKnown'
  OBVIOUS
<1>1. CASE UNCHANGED <<node, requests>>
  BY <1>1 DEF AnswersKnown, LateRepliesDropped, requests
<1>2. ASSUME NEW p \in Procs, Spawns(p) \/ WorkerActs(p) \/ Handles(p) \/ Challenge(p)
      PROVE  UNCHANGED <<node, requests>>
  BY <1>2 DEF Spawns, ClaimSpawn, RefuseCommand, Fork, ForkFails, RecordProcess,
              WorkerActs, AnswerChallenge, Exit, LeaveCleanly, Challenge,
              Handles, Register, HearLoad, Unregister, FinishUnregister, NoticeExit, nodes
<1>3. CASE StartWorker \/ ResetLibrary
  BY <1>1, <1>3 DEF StartWorker, ResetLibrary, nodes
<1>4. CASE ReloadLibraries
  <2>1. pending \in SUBSET Nodes /\ Remember(pending) /\ pending' = {}
        /\ UNCHANGED <<sent, replies, relayed>>
    BY <1>4 DEF ReloadLibraries, TypeOK
  <2>2. \A n \in Nodes : node'[n] \in {"idle", "waiting", "picked"} => node'[n] = node[n]
    BY <1>4 DEF ReloadLibraries
  <2>. QED BY <2>1, <2>2, GiveUpKeepsAnswers
<1>5. CASE StopGoesOn
  <2>1. CASE FailTheirRequests
    BY <2>1, FailKeepsAnswers DEF FailTheirRequests
  <2>2. CASE ClaimReleased \/ FinishReset \/ FinishReload
    BY <1>1, <2>2 DEF ClaimReleased, FinishReset, FinishReload, nodes
  <2>. QED BY <1>5, <2>1, <2>2 DEF StopGoesOn
<1>6. CASE Evictions
  <2>1. CASE FinishEviction
    BY <2>1, FailKeepsAnswers DEF FinishEviction
  <2>2. CASE EvictProcess
    BY <1>1, <2>2 DEF EvictProcess, nodes
  <2>3. ASSUME NEW p \in Procs, BeginSweep(p) \/ EvictNext(p) PROVE UNCHANGED <<node, requests>>
    BY <2>3 DEF BeginSweep, EvictNext, Evicting, nodes
  <2>. QED BY <1>1, <1>6, <2>1, <2>2, <2>3 DEF Evictions
<1>7. CASE UNCHANGED vars
  BY <1>1, <1>7 DEF vars, nodes
<1>. QED BY <1>1, <1>2, <1>3, <1>4, <1>5, <1>6, <1>7, NodeKeepsAnswers DEF Next

(* A late answer to a request the RequestClient gave up is dropped, never  *)
(* relayed to the GUI, while it remembers that request.                    *)
THEOREM LateAnswersDropped == Spec => []LateRepliesDropped
<1>1. Init => TypeOK /\ AnswersKnown
  <2>1. Init => AnswersKnown
    BY DEF Init, AnswersKnown, LateRepliesDropped
  <2>. QED BY <2>1, InitTypes, WorkersAssumption
<1>2. TypeOK /\ AnswersKnown /\ [Next]_vars => TypeOK' /\ AnswersKnown'
  BY StepTypes, StepKeepsAnswers, WorkersAssumption
<1>3. AnswersKnown => LateRepliesDropped
  BY DEF AnswersKnown
<1>. QED BY <1>1, <1>2, <1>3, PTL DEF Spec

-----------------------------------------------------------------------------
(* What a reset leaves.                                                     *)

LEMMA InitStop == WorkersAssumption /\ Init => StopInv
  BY DEF Init, StopInv, StopShape, Calm, TasksNamed, ResetAlone, Active, Idle, None

(* A step of a spawn keeps the tasks named, and a reset alone. *)
LEMMA SpawnStop ==
  ASSUME WorkersAssumption, TypeOK, StopInv, NEW p \in Procs, Spawns(p) \/ NoticeExit(p)
  PROVE  StopInv'
<1>1. UNCHANGED <<stopper, disturbed>> /\ strays \subseteq strays'
  BY DEF Spawns, ClaimSpawn, RefuseCommand, Fork, ForkFails, RecordProcess, NoticeExit, counts
<1>2. StopShape' /\ (Calm' => Calm)
  BY <1>1 DEF StopInv, StopShape, Calm
<1>. SUFFICES ASSUME Calm, TasksNamed, ResetAlone PROVE TasksNamed' /\ ResetAlone'
  BY <1>2 DEF StopInv
<1>. USE Attempted, <1>1 DEF TasksNamed, ResetAlone, Active, Reloading, TypeOK
<1>3. CASE ClaimSpawn(p)
  <2>1. CASE EndTask(p) /\ UNCHANGED <<claim, managed>>
    BY <2>1, <1>3 DEF ClaimSpawn, EndTask
  <2>2. CASE /\ managed = None /\ claim = None /\ claim' = p
             /\ task' = [task EXCEPT ![p] = "spawning"]
             /\ UNCHANGED <<requested, managed>>
    BY <2>2, <1>3 DEF ClaimSpawn
  <2>. QED BY <1>3, <2>1, <2>2 DEF ClaimSpawn
<1>4. CASE RefuseCommand(p)
  BY <1>4 DEF RefuseCommand, EndTask
<1>5. CASE Fork(p)
  BY <1>5 DEF Fork
<1>6. CASE ForkFails(p)
  BY <1>6 DEF ForkFails, EndTask, FreeClaim
<1>7. CASE RecordProcess(p)
  BY <1>7 DEF RecordProcess, EndTask, FreeClaim
<1>8. CASE NoticeExit(p)
  BY <1>8 DEF NoticeExit
<1>. QED BY <1>3, <1>4, <1>5, <1>6, <1>7, <1>8 DEF Spawns

(* So does a step that leaves the tasks, the request, the claim and the    *)
(* stop alone, and records no process.                                     *)
LEMMA StopFrame ==
  ASSUME StopInv, UNCHANGED <<task, requested, claim, stopper, disturbed>>,
         strays \subseteq strays', managed' \in {managed, None}
  PROVE  StopInv'
<1>1. StopShape' /\ (Calm' => Calm)
  BY DEF StopInv, StopShape, Calm
<1>2. TasksNamed => TasksNamed'
  BY DEF TasksNamed, Reloading
<1>3. ResetAlone => ResetAlone'
  BY DEF ResetAlone
<1>. QED BY <1>1, <1>2, <1>3 DEF StopInv

(* With the tasks named and at most the claim's one still under way, a     *)
(* reset's stop leaves none.                                               *)
LEMMA BeginResetStop ==
  ASSUME WorkersAssumption, TypeOK, StopInv, BeginReset, UNCHANGED <<claim, strays, disturbed>>,
         Calm => claim = None
  PROVE  StopInv'
<1>1. /\ stopper'.at = "terminating" /\ stopper'.kind = "reset"
      /\ requested' = None /\ managed' = None
  BY DEF BeginReset, BeginStop, WithdrawRequest, Idle
<1>2. StopShape' /\ (Calm' => Calm)
  BY <1>1 DEF StopShape, Calm
<1>. SUFFICES ASSUME Calm, TasksNamed, ResetAlone PROVE TasksNamed' /\ ResetAlone'
  BY <1>2 DEF StopInv
<1>3. ASSUME NEW p \in Procs PROVE task'[p] \notin Active
  BY SMTT(60), Attempted DEF BeginReset, BeginStop, WithdrawRequest, Withdrawn, TasksNamed, Active, TypeOK
<1>. QED BY <1>1, <1>3 DEF TasksNamed, ResetAlone, Active

LEMMA ResetStop ==
  ASSUME WorkersAssumption, TypeOK, StopInv,
         StartWorker \/ ResetLibrary \/ ReloadLibraries \/ StopGoesOn
  PROVE  StopInv'
<1>. USE DEF spawning, counts
<1>1. CASE StartWorker
  <2>1. UNCHANGED <<claim, managed, stopper, strays>> /\ requested = None
        /\ StopShape /\ StopShape'
    BY <1>1 DEF StartWorker, RunningOrStarting, StopInv, StopShape
  <2>2. Calm' => Calm /\ stopper.at = "idle"
    BY <1>1 DEF StartWorker, Calm, TypeOK
  <2>3. ASSUME Calm, stopper.at = "idle", TasksNamed PROVE TasksNamed' /\ ResetAlone'
    <3>1. PICK p \in Procs : task' = [task EXCEPT ![p] = "asked"] /\ requested' = p
      BY <1>1 DEF StartWorker
    <3>2. ~Reloading /\ stopper'.at = "idle" /\ stopper'.kind = "none"
      BY <2>1, <2>3 DEF StopShape, Reloading
    <3>3. claim = None /\ \A q \in Procs : task[q] \notin Active
      BY SMTT(60), <2>1, <2>3, <3>2, Attempted DEF TasksNamed, Active, TypeOK
    <3>. QED BY <2>1, <3>1, <3>2, <3>3, Attempted DEF TasksNamed, ResetAlone, Active, TypeOK
  <2>. QED BY <2>1, <2>2, <2>3 DEF StopInv
<1>2. CASE ResetLibrary
  <2>1. CASE claim = None
    BY <1>2, <2>1, BeginResetStop DEF ResetLibrary
  <2>2. CASE claim # None
    <3>1. /\ stopper'.at = "waiting" /\ stopper'.kind = "reset" /\ stopper'.victim = claim
          /\ UNCHANGED <<task, requested, claim, managed, strays, disturbed>>
      BY <1>2, <2>2 DEF ResetLibrary, Idle
    <3>2. StopShape' /\ (Calm' => Calm)
      BY <3>1 DEF StopShape, Calm
    <3>3. ~Reloading
      BY <1>2 DEF ResetLibrary, Reloading, StopInv, StopShape
    <3>4. ASSUME TasksNamed PROVE TasksNamed' /\ ResetAlone'
      BY <2>2, <3>1, <3>3, <3>4 DEF TasksNamed, ResetAlone, Active, TypeOK
    <3>. QED BY <3>2, <3>4 DEF StopInv
  <2>. QED BY <2>1, <2>2
<1>3. CASE ReloadLibraries
  <2>1. /\ stopper'.at = "terminating" /\ stopper'.kind = "reload" /\ requested' = None
        /\ UNCHANGED <<claim, strays, disturbed>>
    BY <1>3 DEF ReloadLibraries, BeginStop, WithdrawRequest, Idle
  <2>2. StopShape' /\ (Calm' => Calm) /\ ResetAlone'
    BY <2>1 DEF StopShape, Calm, ResetAlone
  <2>3. ~Reloading
    BY <1>3 DEF ReloadLibraries, Reloading, StopInv, StopShape
  <2>4. ASSUME TasksNamed PROVE TasksNamed'
    <3>1. CASE Withdrawn
      <4>1. task' = [task EXCEPT ![requested] = "ended"] /\ requested \in Procs /\ claim = None
        BY <1>3, <3>1 DEF ReloadLibraries, BeginStop, WithdrawRequest, Withdrawn, TypeOK
      <4>2. \A p \in Procs : task'[p] \notin Active
        BY <2>3, <2>4, <4>1, Attempted DEF TasksNamed, Active, TypeOK
      <4>. QED BY <2>1, <4>1, <4>2 DEF TasksNamed, Active
    <3>2. CASE ~Withdrawn
      <4>1. task' = task /\ (requested = None \/ claim # None)
        BY <1>3, <3>2 DEF ReloadLibraries, BeginStop, WithdrawRequest, Withdrawn
      <4>2. \A p \in Procs : task[p] # "asked"
        BY <2>3, <2>4, <4>1, Attempted DEF TasksNamed, TypeOK
      <4>. QED BY <2>1, <2>4, <4>1, <4>2 DEF TasksNamed, Reloading
    <3>. QED BY <3>1, <3>2
  <2>. QED BY <2>2, <2>4 DEF StopInv
<1>4. CASE ClaimReleased
  <2>1. ASSUME Calm PROVE claim = None
    <3>1. TasksNamed /\ ResetAlone
      BY <2>1 DEF StopInv
    <3>2. \A p \in Procs : task[p] \notin Active
      BY <1>4, <3>1 DEF ClaimReleased, ResetAlone, Active
    <3>. QED BY <3>1, <3>2 DEF TasksNamed, Active, TypeOK
  <2>. QED BY <1>4, <2>1, BeginResetStop DEF ClaimReleased
<1>5. CASE FailTheirRequests
  <2>1. /\ stopper.at = "terminating" /\ stopper'.at = "unsubscribing"
        /\ stopper'.kind = stopper.kind
        /\ UNCHANGED <<task, requested, claim, managed, strays, disturbed>>
    BY <1>5 DEF FailTheirRequests, TypeOK
  <2>. QED BY <2>1 DEF StopInv, StopShape, Calm, TasksNamed, ResetAlone, Reloading
<1>6. CASE FinishReset
  <2>1. /\ stopper.kind = "reset" /\ stopper'.at = "idle" /\ stopper'.kind = "none"
        /\ UNCHANGED <<task, requested, claim, managed, strays, disturbed>>
    BY <1>6 DEF FinishReset, Idle
  <2>. QED BY <2>1 DEF StopInv, StopShape, Calm, TasksNamed, ResetAlone, Reloading
<1>7. CASE FinishReload
  <2>1. /\ stopper'.at = "idle" /\ stopper'.kind = "none" /\ claim' = None /\ managed' = None
        /\ strays' = strays \cup ({managed, claim} \ {None})
        /\ UNCHANGED <<task, requested, disturbed>>
    BY <1>7 DEF FinishReload, Idle
  <2>2. StopShape' /\ ResetAlone' /\ (Calm' => Calm /\ claim = None)
    BY <2>1 DEF StopShape, ResetAlone, Calm
  <2>3. ASSUME TasksNamed, claim = None PROVE TasksNamed'
    <3>1. \A p \in Procs : task[p] \notin {"spawning", "forked"}
      BY <2>3, Attempted DEF TasksNamed
    <3>. QED BY <2>1, <2>3, <3>1 DEF TasksNamed
  <2>. QED BY <2>2, <2>3 DEF StopInv
<1>. QED BY <1>1, <1>2, <1>3, <1>4, <1>5, <1>6, <1>7 DEF StopGoesOn

LEMMA StepStop == WorkersAssumption /\ TypeOK /\ StopInv /\ [Next]_vars => StopInv'
<1>. SUFFICES ASSUME WorkersAssumption, TypeOK, StopInv, [Next]_vars PROVE StopInv'
  OBVIOUS
<1>. USE DEF spawning, counts
<1>1. CASE UNCHANGED vars
  BY <1>1, StopFrame DEF vars
<1>2. ASSUME NEW p \in Procs, WorkerActs(p) \/ Challenge(p) \/ Handles(p) PROVE StopInv'
  <2>1. CASE NoticeExit(p)
    BY <2>1, SpawnStop
  <2>2. CASE FinishUnregister(p)
    BY <2>2, StopFrame DEF FinishUnregister
  <2>3. CASE \/ AnswerChallenge(p) \/ Exit(p) \/ LeaveCleanly(p) \/ Challenge(p)
             \/ Register(p) \/ HearLoad(p) \/ Unregister(p)
    BY <2>3, StopFrame
       DEF AnswerChallenge, Exit, LeaveCleanly, Challenge, Register, HearLoad, Unregister
  <2>. QED BY <1>2, <2>1, <2>2, <2>3 DEF WorkerActs, Handles
<1>3. CASE Evictions
  <2>1. CASE EvictProcess
    BY <2>1, StopFrame DEF EvictProcess
  <2>2. CASE FinishEviction
    BY <2>2, StopFrame DEF FinishEviction
  <2>3. ASSUME NEW p \in Procs, BeginSweep(p) \/ EvictNext(p) PROVE StopInv'
    BY <2>3, StopFrame DEF BeginSweep, EvictNext, Evicting
  <2>. QED BY <1>3, <2>1, <2>2, <2>3 DEF Evictions
<1>4. ASSUME NEW n \in Nodes, NodeActs(n) PROVE StopInv'
  BY <1>4, NodesApart, StopFrame
<1>. QED BY <1>1, <1>2, <1>3, <1>4, SpawnStop, ResetStop DEF Next

(* Once a reset returns, no process of the library runs and no start is    *)
(* under way, as long as the records lost none and no start was honoured   *)
(* during a reset.                                                         *)
THEOREM ResetIsClean == Spec => ResetLeavesNone
<1>1. Init => TypeOK /\ Recorded /\ StopInv
  BY InitTypes, InitRecorded, InitStop, WorkersAssumption
<1>2. TypeOK /\ Recorded /\ StopInv /\ [Next]_vars => TypeOK' /\ Recorded' /\ StopInv'
  BY StepTypes, StepRecorded, StepStop, WorkersAssumption
<1>3. ASSUME TypeOK, Recorded, StopInv, StopInv', [Next]_vars
      PROVE  [ stopper.kind = "reset" /\ stopper.at # "idle" /\ stopper'.at = "idle"
                 /\ strays = {} /\ ~disturbed
               => /\ Running' = {}
                  /\ \A p \in Procs : task'[p] \notin {"asked", "spawning", "forked"} ]_vars
  <2>. SUFFICES ASSUME stopper.kind = "reset", stopper.at # "idle", stopper'.at = "idle",
                       strays = {}, ~disturbed
                PROVE  /\ Running' = {}
                       /\ \A p \in Procs : task'[p] \notin {"asked", "spawning", "forked"}
    OBVIOUS
  <2>1. FinishReset
    BY <1>3 DEF Next, vars, spawning, counts, StartWorker, ResetLibrary, ReloadLibraries,
                BeginReset, BeginStop, Idle, Spawns, ClaimSpawn, RefuseCommand, Fork, ForkFails,
                RecordProcess, WorkerActs, AnswerChallenge, Exit, LeaveCleanly, Challenge,
                Handles, Register, HearLoad, Unregister, FinishUnregister, NoticeExit,
                Evictions, EvictProcess, FinishEviction, BeginSweep, EvictNext, Evicting,
                StopGoesOn, ClaimReleased, FailTheirRequests, FinishReload, TypeOK,
                NodeActs, RunNode, StopWaiting, Route, RouteFails, CancelNode, AnswerNode, HearReply
  <2>2. TasksNamed /\ ResetAlone
    BY <1>3 DEF StopInv, Calm
  <2>3. stopper.at = "unsubscribing" /\ UNCHANGED <<task, proc>>
    BY <2>1 DEF FinishReset, spawning
  <2>4. claim = None /\ managed = None /\ \A p \in Procs : task[p] \notin Active
    BY <2>2, <2>3 DEF ResetAlone
  <2>5. Running = {}
    BY <1>3, <2>4, Attempted, WorkersAssumption DEF Recorded, Running, Active
  <2>. QED BY <2>3, <2>4, <2>5 DEF Running, Active
<1>. QED BY <1>1, <1>2, <1>3, PTL DEF Spec, ResetLeavesNone
==============================================================================
