-------------------- MODULE ParallelResolutionInputsProofs --------------------
(***************************************************************************)
(* Proofs about the values a run of ParallelResolution computes: that a    *)
(* node starts on inputs that are resolved, that nothing shows as resolved *)
(* whose value is out of date, and that a run of the flow that completes   *)
(* ran all it was to run.                                                  *)
(*                                                                         *)
(* They hold for orderly workflows, of any size, for any number of slots   *)
(* and any mix of failures, pauses and cancels.                            *)
(***************************************************************************)
EXTENDS ParallelResolutionProofs, OrderlyWorkflows

-----------------------------------------------------------------------------
(* What is assumed of the workflows: a run of the flow goes along lines of *)
(* nodes in the order of the data; a node that is resolved on its own      *)
(* feeds nobody.  Both are about the workflows a user draws; without them  *)
(* the properties below fail in the code.                                  *)
OrderlyRuns ==
  /\ ~AfterLoad
  /\ IF FlowRuns THEN Requests = {} /\ \A w \in Workflows : InLine(w)
                 ELSE \A w \in Workflows : Apart(w, Requests)

-----------------------------------------------------------------------------
(* The inductive invariant.                                                *)

(* The nodes that get their turn by control; the data connections between  *)
(* nodes that execute.                                                     *)
Turns == IF FlowRuns THEN Controlled(shape) ELSE {}
Carrying == {e \in shape.feeds : e[1] \notin shape.locked /\ e[2] \notin shape.locked}
Over(d, n) == d.ref[n] = "done" /\ \A g \in Graphs : n \notin d.members[g]

(* A node and all its value goes on to.                                    *)
Downstream(z) == Reach(Carrying, {z})

(* Below a node that is not resolved nothing is, unless the node may get   *)
(* its turn.                                                               *)
StaleBelow(st) ==
  \A z \in Nodes \ (Turns \cup shape.locked) :
    st[z] # "resolved" => \A p \in Downstream(z) : st[p] # "resolved"

(* A recorded node has its inputs or waits for them with an edge.          *)
Ready(d, st) ==
  \A e \in Carrying : e[2] \in Recorded(d) =>
    \/ st[e[1]] = "resolved"
    \/ d.ref[e[2]] = "waiting" /\ \E g \in Graphs : e \in d.edges[g]

Fed(d) == \A g \in Graphs : d.edges[g] \subseteq shape.feeds

(* A node that has a graph and is not recorded was finished with its       *)
(* inputs resolved, and they still are: nothing runs again above it.       *)
Asked(d, st) ==
  ~FlowRuns => \A g \in d.nets \cap Nodes :
    g \in Recorded(d) \/ \A e \in Carrying : e[2] = g => st[e[1]] = "resolved"

Values(d, st) == StaleBelow(st) /\ Ready(d, st) /\ Fed(d) /\ Asked(d, st)

(* What the run has marked stale, and all below it, is stale.              *)
SweptOK(st, s) ==
  /\ \A e \in Carrying : e[1] \in s => e[2] \in s
  /\ \A n \in s \ shape.locked : st[n] # "resolved"

(* A node whose value is out of date does not show it, and does not run.   *)
OutdatedOK(d, st, w, o) ==
  \A n \in o : /\ n \notin shape.locked /\ st[n] # "resolved"
               /\ d.ref[n] \notin {"processing", "done"}
               /\ ~(w.at = "validating" /\ w.node = n)

(* What waits or is queued is not resolved, once the run is prepared.      *)
WaitingOK(d, st, w) ==
  \A n \in Nodes \ shape.locked :
    d.ref[n] \in {"waiting", "queued"} /\ st[n] = "resolved" => w.at = "seed" /\ n \in w.starts

FreshOK(d, st, w, o) == Values(d, st) /\ OutdatedOK(d, st, w, o) /\ WaitingOK(d, st, w)

(* A run of the flow goes on, as long as control does: nothing is recorded *)
(* before all that gets its turn above it is over, and what gets a turn    *)
(* gets it by control.                                                     *)
Before(d) == \A x \in Turns : \A p \in Recorded(d) \cap After(shape.feeds, x) : Over(d, x)
InTurn(d) == \A e \in shape.wires : e[2] \in Turns \cap Recorded(d) => Over(d, e[1])

Going(d) == Before(d) /\ InTurn(d) /\ Turns \cap d.dataOnly = {}

(* Where control has ended the sinks that were put off come, with what     *)
(* they lack: nodes control did not come to among it.  Below a node that   *)
(* is not over then nothing is, and nothing that leads to a sink is        *)
(* resolved.                                                               *)
Clear(d, st, r) ==
  /\ \A p \in Downstream(r) \cap ToSinks(shape) : st[p] # "resolved"
  /\ \A z \in Downstream(r) \cap Recorded(d) : ~Over(d, z)
Pulled(d, r) == r \in ToSinks(shape) \ Entries(shape) /\ r \in d.dataOnly \cup Sinks(shape)
Closing(d, st) ==
  /\ Entries(shape) \subseteq Recorded(d)
  /\ \A r \in Recorded(d) : Over(d, r) \/ (Pulled(d, r) /\ (r \in shape.locked \/ Clear(d, st, r)))

(* While they are seeded, nothing executes, and what is over has all its   *)
(* turns above it over.                                                    *)
Closed(d, st) ==
  /\ Closing(d, st)
  /\ \A x \in Turns : Over(d, x) \/ \A z \in Recorded(d) \cap After(shape.feeds, x) : ~Over(d, z)
  /\ \A n \in Recorded(d) \ shape.locked : Over(d, n) \/ d.ref[n] \in {"waiting", "queued"}

(* Either way what is over stays resolved.                                 *)
Stays(d, st) == \A n \in Nodes : Over(d, n) => st[n] = "resolved"
Rooted(d) == Recorded(d) \ d.dataOnly \subseteq Turns \cup Sinks(shape)

LineOK(d, st) == Stays(d, st) /\ Rooted(d) /\ (Going(d) \/ Closing(d, st))

(* What the run is seeded with, but for X, is recorded, or about to be.    *)
SeedBut(d, st, w, X) ==
  /\ \A n \in Entries(shape) \ X : n \in Recorded(d) \/ (w.at = "seed" /\ n \in w.todo)
  /\ \A n \in Sinks(shape) \ X : n \in Recorded(d) \cup d.deferred \/ (w.at = "seed" /\ n \in w.todo)
  /\ \A n \in d.deferred : n \in Sinks(shape) /\ (n \in Recorded(d) \cup shape.locked \/ st[n] # "resolved")
  /\ Going(d) \/ w.at = "sinks" \/ d.deferred = {}
  /\ w.at = "sinks" => Closed(d, st)
  /\ w.at = "seed" =>
       /\ Going(d)
       /\ w.todo \cup w.starts \subseteq Entries(shape) \cup Sinks(shape)
       /\ Entries(shape) \subseteq w.todo \cup w.starts
       /\ Turns \cap Recorded(d) \subseteq w.starts
       /\ \A n \in Nodes : d.ref[n] \in {"absent", "waiting"}

SeedOK(d, st, w) == SeedBut(d, st, w, {})

EndedOK(d, w) == w.at # "failing" => \A n \in Nodes : d.ref[n] \notin {"canceled", "errored"}
RanDone(d, r) == \A n \in Nodes \ shape.locked : d.ref[n] \in {"processing", "done"} => n \in r

FlowOK(d, st, w, r) == LineOK(d, st) /\ SeedOK(d, st, w) /\ EndedOK(d, w) /\ RanDone(d, r)

ModeOK ==
  /\ FlowRuns => ~single
  /\ ~FlowRuns => /\ Running => single
                  /\ dag.deferred = {}
                  /\ drv.at = "seed" => drv.starts \subseteq Requests /\ drv.todo = {}

FInv ==
  /\ shape \in Workflows
  /\ ModeOK
  /\ FreshOK(dag, state, drv, outdated)
  /\ cur = "dag" => SweptOK(state, swept)
  /\ FlowRuns /\ cur = "dag" => FlowOK(dag, state, drv, ran)

(* What is said of the workflow of a run.                                  *)
ShapeOK ==
  /\ shape \in WorkflowShapes
  /\ IF FlowRuns THEN InLine(shape) ELSE Apart(shape, Requests)

-----------------------------------------------------------------------------
(* Walks along arcs.                                                       *)

(* What a walk reaches is nodes, among them those it starts from, and it   *)
(* goes on along every arc.                                                *)
LEMMA ReachStep ==
  ASSUME NEW R \in SUBSET (Nodes \X Nodes), NEW from \in SUBSET Nodes
  PROVE  /\ Reach(R, from) \subseteq Nodes /\ from \subseteq Reach(R, from)
         /\ \A e \in R : e[1] \in Reach(R, from) => e[2] \in Reach(R, from)
  BY DEF Reach

(* It reaches no more than any set that holds its start and that no arc    *)
(* leaves.                                                                 *)
LEMMA ReachLeast ==
  ASSUME NEW R, NEW from, NEW S \in SUBSET Nodes, from \subseteq S,
         \A e \in R : e[1] \in S => e[2] \in S
  PROVE  Reach(R, from) \subseteq S
  BY DEF Reach

(* What comes after n is nodes, and is left by no arc.                     *)
LEMMA AfterStep ==
  ASSUME NEW R \in SUBSET (Nodes \X Nodes), NEW n \in Nodes
  PROVE  /\ After(R, n) \subseteq Nodes
         /\ \A e \in R : e[1] = n \/ e[1] \in After(R, n) => e[2] \in After(R, n)
<1>. DEFINE first == {e[2] : e \in {f \in R : f[1] = n}}
<1>1. first \in SUBSET Nodes
  OBVIOUS
<1>2. /\ Reach(R, first) \subseteq Nodes /\ first \subseteq Reach(R, first)
      /\ \A e \in R : e[1] \in Reach(R, first) => e[2] \in Reach(R, first)
  BY <1>1, ReachStep
<1>. QED BY <1>2 DEF After

(* It is in every such set.                                                *)
LEMMA AfterLeast ==
  ASSUME NEW R, NEW n, NEW S \in SUBSET Nodes,
         \A e \in R : e[1] = n \/ e[1] \in S => e[2] \in S
  PROVE  After(R, n) \subseteq S
<1>1. {e[2] : e \in {f \in R : f[1] = n}} \subseteq S
  OBVIOUS
<1>. QED BY <1>1, ReachLeast DEF After

(* What comes after a node that comes after n, or is n's next, comes       *)
(* after n; what comes after n is n's next or the next of such a node.     *)
LEMMA AfterTrans ==
  ASSUME NEW R \in SUBSET (Nodes \X Nodes), NEW n \in Nodes, NEW m \in After(R, n)
  PROVE  After(R, m) \subseteq After(R, n)
<1>1. /\ After(R, n) \in SUBSET Nodes
      /\ \A e \in R : e[1] = m \/ e[1] \in After(R, n) => e[2] \in After(R, n)
  BY AfterStep
<1>. QED BY <1>1, AfterLeast

(* The end of an arc comes after its beginning, and so does what comes     *)
(* after the end.                                                          *)
LEMMA AfterNext ==
  ASSUME NEW R \in SUBSET (Nodes \X Nodes), NEW e \in R
  PROVE  e[2] \in After(R, e[1]) /\ After(R, e[2]) \subseteq After(R, e[1])
<1>1. e[1] \in Nodes /\ e[2] \in Nodes
  OBVIOUS
<1>2. e[2] \in After(R, e[1])
  BY <1>1, AfterStep
<1>. QED BY <1>1, <1>2, AfterTrans

(* What comes after n is the end of an arc that begins at n or after n.    *)
LEMMA AfterLast ==
  ASSUME NEW R \in SUBSET (Nodes \X Nodes), NEW n \in Nodes, NEW k \in After(R, n)
  PROVE  \E e \in R : e[2] = k /\ (e[1] = n \/ e[1] \in After(R, n))
<1>. DEFINE S == {m \in Nodes : \E e \in R : e[2] = m /\ (e[1] = n \/ e[1] \in After(R, n))}
<1>1. \A e \in R : e[1] = n \/ e[1] \in After(R, n) => e[2] \in After(R, n)
  BY AfterStep
<1>2. \A m \in S : m \in After(R, n)
  BY <1>1
<1>3. \A e \in R : e[1] = n \/ e[1] \in S => e[2] \in S
  BY <1>2
<1>4. S \in SUBSET Nodes
  OBVIOUS
<1>. HIDE DEF S
<1>5. After(R, n) \subseteq S
  BY <1>3, <1>4, AfterLeast
<1>. QED BY <1>5 DEF S

(* More arcs, more comes after.                                            *)
LEMMA AfterWider ==
  ASSUME NEW Q \in SUBSET (Nodes \X Nodes), NEW R \in SUBSET Q, NEW n \in Nodes
  PROVE  After(R, n) \subseteq After(Q, n)
<1>1. /\ After(Q, n) \in SUBSET Nodes
      /\ \A e \in R : e[1] = n \/ e[1] \in After(Q, n) => e[2] \in After(Q, n)
  BY AfterStep
<1>. QED BY <1>1, AfterLeast

(* A walk from n is n and what comes after it.                             *)
LEMMA ReachIsAfter ==
  ASSUME NEW R \in SUBSET (Nodes \X Nodes), NEW n \in Nodes
  PROVE  Reach(R, {n}) \subseteq {n} \cup After(R, n)
<1>1. /\ {n} \cup After(R, n) \in SUBSET Nodes
      /\ \A e \in R : e[1] \in {n} \cup After(R, n) => e[2] \in {n} \cup After(R, n)
  BY AfterStep
<1>. QED BY <1>1, ReachLeast

(* Without cycles no node comes after itself.                              *)
LEMMA NoWayBack ==
  ASSUME NEW R \in SUBSET (Nodes \X Nodes), NoCycle(R), NEW n \in Nodes
  PROVE  n \notin After(R, n)
<1>. SUFFICES ASSUME n \in After(R, n) PROVE FALSE
  OBVIOUS
<1>. DEFINE S == {m \in After(R, n) : n \in After(R, m)}
<1>1. After(R, n) \subseteq Nodes
  BY AfterStep
<1>2. S \in SUBSET Nodes /\ n \in S
  BY <1>1
<1>3. PICK k \in S : \A m \in S : <<m, k>> \notin R
  BY <1>2 DEF NoCycle
<1>4. k \in After(R, n) /\ n \in After(R, k)
  BY <1>3
<1>5. PICK e \in R : e[2] = k /\ (e[1] = n \/ e[1] \in After(R, n))
  BY <1>4, AfterLast
<1>6. e = <<e[1], k>>
  BY <1>5
<1>7. n \in After(R, e[1])
  BY <1>4, <1>5, AfterNext
<1>8. e[1] \in S
  BY <1>5, <1>7
<1>. QED BY <1>3, <1>6, <1>8

-----------------------------------------------------------------------------
(* What follows from the workflow's shape.                                 *)

(* The types of what is read of a workflow.                                *)
LEMMA ShapeFacts ==
  ASSUME ShapeOK
  PROVE  /\ shape.feeds \in SUBSET (Nodes \X Nodes) /\ shape.wires \in SUBSET (Nodes \X Nodes)
         /\ shape.locked \subseteq Nodes /\ shape.starts \subseteq Nodes
         /\ Carrying \in SUBSET (Nodes \X Nodes) /\ Carrying \subseteq shape.feeds
         /\ Entries(shape) \subseteq Nodes /\ Sinks(shape) \subseteq Nodes
         /\ Turns \subseteq Nodes
  BY DEF ShapeOK, WorkflowShapes, Carrying, Entries, Sinks, Wired, Turns, Controlled, Reach

(* What a walk reaches is where it starts or the end of an arc it came     *)
(* along.                                                                  *)
LEMMA ReachLast ==
  ASSUME NEW R \in SUBSET (Nodes \X Nodes), NEW from \in SUBSET Nodes, NEW k \in Reach(R, from)
  PROVE  k \in from \/ \E e \in R : e[2] = k /\ e[1] \in Reach(R, from)
<1>. DEFINE S == {m \in Nodes : m \in from \/ \E e \in R : e[2] = m /\ e[1] \in Reach(R, from)}
<1>1. from \subseteq Reach(R, from) /\ \A e \in R : e[1] \in Reach(R, from) => e[2] \in Reach(R, from)
  BY ReachStep
<1>2. \A m \in S : m \in Reach(R, from)
  BY <1>1
<1>3. \A e \in R : e[1] \in S => e[2] \in S
  BY <1>2
<1>4. S \in SUBSET Nodes /\ from \subseteq S
  OBVIOUS
<1>. HIDE DEF S
<1>5. k \in S
  BY <1>3, <1>4, ReachLeast
<1>. QED BY <1>5 DEF S

(* What is downstream of a node executes and is left by no such arc.       *)
LEMMA DownstreamFacts ==
  ASSUME ShapeOK, NEW z \in Nodes, z \notin shape.locked
  PROVE  /\ Downstream(z) \subseteq Nodes /\ z \in Downstream(z)
         /\ \A e \in Carrying : e[1] \in Downstream(z) => e[2] \in Downstream(z)
         /\ \A n \in Downstream(z) : n \notin shape.locked
         /\ \A n \in Downstream(z) \ {z} : \E e \in Carrying : e[2] = n /\ e[1] \in Downstream(z)
<1>1. Carrying \in SUBSET (Nodes \X Nodes) /\ {z} \in SUBSET Nodes
  BY ShapeFacts
<1>2. /\ Downstream(z) \subseteq Nodes /\ z \in Downstream(z)
      /\ \A e \in Carrying : e[1] \in Downstream(z) => e[2] \in Downstream(z)
  BY <1>1, ReachStep DEF Downstream
<1>3. ASSUME NEW n \in Downstream(z), n # z
      PROVE  \E e \in Carrying : e[2] = n /\ e[1] \in Downstream(z)
  BY <1>1, <1>3, ReachLast DEF Downstream
<1>4. \A n \in Downstream(z) : n \notin shape.locked
  BY <1>3 DEF Carrying
<1>. QED BY <1>2, <1>3, <1>4

(* What is downstream of a node downstream of z is downstream of z, and    *)
(* comes after it in the data.                                             *)
LEMMA DownstreamWithin ==
  ASSUME ShapeOK, NEW z \in Nodes, z \notin shape.locked
  PROVE  /\ \A x \in Downstream(z) : Downstream(x) \subseteq Downstream(z)
         /\ Downstream(z) \subseteq {z} \cup After(shape.feeds, z)
<1>1. /\ Downstream(z) \in SUBSET Nodes
      /\ \A e \in Carrying : e[1] \in Downstream(z) => e[2] \in Downstream(z)
  BY DownstreamFacts
<1>2. ASSUME NEW x \in Downstream(z) PROVE Downstream(x) \subseteq Downstream(z)
  <2>1. {x} \subseteq Downstream(z)
    OBVIOUS
  <2>. QED BY <1>1, <2>1, ReachLeast DEF Downstream
<1>3. Downstream(z) \subseteq {z} \cup After(Carrying, z)
  BY ShapeFacts, ReachIsAfter DEF Downstream
<1>4. After(Carrying, z) \subseteq After(shape.feeds, z)
  BY ShapeFacts, AfterWider
<1>. QED BY <1>2, <1>3, <1>4

(* It is z, or downstream of a node that reads the value of z.             *)
LEMMA DownstreamFirst ==
  ASSUME ShapeOK, NEW z \in Nodes, z \notin shape.locked, NEW p \in Downstream(z)
  PROVE  p = z \/ \E e \in Carrying : e[1] = z /\ p \in Downstream(e[2])
<1>. DEFINE S == {m \in Nodes : m = z \/ \E e \in Carrying : e[1] = z /\ m \in Downstream(e[2])}
<1>1. \A e \in Carrying : e[2] \in Nodes /\ e[2] \notin shape.locked
  BY ShapeFacts DEF Carrying
<1>2. \A y \in Nodes \ shape.locked :
        y \in Downstream(y) /\ \A e \in Carrying : e[1] \in Downstream(y) => e[2] \in Downstream(y)
  BY DownstreamFacts
<1>3. \A e \in Carrying : e[1] \in S => e[2] \in S
  BY <1>1, <1>2
<1>4. S \in SUBSET Nodes /\ {z} \subseteq S
  OBVIOUS
<1>. HIDE DEF S
<1>5. p \in S
  BY <1>3, <1>4, ReachLeast DEF Downstream
<1>. QED BY <1>5 DEF S

(* Nothing is downstream of a node whose value nobody reads.               *)
LEMMA DownstreamOfLast ==
  ASSUME ShapeOK, NEW z \in Nodes, \A e \in Carrying : e[1] # z
  PROVE  Downstream(z) \subseteq {z}
<1>1. {z} \in SUBSET Nodes /\ \A e \in Carrying : e[1] \in {z} => e[2] \in {z}
  OBVIOUS
<1>. QED BY <1>1, ReachLeast DEF Downstream

(* Where it goes along all of them it goes all the way down.               *)
LEMMA StaleAlong ==
  ASSUME ShapeOK, NEW st,
         \A e \in Carrying : st[e[1]] # "resolved" => st[e[2]] # "resolved"
  PROVE  StaleBelow(st)
<1>. SUFFICES ASSUME NEW z \in Nodes, st[z] # "resolved"
              PROVE  \A p \in Downstream(z) : st[p] # "resolved"
  BY DEF StaleBelow
<1>. DEFINE S == {m \in Nodes : st[m] # "resolved"}
<1>1. S \in SUBSET Nodes /\ {z} \subseteq S
  OBVIOUS
<1>2. \A e \in Carrying : e[1] \in S => e[2] \in S
  BY ShapeFacts
<1>. HIDE DEF S
<1>3. Downstream(z) \subseteq S
  BY <1>1, <1>2, ReachLeast DEF Downstream
<1>. QED BY <1>3 DEF S

(* Nodes that become resolved when all they read is leave it so.           *)
LEMMA StaleResolving ==
  ASSUME ShapeOK, NEW st, NEW st2, StaleBelow(st),
         \A m \in Nodes : st2[m] # "resolved" => st[m] # "resolved",
         \A e \in Carrying : st[e[2]] # "resolved" /\ st2[e[2]] = "resolved" => st[e[1]] = "resolved"
  PROVE  StaleBelow(st2)
<1>. SUFFICES ASSUME NEW z \in Nodes \ (Turns \cup shape.locked), st2[z] # "resolved",
                     NEW p \in Downstream(z), st2[p] = "resolved"
              PROVE  FALSE
  BY DEF StaleBelow
<1>1. /\ Downstream(z) \subseteq Nodes
      /\ \A n \in Downstream(z) \ {z} : \E e \in Carrying : e[2] = n /\ e[1] \in Downstream(z)
  BY DownstreamFacts
<1>2. \A m \in Downstream(z) : st[m] # "resolved"
  BY DEF StaleBelow
<1>3. PICK e \in Carrying : e[2] = p /\ e[1] \in Downstream(z)
  BY <1>1
<1>. QED BY <1>2, <1>3

(* Control goes from turn to turn, and never comes to an entry or a sink.  *)
LEMMA TurnsFacts ==
  ASSUME ShapeOK, FlowRuns
  PROVE  /\ \A e \in shape.wires : e[1] \in Turns => e[2] \in Turns
         /\ Entries(shape) \subseteq Turns
         /\ Turns \cap Sinks(shape) = {}
         /\ \A e \in shape.wires :
              e[2] \notin Entries(shape) /\ e[1] \notin Sinks(shape) /\ e[2] \notin Sinks(shape)
<1>. DEFINE S == shape.starts \cup Wired(shape)
<1>1. Turns = Reach(shape.wires, Entries(shape))
  BY DEF Turns, Controlled
<1>2. /\ \A e \in shape.wires : e[1] \in Turns => e[2] \in Turns
      /\ Entries(shape) \subseteq Turns
  BY <1>1, ShapeFacts, ReachStep
<1>3. S \in SUBSET Nodes /\ Entries(shape) \subseteq S
  BY ShapeFacts DEF Entries, Wired
<1>4. \A e \in shape.wires : e[1] \in S /\ e[2] \in S
  BY ShapeFacts DEF Wired
<1>5. Turns \subseteq S
  <2>. HIDE DEF S
  <2>1. \A e \in shape.wires : e[1] \in S => e[2] \in S
    BY <1>4
  <2>2. Reach(shape.wires, Entries(shape)) \subseteq S
    BY <1>3, <2>1, ReachLeast
  <2>. QED BY <1>1, <2>2
<1>6. \A n \in Sinks(shape) : n \notin S
  BY DEF Sinks
<1>7. \A e \in shape.wires : e[2] \notin Entries(shape)
  BY DEF ShapeOK, InLine, Straight, Entries
<1>. QED BY <1>2, <1>4, <1>5, <1>6, <1>7

(* A value goes from turn to turn only where control went before.          *)
LEMMA TurnsInOrder ==
  ASSUME ShapeOK, FlowRuns, NEW x \in Turns, NEW n \in Turns, n \in After(shape.feeds, x)
  PROVE  n \in After(shape.wires, x)
  BY DEF ShapeOK, InLine, InOrder, Turns

(* When a node is recorded, the turns control came through to it are       *)
(* over.                                                                   *)
LEMMA TurnsBefore ==
  ASSUME ShapeOK, FlowRuns, NEW d, InTurn(d), NEW x \in Turns,
         NEW m \in After(shape.wires, x), m \in Recorded(d)
  PROVE  Over(d, x)
<1>. SUFFICES ASSUME ~Over(d, x) PROVE FALSE
  OBVIOUS
<1>. DEFINE S == {k \in Turns : k \notin Recorded(d)}
<1>1. \A e \in shape.wires : e[1] \in Turns => e[2] \in Turns
  BY TurnsFacts
<1>2. \A k \in S : ~Over(d, k)
  BY ShapeFacts DEF Over, Recorded
<1>3. \A e \in shape.wires : e[1] = x \/ e[1] \in S => e[2] \in S
  BY <1>1, <1>2 DEF InTurn
<1>4. S \in SUBSET Nodes
  BY ShapeFacts
<1>. HIDE DEF S
<1>5. After(shape.wires, x) \subseteq S
  BY <1>3, <1>4, AfterLeast
<1>. QED BY <1>5 DEF S

(* What feeds a node that leads to a sink leads to one.                    *)
LEMMA LeadsOn ==
  ASSUME ShapeOK, NEW e \in shape.feeds, e[2] \in ToSinks(shape)
  PROVE  e[1] \in ToSinks(shape)
<1>1. e[1] \in Nodes /\ shape.feeds \in SUBSET (Nodes \X Nodes)
  BY ShapeFacts
<1>2. e[2] \in After(shape.feeds, e[1]) /\ After(shape.feeds, e[2]) \subseteq After(shape.feeds, e[1])
  BY <1>1, AfterNext
<1>. QED BY <1>1, <1>2 DEF ToSinks

(* What the walk from n adds is n and what feeds it without being          *)
(* resolved.                                                               *)
LEMMA NewNodesAbove ==
  ASSUME ShapeOK, NEW d, NEW st, NEW n \in Nodes, NEW m \in NewNodes(d, Needed(st), n)
  PROVE  /\ m \in Nodes /\ d.ref[m] = "absent"
         /\ m = n \/ (st[m] # "resolved" /\ n \in After(shape.feeds, m))
<1>. DEFINE R == {<<e[2], e[1]>> : e \in {f \in Needed(st) : f[1] \notin Recorded(d)}}
            S == {k \in Nodes : k = n \/ (st[k] # "resolved" /\ n \in After(shape.feeds, k))}
<1>1. Needed(st) \in SUBSET (Nodes \X Nodes) /\ Needed(st) \subseteq shape.feeds
  BY ShapeFacts DEF Needed
<1>2. m \in Nodes /\ d.ref[m] = "absent"
  BY <1>1, NewNodesFresh
<1>3. m \in Reach(R, {n})
  BY DEF NewNodes
<1>4. ASSUME NEW e \in Needed(st), e[2] \in S
      PROVE  e[1] \in S
  <2>1. e \in shape.feeds /\ st[e[1]] # "resolved" /\ e[1] \in Nodes
    BY <1>1, <1>4 DEF Needed
  <2>2. e[2] \in After(shape.feeds, e[1]) /\ After(shape.feeds, e[2]) \subseteq After(shape.feeds, e[1])
    BY <2>1, ShapeFacts, AfterNext
  <2>. QED BY <1>4, <2>1, <2>2
<1>5. \A e \in R : e[1] \in S => e[2] \in S
  BY <1>4
<1>6. S \in SUBSET Nodes /\ {n} \subseteq S
  OBVIOUS
<1>. HIDE DEF R, S
<1>7. m \in S
  BY <1>3, <1>5, <1>6, ReachLeast
<1>. QED BY <1>2, <1>7 DEF S

-----------------------------------------------------------------------------
(* Adding a node.                                                          *)

(* The rest of what Add does to a record.                                  *)
AddedBeside(d, d2, new, n) ==
  d2.dataOnly = (d.dataOnly \cup new) \ {n} /\ d2.deferred = d.deferred

(* What adding a node does to the nodes that are there for their data      *)
(* alone and to the deferred sinks.                                        *)
LEMMA AddOthers ==
  ASSUME NEW d \in Dags, NEW needed \in SUBSET (Nodes \X Nodes), NEW n \in Nodes, NEW g \in Graphs
  PROVE  AddedBeside(d, Add(d, needed, n, g), NewNodes(d, needed, n), n)
<1>. DEFINE new == NewNodes(d, needed, n)
            d2 == Add(d, needed, n, g)
<1>1. PICK r, a, b, c, e, f : d2 = [d EXCEPT !.ref = r, !.dataOnly = (d.dataOnly \cup new) \ {n},
                !.nets = a, !.members = b, !.edges = c, !.known = e, !.homes = f]
  BY Zenon DEF Add
<1>. HIDE DEF d2, new
<1>2. d2.dataOnly = (d.dataOnly \cup new) \ {n} /\ d2.deferred = d.deferred
  BY <1>1 DEF Dags
<1>. QED BY <1>2 DEF d2, new, AddedBeside

(* A node is added, with a walk over the nodes as they are in st0, to a    *)
(* graph of its own or by control.                                         *)
LEMMA AddFresh ==
  ASSUME ShapeOK, NEW d \in Dags, NEW st0, NEW st, NEW n \in Nodes, NEW g \in Graphs, NEW w, NEW o,
         o \subseteq Nodes, FreshOK(d, st, w, o),
         g \in Nodes => FlowRuns \/ g = n,
         \A m \in Nodes : st0[m] # "resolved" => st[m] # "resolved",
         \A e \in shape.feeds : e[2] \in NewNodes(d, Needed(st0), n) /\ st[e[1]] # "resolved"
                                  => st0[e[1]] # "resolved",
         n \in shape.locked \/ st[n] # "resolved" \/ (w.at = "seed" /\ n \in w.starts)
  PROVE  FreshOK(Add(d, Needed(st0), n, g), st, w, o)
<1>. DEFINE new == NewNodes(d, Needed(st0), n)
            d2 == Add(d, Needed(st0), n, g)
<1>1. Needed(st0) \in SUBSET (Nodes \X Nodes) /\ Needed(st0) \subseteq shape.feeds
  BY ShapeFacts DEF Needed
<1>2. Added(d, d2, Needed(st0), new, g)
  BY <1>1, AddEffect
<1>3. /\ \A m \in new : m \in Nodes /\ d.ref[m] = "absent" /\ (m = n \/ st0[m] # "resolved")
      /\ d.ref[n] = "absent" => n \in new
  BY <1>1, NewNodesAbove, NewNodesFresh
<1>4. \A e \in shape.feeds : e[2] \in new /\ st[e[1]] # "resolved" => e \in Needed(st0)
  BY DEF Needed
<1>5. /\ \A m \in Nodes : d2.ref[m] = IF m \in new THEN "waiting" ELSE d.ref[m]
      /\ \A h \in Graphs : d.edges[h] \subseteq d2.edges[h]
      /\ \A h \in Graphs : d2.edges[h] \subseteq d.edges[h] \cup Needed(st0)
      /\ \A e \in Needed(st0) : e[2] \in new => e \in d2.edges[g]
      /\ d2.nets = d.nets \cup {g}
  BY <1>2 DEF Added
<1>. HIDE DEF d2, new
<1>6. Ready(d2, st)
  <2>. SUFFICES ASSUME NEW e \in Carrying, e[2] \in Recorded(d2), st[e[1]] # "resolved"
                PROVE  d2.ref[e[2]] = "waiting" /\ \E h \in Graphs : e \in d2.edges[h]
    BY DEF Ready
  <2>1. e \in shape.feeds /\ e[2] \in Nodes
    BY ShapeFacts
  <2>2. CASE e[2] \in new
    BY <1>4, <1>5, <2>1, <2>2
  <2>3. CASE e[2] \notin new
    <3>1. e[2] \in Recorded(d) /\ d2.ref[e[2]] = d.ref[e[2]]
      BY <1>5, <2>1, <2>3 DEF Recorded
    <3>2. d.ref[e[2]] = "waiting" /\ \E h \in Graphs : e \in d.edges[h]
      BY <3>1 DEF FreshOK, Values, Ready
    <3>. QED BY <1>5, <3>1, <3>2
  <2>. QED BY <2>2, <2>3
<1>7. Fed(d2)
  BY <1>1, <1>5 DEF FreshOK, Values, Fed
<1>8. Recorded(d) \subseteq Recorded(d2) /\ n \in Recorded(d2)
  BY <1>3, <1>5 DEF Recorded
<1>9. Asked(d2, st)
  BY <1>5, <1>8 DEF FreshOK, Values, Asked
<1>10. OutdatedOK(d2, st, w, o)
  BY <1>5 DEF FreshOK, OutdatedOK
<1>11. WaitingOK(d2, st, w)
  BY <1>3, <1>5 DEF FreshOK, WaitingOK
<1>. QED BY <1>6, <1>7, <1>9, <1>10, <1>11 DEF FreshOK, Values, d2

(* While control goes on a node is added only when all that gets its turn  *)
(* above it is over; nothing else that gets a turn is added with it.       *)
LEMMA AddFlow ==
  ASSUME ShapeOK, FlowRuns, NEW d \in Dags, NEW st0, NEW st, NEW n \in Nodes, NEW g \in Graphs,
         NEW w, NEW r, LineOK(d, st), SeedBut(d, st, w, {n}), EndedOK(d, w), RanDone(d, r),
         \A m \in Nodes : st0[m] # "resolved" => st[m] # "resolved",
         n \in Turns \cup Sinks(shape),
         \A x \in Turns : n \in After(shape.feeds, x) => Over(d, x),
         \A e \in shape.wires : e[2] = n => Over(d, e[1]),
         w.at = "seed" => n \in w.starts \cup Sinks(shape),
         Going(d), w.at # "sinks"
  PROVE  LET d2 == Add(d, Needed(st0), n, g)
         IN /\ FlowOK(d2, st, w, r) /\ Going(d2) /\ n \in Recorded(d2)
            /\ Recorded(d) \subseteq Recorded(d2)
            /\ \A x \in Nodes : Over(d2, x) <=> Over(d, x)
<1>. DEFINE new == NewNodes(d, Needed(st0), n)
            d2 == Add(d, Needed(st0), n, g)
<1>1. Needed(st0) \in SUBSET (Nodes \X Nodes)
  BY ShapeFacts DEF Needed
<1>2. Added(d, d2, Needed(st0), new, g)
  BY <1>1, AddEffect
<1>3. /\ \A m \in new : m \in Nodes /\ d.ref[m] = "absent" /\ (m = n \/ n \in After(shape.feeds, m))
      /\ d.ref[n] = "absent" => n \in new
  BY <1>1, NewNodesAbove, NewNodesFresh
<1>4. d2.dataOnly = (d.dataOnly \cup new) \ {n} /\ d2.deferred = d.deferred
  <2>1. AddedBeside(d, d2, new, n)
    BY <1>1, AddOthers
  <2>. HIDE DEF d2, new
  <2>. QED BY <2>1 DEF AddedBeside
<1>5. /\ \A m \in Nodes : d2.ref[m] = IF m \in new THEN "waiting" ELSE d.ref[m]
      /\ \A h \in Graphs : d.members[h] \subseteq d2.members[h]
      /\ \A h \in Graphs : \A m \in d2.members[h] :
           m \in d.members[h] \/ m \in new \/ \E e \in Needed(st0) : m = e[1]
  BY <1>2 DEF Added
<1>. HIDE DEF d2, new
<1>6. Recorded(d2) = Recorded(d) \cup new
  BY <1>3, <1>5 DEF Recorded
<1>7. Recorded(d) \subseteq Recorded(d2) /\ n \in Recorded(d2)
  BY <1>3, <1>5 DEF Recorded
<1>8. \A x \in Nodes : Over(d2, x) => Over(d, x)
  BY <1>5 DEF Over
<1>9. \A x \in Nodes : Over(d, x) => Over(d2, x)
  <2>. SUFFICES ASSUME NEW x \in Nodes, Over(d, x) PROVE Over(d2, x)
    OBVIOUS
  <2>1. st[x] = "resolved" /\ d.ref[x] = "done"
    BY DEF LineOK, Stays, Over
  <2>2. st0[x] = "resolved" /\ x \notin new
    BY <1>3, <2>1
  <2>3. \A e \in Needed(st0) : x # e[1]
    BY <2>2 DEF Needed
  <2>. QED BY <1>5, <2>1, <2>2, <2>3 DEF Over
<1>10. \A x \in Turns \cap new : x = n
  BY <1>3 DEF Over
<1>11. Before(d2)
  <2>. SUFFICES ASSUME NEW x \in Turns, NEW p \in Recorded(d2) \cap After(shape.feeds, x)
                PROVE  Over(d2, x)
    BY DEF Before
  <2>1. x \in Nodes
    BY ShapeFacts
  <2>2. CASE p \in Recorded(d)
    BY <1>9, <2>1, <2>2 DEF Going, Before
  <2>3. CASE p \in new
    <3>1. After(shape.feeds, p) \subseteq After(shape.feeds, x)
      BY <2>1, ShapeFacts, AfterTrans
    <3>2. n \in After(shape.feeds, x)
      BY <1>3, <2>3, <3>1
    <3>. QED BY <1>9, <2>1, <3>2
  <2>. QED BY <1>6, <2>1, <2>2, <2>3
<1>12. InTurn(d2)
  <2>. SUFFICES ASSUME NEW e \in shape.wires, e[2] \in Turns, e[2] \in Recorded(d2)
                PROVE  Over(d2, e[1])
    BY DEF InTurn
  <2>1. e[1] \in Nodes
    BY ShapeFacts
  <2>2. e[2] \in Recorded(d) \/ e[2] = n
    BY <1>6, <1>10, <2>1
  <2>3. Over(d, e[1])
    BY <2>2 DEF Going, InTurn
  <2>. QED BY <1>9, <2>1, <2>3
<1>13. Stays(d2, st)
  BY <1>8 DEF LineOK, Stays
<1>14. Rooted(d2)
  BY <1>4, <1>6, <1>7 DEF LineOK, Rooted
<1>17. Going(d2)
  BY <1>4, <1>10, <1>11, <1>12 DEF Going
<1>15. SeedOK(d2, st, w)
  <2>1. Turns \cap Recorded(d2) \subseteq (Turns \cap Recorded(d)) \cup {n}
    BY <1>6, <1>7, <1>10
  <2>2. n \in Turns => n \notin Sinks(shape)
    BY TurnsFacts
  <2>3. w.at = "seed" => /\ Turns \cap Recorded(d2) \subseteq w.starts
                         /\ \A m \in Nodes : d2.ref[m] \in {"absent", "waiting"}
    BY <1>5, <2>1, <2>2 DEF SeedOK, SeedBut
  <2>. QED BY <1>4, <1>7, <1>17, <2>3 DEF SeedOK, SeedBut
<1>16. EndedOK(d2, w) /\ RanDone(d2, r)
  BY <1>5 DEF EndedOK, RanDone
<1>. QED BY <1>7, <1>8, <1>9, <1>13, <1>14, <1>15, <1>16, <1>17 DEF FlowOK, LineOK, d2

-----------------------------------------------------------------------------
(* Queueing, progress and release.                                         *)

(* Queueing does nothing to either.                                        *)
LEMMA TryQueueOthers ==
  ASSUME NEW d \in Dags, NEW S
  PROVE  TryQueue(d, shape, S).dataOnly = d.dataOnly /\ TryQueue(d, shape, S).deferred = d.deferred
<1>. DEFINE d2 == TryQueue(d, shape, S)
<1>1. PICK ref : d2 = [d EXCEPT !.ref = ref]
  BY Zenon DEF TryQueue
<1>. HIDE DEF d2
<1>2. d2.dataOnly = d.dataOnly /\ d2.deferred = d.deferred
  BY <1>1 DEF Dags
<1>. QED BY <1>2 DEF d2

(* What is queued has no edge before it, so its inputs are resolved.       *)
LEMMA TryQueueFresh ==
  ASSUME ShapeOK, NEW d \in Dags, NEW S, GraphsOK(d), NEW st, NEW w, NEW o,
         o \subseteq Nodes, FreshOK(d, st, w, o)
  PROVE  FreshOK(TryQueue(d, shape, S), st, w, o)
<1>. DEFINE d2 == TryQueue(d, shape, S)
            new == Queueable(d, shape, S)
<1>1. /\ d2.nets = d.nets /\ d2.edges = d.edges
      /\ \A m \in Nodes :
           \/ d2.ref[m] = d.ref[m] /\ m \notin new
           \/ m \in shape.locked /\ d.ref[m] # "absent" /\ d2.ref[m] = "done"
           \/ m \in new /\ d2.ref[m] = "queued"
  BY TryQueueEffect
<1>2. \A m \in Nodes : m \in new => d.ref[m] = "waiting" /\ m \notin shape.locked /\ NothingBefore(d, m)
  BY QueueableIsReady
<1>. HIDE DEF d2, new
<1>3. Recorded(d2) = Recorded(d)
  BY <1>1, <1>2 DEF Recorded
<1>4. Ready(d2, st)
  <2>. SUFFICES ASSUME NEW e \in Carrying, e[2] \in Recorded(d2), st[e[1]] # "resolved"
                PROVE  d2.ref[e[2]] = "waiting" /\ \E h \in Graphs : e \in d2.edges[h]
    BY DEF Ready
  <2>1. e[1] \in Nodes /\ e[2] \in Nodes /\ e = <<e[1], e[2]>> /\ e[2] \notin shape.locked
    BY ShapeFacts DEF Carrying
  <2>2. d.ref[e[2]] = "waiting" /\ \E h \in Graphs : e \in d.edges[h]
    BY <1>3 DEF FreshOK, Values, Ready
  <2>3. ~NothingBefore(d, e[2])
    BY <2>1, <2>2 DEF NothingBefore
  <2>. QED BY <1>1, <1>2, <2>1, <2>2, <2>3
<1>5. Fed(d2) /\ Asked(d2, st)
  BY <1>1, <1>3 DEF FreshOK, Values, Fed, Asked
<1>6. OutdatedOK(d2, st, w, o)
  BY <1>1 DEF FreshOK, OutdatedOK
<1>7. WaitingOK(d2, st, w)
  BY <1>1, <1>2 DEF FreshOK, WaitingOK
<1>. QED BY <1>4, <1>5, <1>6, <1>7 DEF FreshOK, Values, d2

(* How a run of the flow stands depends on what is recorded and what of it *)
(* is over.                                                                *)
LEMMA SameOver ==
  ASSUME ShapeOK, NEW d, NEW d2, NEW st,
         d2.dataOnly = d.dataOnly, Recorded(d2) = Recorded(d),
         \A x \in Nodes : Over(d2, x) => Over(d, x),
         \A x \in Nodes : Over(d, x) => Over(d2, x)
  PROVE  (Going(d) => Going(d2)) /\ (Closing(d, st) => Closing(d2, st))
<1>1. Recorded(d) \subseteq Nodes
  BY DEF Recorded
<1>2. Going(d) => Going(d2)
  BY <1>1, ShapeFacts DEF Going, Before, InTurn
<1>3. ASSUME NEW m \in Nodes, Clear(d, st, m) PROVE Clear(d2, st, m)
  BY <1>1, <1>3 DEF Clear
<1>4. Closing(d, st) => Closing(d2, st)
  BY <1>1, <1>3 DEF Closing, Pulled
<1>. QED BY <1>2, <1>4

(* Queueing keeps what is said of a run of the flow.                       *)
LEMMA TryQueueFlow ==
  ASSUME ShapeOK, NEW d \in Dags, NEW S, GraphsOK(d), NEW st, NEW w, NEW r,
         FlowOK(d, st, w, r), w.at \notin {"seed", "failing"}
  PROVE  LET d2 == TryQueue(d, shape, S)
         IN /\ FlowOK(d2, st, w, r) /\ Recorded(d2) = Recorded(d)
            /\ \A x \in Nodes : Over(d2, x) <=> Over(d, x)
<1>. DEFINE d2 == TryQueue(d, shape, S)
            new == Queueable(d, shape, S)
<1>1. /\ d2.nets = d.nets /\ d2.edges = d.edges /\ d2.members = d.members
      /\ \A m \in Nodes :
           \/ d2.ref[m] = d.ref[m] /\ m \notin new
           \/ m \in shape.locked /\ d.ref[m] # "absent" /\ d2.ref[m] = "done"
           \/ m \in new /\ d2.ref[m] = "queued"
  BY TryQueueEffect
<1>2. \A m \in Nodes : m \in new => d.ref[m] = "waiting"
  BY QueueableIsReady
<1>3. d2.dataOnly = d.dataOnly /\ d2.deferred = d.deferred
  BY TryQueueOthers
<1>. HIDE DEF d2, new
<1>4. Recorded(d2) = Recorded(d)
  BY <1>1, <1>2 DEF Recorded
<1>5. ASSUME NEW x \in Nodes, Over(d2, x) PROVE Over(d, x)
  <2>1. d2.ref[x] = "done" /\ \A g \in Graphs : x \notin d.members[g]
    BY <1>1, <1>5 DEF Over
  <2>2. CASE d.ref[x] = "done"
    BY <2>1, <2>2 DEF Over
  <2>3. CASE d.ref[x] # "done"
    <3>1. x \in shape.locked /\ d.ref[x] # "absent"
      BY <1>1, <2>1, <2>3
    <3>2. d.ref[x] \in NodeStates
      BY DEF Dags
    <3>3. d.ref[x] \notin {"canceled", "errored", "queued", "processing"}
      BY <3>1 DEF FlowOK, EndedOK, GraphsOK, WorkIsReady
    <3>4. Stands(d, x)
      BY <2>3, <3>1, <3>2, <3>3 DEF GraphsOK, WorkStands, NodeStates
    <3>. QED BY <2>1, <3>4 DEF Stands, Dags
  <2>. QED BY <2>2, <2>3
<1>6. \A x \in Nodes : Over(d, x) => Over(d2, x)
  BY <1>1, <1>2 DEF Over
<1>7. (Going(d) => Going(d2)) /\ (Closing(d, st) => Closing(d2, st))
  BY <1>3, <1>4, <1>5, <1>6, SameOver
<1>8. LineOK(d2, st)
  BY <1>3, <1>4, <1>5, <1>7 DEF FlowOK, LineOK, Stays, Rooted
<1>10. w.at = "sinks" => Closed(d2, st)
  <2>. SUFFICES ASSUME w.at = "sinks" PROVE Closed(d2, st)
    OBVIOUS
  <2>1. Closed(d, st)
    BY DEF FlowOK, SeedOK, SeedBut
  <2>2. \A n \in Recorded(d2) \ shape.locked : Over(d2, n) \/ d2.ref[n] \in {"waiting", "queued"}
    BY <1>1, <1>2, <1>4, <1>6, <2>1 DEF Closed, Recorded
  <2>3. \A x \in Turns : Over(d2, x) \/ \A z \in Recorded(d2) \cap After(shape.feeds, x) : ~Over(d2, z)
    BY <1>4, <1>5, <1>6, <2>1, ShapeFacts DEF Closed, Recorded
  <2>. QED BY <1>7, <2>1, <2>2, <2>3 DEF Closed
<1>11. SeedOK(d2, st, w)
  BY <1>3, <1>4, <1>7, <1>10 DEF FlowOK, SeedOK, SeedBut
<1>9. EndedOK(d2, w) /\ RanDone(d2, r)
  BY <1>1, <1>2 DEF FlowOK, EndedOK, RanDone
<1>. QED BY <1>4, <1>5, <1>6, <1>8, <1>9, <1>11 DEF FlowOK, d2

(* A node that was queued or executed goes on or ends.                     *)
Progress(d, ref) ==
  /\ ref \in [Nodes -> NodeStates]
  /\ \A n \in Nodes : \/ ref[n] = d.ref[n]
                      \/ /\ d.ref[n] \in {"queued", "processing"}
                         /\ ref[n] \in {"processing", "done", "errored", "canceled"}

(* Nodes whose records move on keep the values as they are, ...            *)
LEMMA ProgressFresh ==
  ASSUME ShapeOK, NEW d \in Dags, NEW ref, Progress(d, ref), NEW st, NEW w, NEW o,
         o \subseteq Nodes, FreshOK(d, st, w, o),
         \A n \in o : ref[n] \in {"processing", "done"} => ref[n] = d.ref[n]
  PROVE  FreshOK([d EXCEPT !.ref = ref], st, w, o)
<1>. DEFINE d2 == [d EXCEPT !.ref = ref]
<1>1. d2.ref = ref /\ d2.nets = d.nets /\ d2.edges = d.edges
  BY DEF Dags
<1>. HIDE DEF d2
<1>2. Recorded(d2) = Recorded(d)
  BY <1>1 DEF Recorded, Progress
<1>3. Ready(d2, st)
  BY <1>1, <1>2, ShapeFacts DEF FreshOK, Values, Ready, Progress
<1>4. Fed(d2) /\ Asked(d2, st)
  BY <1>1, <1>2 DEF FreshOK, Values, Fed, Asked
<1>5. OutdatedOK(d2, st, w, o)
  BY <1>1 DEF FreshOK, OutdatedOK
<1>6. WaitingOK(d2, st, w)
  BY <1>1 DEF FreshOK, WaitingOK, Progress
<1>. QED BY <1>3, <1>4, <1>5, <1>6 DEF FreshOK, Values, d2

(* ... and the order in which the turns come.                              *)
LEMMA ProgressFlow ==
  ASSUME ShapeOK, NEW d \in Dags, NEW ref, Progress(d, ref), GraphsOK(d), NEW st, NEW w, NEW r,
         FlowOK(d, st, w, r), w.at \notin {"seed", "sinks"}
  PROVE  LET d2 == [d EXCEPT !.ref = ref]
         IN /\ LineOK(d2, st) /\ SeedOK(d2, st, w) /\ Recorded(d2) = Recorded(d)
            /\ \A x \in Nodes : Over(d2, x) <=> Over(d, x)
<1>. DEFINE d2 == [d EXCEPT !.ref = ref]
<1>1. /\ d2.ref = ref /\ d2.nets = d.nets /\ d2.edges = d.edges /\ d2.members = d.members
      /\ d2.dataOnly = d.dataOnly /\ d2.deferred = d.deferred
  BY DEF Dags
<1>. HIDE DEF d2
<1>2. Recorded(d2) = Recorded(d)
  BY <1>1 DEF Recorded, Progress
<1>3. ASSUME NEW x \in Nodes
      PROVE  Over(d2, x) <=> Over(d, x)
  <2>1. CASE ref[x] = d.ref[x]
    BY <1>1, <2>1 DEF Over
  <2>2. CASE d.ref[x] \in {"queued", "processing"}
    <3>1. Stands(d, x)
      BY <2>2 DEF GraphsOK, WorkStands
    <3>2. \E g \in Graphs : x \in d.members[g]
      BY <3>1 DEF Stands, Dags
    <3>. QED BY <1>1, <3>2 DEF Over
  <2>. QED BY <2>1, <2>2 DEF Progress
<1>6. (Going(d) => Going(d2)) /\ (Closing(d, st) => Closing(d2, st))
  BY <1>1, <1>2, <1>3, SameOver
<1>4. LineOK(d2, st)
  BY <1>1, <1>2, <1>3, <1>6 DEF FlowOK, LineOK, Stays, Rooted
<1>5. SeedOK(d2, st, w)
  BY <1>1, <1>2, <1>6 DEF FlowOK, SeedOK, SeedBut
<1>. QED BY <1>2, <1>3, <1>4, <1>5 DEF d2

(* A finished leaf leaves every graph and is resolved.                     *)
LEMMA DropFresh ==
  ASSUME ShapeOK, NEW d \in Dags, NEW n \in Nodes, NEW st \in States, NEW w, NEW o,
         o \subseteq Nodes, FreshOK(d, st, w, o),
         d.ref[n] = "done" \/ (n \in shape.locked /\ d.ref[n] # "absent")
  PROVE  FreshOK(Dropped(d, n), [st EXCEPT ![n] = "resolved"], w, o)
<1>. DEFINE d2 == Dropped(d, n)
            st2 == [st EXCEPT ![n] = "resolved"]
<1>1. /\ d2.nets = d.nets
      /\ d2.ref[n] = "done" /\ \A m \in Nodes \ {n} : d2.ref[m] = d.ref[m]
      /\ \A g \in Graphs : d2.edges[g] = {e \in d.edges[g] : n \notin {e[1], e[2]}}
  BY DropEffect
<1>2. st2[n] = "resolved" /\ \A m \in Nodes \ {n} : st2[m] = st[m]
  BY DEF States
<1>. HIDE DEF d2, st2
<1>3. Recorded(d2) = Recorded(d)
  BY <1>1 DEF Recorded
<1>4. ASSUME NEW e \in Carrying, e[2] = n
      PROVE  st[e[1]] = "resolved"
  <2>1. n \notin shape.locked /\ d.ref[n] = "done"
    BY <1>4 DEF Carrying
  <2>2. e[2] \in Recorded(d)
    BY <1>4, <2>1 DEF Recorded
  <2>. QED BY <1>4, <2>1, <2>2 DEF FreshOK, Values, Ready
<1>5. \A m \in Nodes : st2[m] # "resolved" => st[m] # "resolved" /\ m # n
  BY <1>2
<1>6. StaleBelow(st2)
  <2>1. \A e \in Carrying : st[e[2]] # "resolved" /\ st2[e[2]] = "resolved" => st[e[1]] = "resolved"
    BY <1>2, <1>4, ShapeFacts
  <2>. QED BY <1>5, <2>1, StaleResolving DEF FreshOK, Values
<1>7. Ready(d2, st2)
  <2>. SUFFICES ASSUME NEW e \in Carrying, e[2] \in Recorded(d2), st2[e[1]] # "resolved"
                PROVE  d2.ref[e[2]] = "waiting" /\ \E h \in Graphs : e \in d2.edges[h]
    BY DEF Ready
  <2>1. e[1] \in Nodes /\ e[2] \in Nodes
    BY ShapeFacts
  <2>2. st[e[1]] # "resolved" /\ e[1] # n /\ e[2] # n
    BY <1>4, <1>5, <2>1
  <2>3. d.ref[e[2]] = "waiting" /\ \E h \in Graphs : e \in d.edges[h]
    BY <1>3, <2>2 DEF FreshOK, Values, Ready
  <2>. QED BY <1>1, <2>1, <2>2, <2>3
<1>8. Fed(d2)
  BY <1>1 DEF FreshOK, Values, Fed
<1>9. Asked(d2, st2)
  BY <1>1, <1>3, <1>5, ShapeFacts DEF FreshOK, Values, Asked
<1>10. n \notin o
  BY DEF FreshOK, OutdatedOK
<1>11. OutdatedOK(d2, st2, w, o)
  BY <1>1, <1>2, <1>10 DEF FreshOK, OutdatedOK
<1>12. WaitingOK(d2, st2, w)
  BY <1>1, <1>2 DEF FreshOK, WaitingOK
<1>. QED BY <1>6, <1>7, <1>8, <1>9, <1>11, <1>12 DEF FreshOK, Values, d2, st2

(* A node that is handled as done leaves the graphs, resolved, and is      *)
(* over.                                                                   *)
LEMMA DropFlow ==
  ASSUME ShapeOK, NEW d \in Dags, NEW n \in Nodes, NEW st \in States, NEW w, NEW r,
         FlowOK(d, st, w, r), Ready(d, st), w.at \notin {"seed", "sinks"},
         d.ref[n] = "done" \/ (n \in shape.locked /\ d.ref[n] # "absent")
  PROVE  LET d2 == Dropped(d, n)
         IN /\ FlowOK(d2, [st EXCEPT ![n] = "resolved"], w, r)
            /\ Recorded(d2) = Recorded(d)
            /\ d2.dataOnly = d.dataOnly
            /\ Over(d2, n) /\ \A x \in Nodes \ {n} : Over(d2, x) <=> Over(d, x)
<1>. DEFINE d2 == Dropped(d, n)
            st2 == [st EXCEPT ![n] = "resolved"]
<1>1. /\ d2.ref[n] = "done" /\ \A m \in Nodes \ {n} : d2.ref[m] = d.ref[m]
      /\ \A g \in Graphs : d2.members[g] = d.members[g] \ {n}
  BY DropEffect
<1>2. d2.dataOnly = d.dataOnly /\ d2.deferred = d.deferred
  <2>1. PICK ref, a, b : d2 = [[d EXCEPT !.ref = ref] EXCEPT !.members = a, !.edges = b]
    BY Zenon DEF Dropped, Release
  <2>. HIDE DEF d2
  <2>. QED BY <2>1 DEF Dags
<1>3. st2[n] = "resolved" /\ \A m \in Nodes \ {n} : st2[m] = st[m]
  BY DEF States
<1>. HIDE DEF d2, st2
<1>4. Recorded(d2) = Recorded(d)
  BY <1>1 DEF Recorded
<1>5. Over(d2, n) /\ \A x \in Nodes \ {n} : Over(d2, x) <=> Over(d, x)
  BY <1>1 DEF Over
<1>9. n \in Recorded(d)
  BY DEF Recorded
<1>10. Going(d) => Going(d2)
  BY <1>2, <1>4, <1>5, ShapeFacts DEF Going, Before, InTurn
<1>11. ASSUME Closing(d, st) PROVE Closing(d2, st2)
  <2>1. ASSUME NEW m \in Recorded(d) \ shape.locked, m # n, Clear(d, st, m)
        PROVE  n \notin Downstream(m)
    <3>. SUFFICES ASSUME n \in Downstream(m) PROVE FALSE
      OBVIOUS
    <3>1. m \in Nodes
      BY DEF Recorded
    <3>2. n \notin shape.locked
      BY <3>1, <2>1, DownstreamFacts
    <3>3. PICK e \in Carrying : e[2] = n /\ e[1] \in Downstream(m)
      BY <3>1, <2>1, DownstreamFacts
    <3>4. st[e[1]] = "resolved"
      BY <1>9, <3>2, <3>3 DEF Ready
    <3>5. ~Over(d, n)
      BY <1>9, <2>1 DEF Clear
    <3>6. n \in ToSinks(shape)
      BY <1>9, <1>11, <3>5 DEF Closing, Pulled
    <3>7. e[1] \in ToSinks(shape)
      BY <3>3, <3>6, ShapeFacts, LeadsOn
    <3>. QED BY <2>1, <3>3, <3>4, <3>7 DEF Clear
  <2>2. ASSUME NEW m \in Recorded(d), ~Over(d2, m)
        PROVE  Pulled(d2, m) /\ (m \in shape.locked \/ Clear(d2, st2, m))
    <3>1. m \in Nodes /\ m # n /\ ~Over(d, m)
      BY <1>5, <2>2 DEF Recorded
    <3>2. Pulled(d, m) /\ (m \in shape.locked \/ Clear(d, st, m))
      BY <1>11, <3>1 DEF Closing
    <3>3. Pulled(d2, m)
      BY <1>2, <3>2 DEF Pulled
    <3>4. ASSUME m \notin shape.locked PROVE Clear(d2, st2, m)
      <4>1. Clear(d, st, m) /\ n \notin Downstream(m) /\ Downstream(m) \subseteq Nodes
        BY <2>1, <3>1, <3>2, <3>4, DownstreamFacts
      <4>. QED BY <1>3, <1>4, <1>5, <4>1 DEF Clear
    <3>. QED BY <3>3, <3>4
  <2>. QED BY <1>4, <1>11, <2>2 DEF Closing
<1>6. LineOK(d2, st2)
  BY <1>2, <1>3, <1>4, <1>5, <1>10, <1>11 DEF FlowOK, LineOK, Stays, Rooted
<1>7. SeedOK(d2, st2, w)
  <2>2. Sinks(shape) \subseteq Nodes
    BY ShapeFacts
  <2>. QED BY <1>2, <1>3, <1>4, <1>9, <1>10, <2>2 DEF FlowOK, SeedOK, SeedBut
<1>8. EndedOK(d2, w) /\ RanDone(d2, r)
  BY <1>1 DEF FlowOK, EndedOK, RanDone
<1>. QED BY <1>2, <1>4, <1>5, <1>6, <1>7, <1>8 DEF FlowOK, d2, st2

-----------------------------------------------------------------------------
(* Nodes that are made unresolved, and the driver that moves.              *)

(* A node may be made unresolved while nothing that reads it is recorded   *)
(* and if all below it is made so too or it gets its turn.                 *)
LEMMA UnresolvedFresh ==
  ASSUME ShapeOK, NEW d, NEW st, NEW st2, NEW w, NEW o, o \subseteq Nodes, FreshOK(d, st, w, o),
         \A m \in Nodes : st2[m] = "resolved" => st[m] = "resolved",
         \A e \in Carrying : st[e[1]] = "resolved" /\ st2[e[1]] # "resolved" =>
           /\ e[2] \notin Recorded(d)
           /\ FlowRuns \/ e[2] \notin d.nets,
         \A z \in Nodes \ (Turns \cup shape.locked) : st[z] = "resolved" /\ st2[z] # "resolved" =>
           \A p \in Downstream(z) : st2[p] # "resolved"
  PROVE  FreshOK(d, st2, w, o)
<1>0. \A e \in Carrying : e[1] \in Nodes /\ e[2] \in Nodes
  BY ShapeFacts
<1>1. StaleBelow(st2)
  <2>1. ASSUME NEW z \in Nodes \ (Turns \cup shape.locked), st[z] # "resolved",
               NEW p \in Downstream(z)
        PROVE  st2[p] # "resolved"
    <3>1. st[p] # "resolved" /\ p \in Nodes
      BY <2>1, DownstreamFacts DEF FreshOK, Values, StaleBelow
    <3>. QED BY <3>1
  <2>. QED BY <2>1 DEF StaleBelow
<1>2. Ready(d, st2)
  BY <1>0 DEF FreshOK, Values, Ready
<1>3. Asked(d, st2)
  BY <1>0 DEF FreshOK, Values, Asked
<1>4. OutdatedOK(d, st2, w, o)
  BY DEF FreshOK, OutdatedOK
<1>5. WaitingOK(d, st2, w)
  BY DEF FreshOK, WaitingOK
<1>. QED BY <1>1, <1>2, <1>3, <1>4, <1>5 DEF FreshOK, Values

(* Nodes that become unresolved while none of them is over do no harm,     *)
(* ...                                                                     *)
LEMMA UnresolvedFlow ==
  ASSUME ShapeOK, NEW d, NEW st, NEW st2, NEW w, NEW r, FlowOK(d, st, w, r),
         \A m \in Nodes : st2[m] = "resolved" => st[m] = "resolved",
         \A m \in Nodes : Over(d, m) => st2[m] = "resolved"
  PROVE  FlowOK(d, st2, w, r)
<1>0. Closing(d, st) => Closing(d, st2)
  <2>1. ASSUME NEW m \in Nodes \ shape.locked, Clear(d, st, m) PROVE Clear(d, st2, m)
    BY <2>1, DownstreamFacts DEF Clear
  <2>. QED BY <2>1 DEF Closing, Recorded
<1>1. LineOK(d, st2)
  BY <1>0 DEF FlowOK, LineOK, Stays
<1>2. SeedOK(d, st2, w)
  BY <1>0, ShapeFacts DEF FlowOK, SeedOK, SeedBut, Closed
<1>. QED BY <1>1, <1>2 DEF FlowOK

(* ... neither here.                                                       *)
LEMMA UnresolvedSwept ==
  ASSUME NEW st, NEW st2, NEW s, s \subseteq Nodes, SweptOK(st, s),
         \A m \in Nodes : st2[m] = "resolved" => st[m] = "resolved"
  PROVE  SweptOK(st2, s)
  BY DEF SweptOK

(* The driver may move on, ...                                             *)
LEMMA DriverFresh ==
  ASSUME NEW d, NEW st, NEW w, NEW w2, NEW o, FreshOK(d, st, w, o),
         w.at # "seed", w2.at # "validating"
  PROVE  FreshOK(d, st, w2, o)
  BY DEF FreshOK, OutdatedOK, WaitingOK

(* ... in a run of the flow too.                                           *)
LEMMA DriverFlow ==
  ASSUME NEW d, NEW st, NEW w, NEW w2, NEW r, FlowOK(d, st, w, r),
         w.at \notin {"seed", "sinks", "failing"}, w2.at \notin {"seed", "sinks"}
  PROVE  FlowOK(d, st, w2, r)
  BY DEF FlowOK, SeedOK, SeedBut, EndedOK

(* With empty graphs only the resolution states matter.                    *)
LEMMA EmptyFresh ==
  ASSUME NEW st, NEW w, NEW o, o \subseteq Nodes, StaleBelow(st),
         \A n \in o : n \notin shape.locked /\ st[n] # "resolved", w.at # "validating"
  PROVE  FreshOK(EmptyDag, st, w, o)
<1>1. /\ \A n \in Nodes : EmptyDag.ref[n] = "absent" /\ EmptyDag.nets = {}
      /\ \A g \in Graphs : EmptyDag.edges[g] = {}
  BY DEF EmptyDag
<1>2. Recorded(EmptyDag) = {} /\ EmptyDag.nets = {}
  BY <1>1 DEF Recorded, EmptyDag
<1>. QED BY <1>1, <1>2 DEF FreshOK, Values, Ready, Fed, Asked, OutdatedOK, WaitingOK

-----------------------------------------------------------------------------
(* The steps.                                                              *)

(* What the invariants say of a state, for the proofs below to cite.       *)
LEMMA FreshFacts ==
  ASSUME OrderlyRuns, PInv, FInv
  PROVE  /\ ShapeOK /\ ModeOK
         /\ FlowRuns => Requests = {}
         /\ dag \in Dags /\ state \in States /\ outdated \subseteq Nodes /\ swept \subseteq Nodes
         /\ GraphsOK(dag)
         /\ FreshOK(dag, state, drv, outdated)
         /\ cur = "dag" => SweptOK(state, swept)
         /\ FlowRuns /\ cur = "dag" => FlowOK(dag, state, drv, ran)
<1>1. shape \in WorkflowShapes /\ outdated \subseteq Nodes /\ swept \subseteq Nodes
  BY DEF PInv, TypeOK
<1>2. ShapeOK
  BY <1>1 DEF FInv, OrderlyRuns, ShapeOK
<1>3. GraphsOK(dag) /\ dag \in Dags /\ state \in States
  BY WorkFacts DEF Steady
<1>. QED BY <1>1, <1>2, <1>3 DEF FInv, OrderlyRuns

(* What a step must show for the invariant to hold after it.               *)
LEMMA FreshFrom ==
  ASSUME FInv, shape' = shape, ModeOK',
         FreshOK(dag', state', drv', outdated'),
         cur' = "dag" => SweptOK(state', swept'),
         FlowRuns /\ cur' = "dag" => FlowOK(dag', state', drv', ran')
  PROVE  FInv'
<1>1. Turns' = Turns /\ Carrying' = Carrying
  BY DEF Turns, Carrying
<1>2. FreshOK(dag, state, drv, outdated)'
  BY <1>1 DEF FreshOK, Values, StaleBelow, Downstream, Ready, Fed, Asked, OutdatedOK, WaitingOK
<1>3. cur' = "dag" => SweptOK(state, swept)'
  BY <1>1 DEF SweptOK
<1>4. FlowRuns /\ cur' = "dag" => FlowOK(dag, state, drv, ran)'
  <2>1. /\ Closing(dag, state)' <=> Closing(dag', state')
        /\ Going(dag)' <=> Going(dag')
    BY <1>1 DEF Closing, Clear, Pulled, Downstream, Going, Before, InTurn
  <2>2. Closed(dag, state)' <=> Closed(dag', state')
    BY <1>1, <2>1 DEF Closed
  <2>. QED BY <1>1, <2>1, <2>2 DEF FlowOK, LineOK, Stays, Rooted, SeedOK, SeedBut, EndedOK, RanDone
<1>. QED BY <1>2, <1>3, <1>4 DEF FInv

(* No step mixes runs of the flow with requests for single nodes.          *)
LEMMA ModeKept ==
  ASSUME ModeOK, single' = single, Running' => Running,
         ~FlowRuns => dag'.deferred = {}, drv' = drv \/ drv'.at # "seed"
  PROVE  ModeOK'
<1>1. ~FlowRuns /\ Running' => single'
  BY DEF ModeOK
<1>. QED BY <1>1 DEF ModeOK

(* Steps that change no value and nothing of the graphs.                   *)
LEMMA QuietFresh ==
  ASSUME OrderlyRuns, PInv, FInv,
         UNCHANGED <<shape, state, dag, swept, cur, single, ran, outdated>>,
         \/ drv' = drv
         \/ drv.at \notin {"seed", "sinks", "failing"} /\ drv'.at \notin {"seed", "sinks", "validating"}
  PROVE  FInv'
<1>1. ModeOK'
  <2>1. ModeOK
    BY FreshFacts
  <2>2. Running' => Running
    BY DEF Running
  <2>3. ~FlowRuns => dag'.deferred = {}
    BY <2>1 DEF ModeOK
  <2>. QED BY <2>1, <2>2, <2>3, ModeKept
<1>2. FreshOK(dag, state, drv', outdated)
  BY FreshFacts, DriverFresh
<1>3. FlowRuns /\ cur = "dag" => FlowOK(dag, state, drv', ran)
  BY FreshFacts, DriverFlow
<1>. QED BY <1>1, <1>2, <1>3, FreshFacts, FreshFrom

(* A run ends; what was executing is given back, as unresolved as it was.  *)
LEMMA EndFresh ==
  ASSUME OrderlyRuns, PInv, FInv, UNCHANGED <<shape, outdated>>,
         dag' = EmptyDag, drv'.at = "idle", single' = FALSE, cur' \notin {"dag", "error"},
         NEW st, FreshOK(dag, st, drv, outdated),
         \A m \in Nodes : state'[m] = "resolved" <=> st[m] = "resolved"
  PROVE  FInv'
<1>1. ModeOK'
  <2>1. EmptyDag.deferred = {}
    BY DEF EmptyDag
  <2>. QED BY <2>1 DEF ModeOK, Running
<1>2. StaleBelow(state')
  <2>1. StaleBelow(st) /\ \A z \in Nodes \ shape.locked : Downstream(z) \subseteq Nodes
    BY FreshFacts, DownstreamFacts DEF FreshOK, Values
  <2>. QED BY <2>1 DEF StaleBelow
<1>3. \A n \in outdated : n \notin shape.locked /\ state'[n] # "resolved"
  BY FreshFacts DEF FreshOK, OutdatedOK
<1>4. FreshOK(EmptyDag, state', drv', outdated)
  BY <1>2, <1>3, FreshFacts, EmptyFresh
<1>. QED BY <1>1, <1>4, FreshFrom

(* The steps that touch neither graphs, nor records of nodes, nor values.  *)
LEMMA AsideFresh ==
  ASSUME OrderlyRuns, PInv, FInv,
         \/ Wait \/ ValidationFails \/ Recheck \/ PopEnds \/ ErrorWaits \/ ErrorWakes
         \/ Pause \/ Continue \/ CancelRun \/ CancelRaises
         \/ CancelTasks /\ Mapped # {}
         \/ \E g \in Graphs : PopGraph(g)
         \/ \E n \in Nodes : CollectFails(n) \/ TaskEnds(n) \/ OrphanEnds(n) \/ ValidatedLate(n)
         \/ UNCHANGED vars
  PROVE  FInv'
<1>1. CASE Wait \/ ValidationFails \/ Recheck \/ PopEnds \/ ErrorWaits \/ ErrorWakes
           \/ \E n \in Nodes : CollectFails(n)
  <2>1. /\ UNCHANGED <<shape, state, dag, swept, cur, single, ran, outdated>>
        /\ drv.at \in {"drain", "validating", "parked", "pop", "error", "reaping"}
        /\ drv'.at \in {"waiting", "parked", "failing", "pop", "idle", "update", "reaping", "error"}
    BY <1>1 DEF Wait, ValidationFails, Recheck, PopEnds, ErrorWaits, ErrorWakes, CollectFails,
                machineVars, GoTo, Fail, StartPop, Rest
  <2>. QED BY <2>1, QuietFresh
<1>2. CASE \E g \in Graphs : PopGraph(g)
  <2>1. /\ UNCHANGED <<shape, state, dag, swept, cur, single, ran, outdated>> /\ drv.at = "pop"
        /\ \E g \in Graphs : drv' = [drv EXCEPT !.at = "popping", !.node = g, !.todo = drv.todo \ {g},
                                                !.leaves = Leaves(dag, g)]
    BY <1>2 DEF PopGraph, machineVars
  <2>2. drv \in [at : Suspended \cup Holding, node : Graphs, todo : SUBSET Graphs,
                 leaves : SUBSET Nodes, starts : SUBSET Nodes]
    BY DEF PInv, TypeOK
  <2>3. drv'.at = "popping"
    BY <2>1, <2>2
  <2>. QED BY <2>1, <2>3, QuietFresh
<1>3. CASE Continue
  <2>1. /\ UNCHANGED <<shape, state, dag, swept, cur, single, ran, outdated>>
        /\ drv' = drv \/ (drv.at = "idle" /\ drv'.at \in {"update", "error"})
    BY <1>3 DEF Continue, GoTo, Rest
  <2>. QED BY <2>1, QuietFresh
<1>4. CASE \/ Pause \/ CancelRun \/ CancelRaises \/ UNCHANGED vars
           \/ CancelTasks /\ Mapped # {}
           \/ \E n \in Nodes : TaskEnds(n) \/ OrphanEnds(n) \/ ValidatedLate(n)
  <2>1. UNCHANGED <<shape, state, dag, swept, cur, single, ran, outdated, drv>>
    BY <1>4 DEF Pause, CancelRun, CancelRaises, CancelTasks, TaskEnds, OrphanEnds, ValidatedLate,
                vars, machineVars
  <2>. QED BY <2>1, QuietFresh
<1>. QED BY <1>1, <1>2, <1>3, <1>4

(* Giving a node back does not resolve it.                                 *)
LEMMA GivenBackResolved ==
  ASSUME NEW st \in States, NEW m \in Nodes
  PROVE  GivenBack(st)[m] = "resolved" <=> st[m] = "resolved"
  BY DEF GivenBack, Unresolved, States

(* A reset leaves empty graphs.                                            *)
LEMMA ResetFresh ==
  ASSUME OrderlyRuns, PInv, FInv, Reset
  PROVE  FInv'
<1>1. /\ UNCHANGED <<shape, outdated>> /\ dag' = EmptyDag /\ drv'.at = "idle"
      /\ single' = FALSE /\ cur' \notin {"dag", "error"} /\ state' = GivenBack(state)
  BY DEF Reset, Rest
<1>2. \A m \in Nodes : state'[m] = "resolved" <=> state[m] = "resolved"
  BY <1>1, GivenBackResolved, FreshFacts
<1>. QED BY <1>1, <1>2, EndFresh, FreshFacts

(* The steps of a cancel.                                                  *)
LEMMA CancellerFresh ==
  ASSUME OrderlyRuns, PInv, FInv, Canceller
  PROVE  FInv'
<1>1. Reset \/ (CancelTasks /\ Mapped # {}) \/ CancelRaises
  BY Zenon DEF Canceller, CancelTasks, CancelEnds
<1>. QED BY <1>1, ResetFresh, AsideFresh

(* When no graph has a leaf left, none has a node left: the data has no    *)
(* cycle.                                                                  *)
LEMMA NothingLeft ==
  ASSUME ShapeOK, FlowRuns, NEW d \in Dags, GraphsOK(d), Fed(d), AllLeaves(d) = {},
         \A n \in Nodes : d.ref[n] \notin {"canceled", "errored"}
  PROVE  \A n \in Recorded(d) : Over(d, n)
<1>1. \A g \in Graphs : d.members[g] = {}
  <2>. SUFFICES ASSUME NEW g \in Graphs, d.members[g] # {} PROVE FALSE
    OBVIOUS
  <2>1. g \in d.nets
    BY DEF GraphsOK, NetsOnly
  <2>2. NoCycle(shape.feeds) /\ d.members[g] \in SUBSET Nodes
    BY DEF ShapeOK, InLine, Dags
  <2>3. PICK n \in d.members[g] : \A m \in d.members[g] : <<m, n>> \notin shape.feeds
    BY <2>2 DEF NoCycle
  <2>4. \A m \in Nodes : <<m, n>> \notin d.edges[g]
    BY <2>3 DEF GraphsOK, EdgesInside, Fed
  <2>5. n \in AllLeaves(d)
    BY <2>1, <2>4 DEF AllLeaves, Leaves
  <2>. QED BY <2>5
<1>2. \A n \in Nodes : ~Stands(d, n)
  BY <1>1 DEF Stands, Dags
<1>3. \A n \in Nodes : d.ref[n] \in {"absent", "done"}
  BY <1>2 DEF GraphsOK, WorkStands, Dags, NodeStates
<1>. QED BY <1>1, <1>3 DEF Recorded, Over

(* When no graph has a leaf left, everything recorded is over.             *)
LEMMA LeftAtUpdate ==
  ASSUME OrderlyRuns, PInv, FInv, FlowRuns, drv.at = "update", AllLeaves(dag) = {}
  PROVE  cur = "dag" /\ \A n \in Recorded(dag) : Over(dag, n)
<1>1. cur = "dag"
  BY DEF PInv, DriverOK, Running
<1>2. FlowOK(dag, state, drv, ran) /\ Fed(dag)
  BY <1>1, FreshFacts DEF FreshOK, Values
<1>3. \A n \in Nodes : dag.ref[n] \notin {"canceled", "errored"}
  BY <1>2 DEF FlowOK, EndedOK
<1>4. \A n \in Recorded(dag) : Over(dag, n)
  BY <1>2, <1>3, FreshFacts, NothingLeft
<1>. QED BY <1>1, <1>4

(* The head of the driver's loop: the run completes, turns to its          *)
(* deferred sinks or goes on.                                              *)
LEMMA UpdateFresh ==
  ASSUME OrderlyRuns, PInv, FInv, Update
  PROVE  FInv'
<1>1. drv.at = "update" /\ UNCHANGED <<shape, state, swept, ran, outdated>>
  BY DEF Update
<1>2. CASE UNCHANGED <<dag, cur, single>> /\ drv'.at \in {"idle", "drain"}
  BY <1>1, <1>2, QuietFresh
<1>3. CASE /\ UNCHANGED <<dag, cur, single>> /\ drv'.at = "sinks"
           /\ AllLeaves(dag) = {} /\ dag.deferred # {}
  <2>1. FlowRuns
    BY <1>3, FreshFacts DEF ModeOK
  <2>2. cur = "dag" /\ \A n \in Recorded(dag) : Over(dag, n)
    BY <1>1, <1>3, <2>1, LeftAtUpdate
  <2>3. FlowOK(dag, state, drv, ran) /\ SweptOK(state, swept)
    BY <2>1, <2>2, FreshFacts
  <2>7. Going(dag) /\ Entries(shape) \subseteq Recorded(dag)
    BY <1>1, <1>3, <2>3 DEF FlowOK, SeedOK, SeedBut
  <2>8. Closed(dag, state)
    BY <2>2, <2>7 DEF Closed, Closing, Going, Before
  <2>4. FlowOK(dag, state, drv', ran)
    BY <1>1, <1>3, <2>3, <2>8 DEF FlowOK, SeedOK, SeedBut, EndedOK
  <2>5. FreshOK(dag, state, drv', outdated)
    BY <1>1, <1>3, FreshFacts, DriverFresh
  <2>6. ModeOK'
    BY <1>3, <2>1, FreshFacts DEF ModeOK
  <2>. QED BY <1>1, <1>3, <2>3, <2>4, <2>5, <2>6, FreshFrom
<1>4. CASE \E outcome : Complete(outcome)
  <2>1. /\ dag' = EmptyDag /\ drv'.at = "idle" /\ single' = FALSE /\ cur' = "complete"
    BY <1>4 DEF Complete, Rest
  <2>. QED BY <1>1, <2>1, EndFresh, FreshFacts
<1>. QED BY <1>2, <1>3, <1>4 DEF Update, GoTo, Rest

-----------------------------------------------------------------------------
(* Seeding a run.                                                          *)

(* What is added to a graph leaves the graphs well-formed.                 *)
LEMMA AddGraphs ==
  ASSUME ShapeOK, NEW d \in Dags, GraphsOK(d), NEW st, NEW n \in Nodes, NEW g \in Graphs
  PROVE  Add(d, Needed(st), n, g) \in Dags /\ GraphsOK(Add(d, Needed(st), n, g))
<1>. DEFINE needed == Needed(st)
            new == NewNodes(d, needed, n)
            d2 == Add(d, needed, n, g)
<1>1. needed \in SUBSET (Nodes \X Nodes)
  BY ShapeFacts DEF Needed
<1>2. /\ new \in SUBSET Nodes /\ \A m \in new : d.ref[m] = "absent"
      /\ Added(d, d2, needed, new, g)
  BY <1>1, NewNodesFresh, AddEffect
<1>3. d2 \in Dags
  BY <1>2 DEF Added
<1>4. d2 \in Dags /\ GraphsOK(d2)
  <2>. HIDE DEF needed, new, d2
  <2>. QED BY <1>1, <1>2, <1>3, AddKeepsGraphs
<1>. QED BY <1>4

(* No value comes back to a node the walk from it added.                   *)
LEMMA NoLoop ==
  ASSUME ShapeOK, FlowRuns, NEW d, NEW st, NEW n \in Nodes, NEW e \in shape.feeds,
         e[2] \in NewNodes(d, Needed(st), n)
  PROVE  e[1] # n
<1>. SUFFICES ASSUME e[1] = n PROVE FALSE
  OBVIOUS
<1>1. shape.feeds \in SUBSET (Nodes \X Nodes) /\ NoCycle(shape.feeds)
  BY ShapeFacts DEF ShapeOK, InLine
<1>2. e[2] \in After(shape.feeds, n) /\ After(shape.feeds, e[2]) \subseteq After(shape.feeds, n)
  BY <1>1, AfterNext
<1>3. e[2] = n \/ n \in After(shape.feeds, e[2])
  BY NewNodesAbove
<1>. QED BY <1>1, <1>2, <1>3, NoWayBack

(* Nothing that gets a turn comes before an entry.                         *)
LEMMA EntryFirst ==
  ASSUME ShapeOK, FlowRuns, NEW n \in Entries(shape), NEW x \in Turns
  PROVE  n \notin After(shape.feeds, x)
<1>. SUFFICES ASSUME n \in After(shape.feeds, x) PROVE FALSE
  OBVIOUS
<1>1. n \in Turns /\ x \in Nodes /\ shape.wires \in SUBSET (Nodes \X Nodes)
  BY TurnsFacts, ShapeFacts
<1>2. n \in After(shape.wires, x)
  BY <1>1, TurnsInOrder
<1>3. PICK e \in shape.wires : e[2] = n
  BY <1>1, <1>2, AfterLast
<1>. QED BY <1>3, TurnsFacts

(* Nobody reads the value of a sink.                                       *)
LEMMA SinksFeedNobody ==
  ASSUME NEW n \in Sinks(shape), NEW e \in shape.feeds
  PROVE  e[1] # n
  BY DEF Sinks

(* Nothing is recorded of a run that begins.                               *)
LEMMA EmptyFlow ==
  ASSUME ShapeOK, NEW st, NEW w
  PROVE  /\ LineOK(EmptyDag, st) /\ EndedOK(EmptyDag, w) /\ RanDone(EmptyDag, {})
         /\ Going(EmptyDag) /\ GraphsOK(EmptyDag) /\ EmptyDag.deferred = {}
         /\ \A n \in Nodes : EmptyDag.ref[n] = "absent"
<1>1. /\ \A n \in Nodes : EmptyDag.ref[n] = "absent"
      /\ \A g \in Graphs : EmptyDag.members[g] = {} /\ EmptyDag.edges[g] = {} /\ EmptyDag.homes[g] = {}
      /\ EmptyDag.deferred = {} /\ EmptyDag.dataOnly = {}
  BY DEF EmptyDag
<1>2. Recorded(EmptyDag) = {} /\ \A n \in Nodes : ~Over(EmptyDag, n)
  BY <1>1 DEF Recorded, Over
<1>4. Going(EmptyDag)
  BY <1>1, <1>2, ShapeFacts DEF Going, Before, InTurn
<1>3. LineOK(EmptyDag, st)
  BY <1>2, <1>4 DEF LineOK, Stays, Rooted
<1>5. GraphsOK(EmptyDag)
  BY <1>1 DEF GraphsOK, EdgesInside, NetsOnly, HomesApart, HomesKept, WorkStands, WorkIsReady
<1>6. EndedOK(EmptyDag, w) /\ RanDone(EmptyDag, {})
  BY <1>1 DEF EndedOK, RanDone
<1>. QED BY <1>1, <1>3, <1>4, <1>5, <1>6

(* A run of the flow begins, with nothing recorded.                        *)
LEMMA StartFlowFresh ==
  ASSUME GraphsAssumption, OrderlyRuns, PInv, FInv, NEW n \in Nodes, StartFlow(n)
  PROVE  FInv'
<1>1. /\ FlowRuns /\ shape' = shape /\ state' = state /\ outdated' = outdated
      /\ swept' = {} /\ ran' = {} /\ cur' = "dag" /\ single' = FALSE
      /\ drv.at = "idle"
  BY DEF StartFlow, NewMachine
<1>2. dag = EmptyDag
  BY DEF StartFlow, NewMachine, PInv, DriverOK
<1>3. dag' = Add(EmptyDag, Needed(state), n, n)
  BY <1>2 DEF StartFlow
<1>4. /\ drv'.at = "seed" /\ drv'.starts = {n}
      /\ drv'.todo = (Entries(shape) \cup Sinks(shape)) \ {n}
  BY DEF StartFlow, Rest
<1>5. n \in Entries(shape) \/ (n \in Sinks(shape) /\ Entries(shape) = {})
  BY DEF StartFlow
<1>6. ShapeOK /\ outdated \subseteq Nodes /\ state \in States
  BY FreshFacts
<1>7. FreshOK(EmptyDag, state, drv', outdated)
  <2>1. StaleBelow(state) /\ \A m \in outdated : m \notin shape.locked /\ state[m] # "resolved"
    BY FreshFacts DEF FreshOK, Values, OutdatedOK
  <2>. QED BY <1>4, <1>6, <2>1, EmptyFresh
<1>8. FreshOK(dag', state, drv', outdated)
  <2>1. n \in Graphs /\ EmptyDag \in Dags
    BY EmptyTypes DEF Graphs
  <2>. QED BY <1>1, <1>3, <1>4, <1>6, <1>7, <2>1, AddFresh
<1>9. FlowOK(dag', state, drv', {})
  <2>1. /\ LineOK(EmptyDag, state) /\ EndedOK(EmptyDag, drv') /\ RanDone(EmptyDag, {})
        /\ Going(EmptyDag) /\ EmptyDag.deferred = {}
        /\ \A m \in Nodes : EmptyDag.ref[m] = "absent"
    BY <1>6, EmptyFlow
  <2>2. SeedBut(EmptyDag, state, drv', {n})
    BY <1>4, <1>5, <2>1 DEF SeedBut, Recorded
  <2>3. n \in Turns \cup Sinks(shape) /\ \A e \in shape.wires : e[2] # n
    BY <1>1, <1>5, <1>6, TurnsFacts
  <2>4. \A x \in Turns : n \notin After(shape.feeds, x)
    <3>1. CASE n \in Entries(shape)
      BY <1>1, <1>6, <3>1, EntryFirst
    <3>2. CASE Entries(shape) = {}
      <4>1. {} \in SUBSET Nodes /\ {} \subseteq Nodes
        OBVIOUS
      <4>2. Reach(shape.wires, {}) \subseteq {}
        BY <4>1, ReachLeast
      <4>. QED BY <3>2, <4>2 DEF Turns, Controlled
    <3>. QED BY <1>5, <3>1, <3>2
  <2>5. n \in Graphs /\ EmptyDag \in Dags
    BY EmptyTypes DEF Graphs
  <2>. QED BY <1>1, <1>3, <1>4, <1>6, <2>1, <2>2, <2>3, <2>4, <2>5, AddFlow
<1>10. ModeOK'
  BY <1>1 DEF ModeOK
<1>11. SweptOK(state, {})
  BY DEF SweptOK
<1>. QED BY <1>1, <1>8, <1>9, <1>10, <1>11, FreshFrom

(* While a run is seeded nothing is over, so nothing that reads a node     *)
(* that gets its turn is recorded.                                         *)
LEMMA SeedFacts ==
  ASSUME OrderlyRuns, PInv, FInv, FlowRuns, drv.at = "seed"
  PROVE  /\ cur = "dag" /\ FlowOK(dag, state, drv, ran) /\ Going(dag)
         /\ drv.starts \subseteq Nodes /\ drv.todo \subseteq Nodes
         /\ \A n \in Nodes : ~Over(dag, n)
         /\ \A n \in Turns : \A e \in shape.feeds : e[1] = n => e[2] \notin Recorded(dag)
<1>1. cur = "dag"
  BY DEF PInv, DriverOK, Running
<1>2. FlowOK(dag, state, drv, ran) /\ ShapeOK
  BY <1>1, FreshFacts
<1>3. \A n \in Nodes : ~Over(dag, n)
  BY <1>2 DEF FlowOK, SeedOK, SeedBut, Over
<1>7. Going(dag)
  BY <1>2 DEF FlowOK, SeedOK, SeedBut
<1>4. drv.starts \subseteq Nodes
  BY DEF PInv, TypeOK
<1>5. drv.todo \subseteq Nodes
  BY <1>2, ShapeFacts DEF FlowOK, SeedOK, SeedBut
<1>6. ASSUME NEW n \in Turns, NEW e \in shape.feeds, e[1] = n, e[2] \in Recorded(dag)
      PROVE  FALSE
  <2>1. e[2] \in After(shape.feeds, n) /\ n \in Nodes
    BY <1>2, <1>6, ShapeFacts, AfterNext
  <2>. QED BY <1>3, <1>6, <1>7, <2>1 DEF Going, Before
<1>. QED BY <1>1, <1>2, <1>3, <1>4, <1>5, <1>6, <1>7

(* What the run is seeded with is made unresolved.                         *)
LEMMA SeededFresh ==
  ASSUME OrderlyRuns, PInv, FInv, FlowRuns, drv.at = "seed",
         NEW S \in SUBSET (Entries(shape) \cup Sinks(shape)), NEW st, st = Unresolved(state, S)
  PROVE  /\ st \in States /\ FreshOK(dag, st, drv, outdated) /\ SweptOK(st, swept)
         /\ FlowOK(dag, st, drv, ran)
         /\ \A m \in Nodes : st[m] = IF m \in S THEN "unresolved" ELSE state[m]
<1>1. /\ st \in States
      /\ \A m \in Nodes : st[m] = IF m \in S THEN "unresolved" ELSE state[m]
  BY FreshFacts DEF Unresolved, States
<1>2. \A m \in Nodes : st[m] = "resolved" => state[m] = "resolved"
  BY <1>1
<1>3. ASSUME NEW e \in Carrying, state[e[1]] = "resolved", st[e[1]] # "resolved"
      PROVE  e[2] \notin Recorded(dag) /\ e[1] \in Turns
  <2>1. e \in shape.feeds /\ e[1] \in Nodes
    BY FreshFacts, ShapeFacts
  <2>2. e[1] \in Entries(shape)
    BY <1>1, <1>3, <2>1, SinksFeedNobody
  <2>3. e[1] \in Turns
    BY <2>2, FreshFacts, TurnsFacts
  <2>. QED BY <2>1, <2>3, SeedFacts
<1>7. ASSUME NEW z \in Nodes \ (Turns \cup shape.locked), state[z] = "resolved", st[z] # "resolved"
      PROVE  \A p \in Downstream(z) : st[p] # "resolved"
  <2>1. z \in Sinks(shape)
    BY <1>1, <1>7, FreshFacts, TurnsFacts
  <2>2. \A e \in Carrying : e[1] # z
    BY <2>1, FreshFacts, ShapeFacts, SinksFeedNobody
  <2>3. Downstream(z) \subseteq {z}
    BY <2>2, FreshFacts, DownstreamOfLast
  <2>. QED BY <1>7, <2>3
<1>4. FreshOK(dag, st, drv, outdated)
  BY <1>2, <1>3, <1>7, FreshFacts, UnresolvedFresh
<1>5. FlowOK(dag, st, drv, ran)
  BY <1>2, FreshFacts, SeedFacts, UnresolvedFlow
<1>6. SweptOK(st, swept)
  BY <1>2, FreshFacts, SeedFacts, UnresolvedSwept
<1>. QED BY <1>1, <1>4, <1>5, <1>6

(* Nothing but what is put off changes.                                    *)
LEMMA DeferFresh ==
  ASSUME ShapeOK, NEW d \in Dags, NEW X \in SUBSET Nodes
  PROVE  LET d2 == [d EXCEPT !.deferred = X]
         IN /\ d2 \in Dags /\ d2.ref = d.ref /\ d2.deferred = X
            /\ GraphsOK(d) => GraphsOK(d2)
            /\ \A st, w, o : FreshOK(d, st, w, o) => FreshOK(d2, st, w, o)
            /\ \A st : LineOK(d, st) => LineOK(d2, st)
            /\ \A st : Closed(d, st) => Closed(d2, st)
            /\ Going(d) => Going(d2)
            /\ \A x \in Nodes : Over(d2, x) <=> Over(d, x)
<1>. DEFINE d2 == [d EXCEPT !.deferred = X]
<1>1. /\ d2 \in Dags /\ d2.ref = d.ref /\ d2.dataOnly = d.dataOnly /\ d2.nets = d.nets
      /\ d2.members = d.members /\ d2.edges = d.edges /\ d2.homes = d.homes /\ d2.deferred = X
  BY DEF Dags
<1>. HIDE DEF d2
<1>2. Recorded(d2) = Recorded(d)
  BY <1>1 DEF Recorded
<1>3. \A x : Over(d2, x) <=> Over(d, x)
  BY <1>1 DEF Over
<1>4. ASSUME GraphsOK(d) PROVE GraphsOK(d2)
  BY <1>1, <1>4 DEF GraphsOK, EdgesInside, NetsOnly, HomesApart, HomesKept, WorkStands,
                    WorkIsReady, Stands, NothingBefore
<1>5. ASSUME NEW st, NEW w, NEW o, FreshOK(d, st, w, o) PROVE FreshOK(d2, st, w, o)
  BY <1>1, <1>2, <1>5 DEF FreshOK, Values, Ready, Fed, Asked, OutdatedOK, WaitingOK
<1>7. (Going(d) => Going(d2)) /\ \A st : Closing(d, st) => Closing(d2, st)
  BY <1>1, <1>2, <1>3, SameOver
<1>6. ASSUME NEW st, LineOK(d, st) PROVE LineOK(d2, st)
  BY <1>1, <1>2, <1>3, <1>6, <1>7 DEF LineOK, Stays, Rooted
<1>8. ASSUME NEW st, Closed(d, st) PROVE Closed(d2, st)
  <2>1. Closing(d2, st)
    BY <1>7, <1>8 DEF Closed
  <2>. QED BY <1>1, <1>2, <1>3, <1>8, <2>1 DEF Closed
<1>. QED BY <1>1, <1>3, <1>4, <1>5, <1>6, <1>7, <1>8 DEF d2

(* An entry is seeded.                                                     *)
LEMMA SeedEntryFresh ==
  ASSUME OrderlyRuns, PInv, FInv, NEW n \in Nodes, SeedEntry(n)
  PROVE  FInv'
<1>1. /\ drv.at = "seed" /\ n \in drv.todo /\ n \in Entries(shape)
      /\ state' = Unresolved(state, {n})
      /\ UNCHANGED <<shape, swept, cur, single, ran, outdated>>
  BY DEF SeedEntry, machineVars
<1>2. FlowRuns
  BY <1>1 DEF FInv, ModeOK
<1>3. /\ state' \in States /\ FreshOK(dag, state', drv, outdated) /\ SweptOK(state', swept)
      /\ FlowOK(dag, state', drv, ran)
      /\ \A m \in Nodes : state'[m] = IF m = n THEN "unresolved" ELSE state[m]
  BY <1>1, <1>2, SeededFresh
<1>4. ShapeOK /\ dag \in Dags /\ outdated \subseteq Nodes
  BY <1>1, <1>2, FreshFacts, SeedFacts
<1>5. /\ n \in Turns /\ n \notin Sinks(shape) /\ \A e \in shape.wires : e[2] # n
      /\ \A x \in Turns : n \notin After(shape.feeds, x)
  BY <1>1, <1>2, <1>4, TurnsFacts, EntryFirst
<1>6. drv \in Drivers
  BY TypeParts DEF DriverTypes
<1>7. CASE n \in Recorded(dag)
  <2>1. drv' = [drv EXCEPT !.todo = @ \ {n}] /\ dag' = dag
    BY <1>7 DEF SeedEntry
  <2>2. drv'.at = "seed" /\ drv'.todo = drv.todo \ {n} /\ drv'.starts = drv.starts
    BY <1>1, <1>6, <2>1 DEF Drivers
  <2>3. FreshOK(dag, state', drv', outdated)
    BY <1>1, <1>3, <2>2 DEF FreshOK, OutdatedOK, WaitingOK
  <2>4. FlowOK(dag, state', drv', ran)
    BY <1>1, <1>3, <1>5, <1>7, <2>2 DEF FlowOK, SeedOK, SeedBut, EndedOK
  <2>5. ModeOK'
    BY <1>1, <1>2 DEF FInv, ModeOK
  <2>. QED BY <1>1, <1>3, <1>4, <2>1, <2>3, <2>4, <2>5, FreshFrom
<1>8. CASE n \notin Recorded(dag)
  <2>1. /\ drv' = [drv EXCEPT !.todo = @ \ {n}, !.starts = @ \cup {n}]
        /\ dag' = Add(dag, Needed(state), n, n)
    BY <1>8 DEF SeedEntry
  <2>2. drv'.at = "seed" /\ drv'.todo = drv.todo \ {n} /\ drv'.starts = drv.starts \cup {n}
    BY <1>1, <1>6, <2>1 DEF Drivers
  <2>3. FreshOK(dag, state', drv', outdated)
    BY <1>1, <1>3, <2>2 DEF FreshOK, OutdatedOK, WaitingOK
  <2>4. SeedBut(dag, state', drv', {n}) /\ EndedOK(dag, drv')
    BY <1>1, <1>3, <1>5, <2>2 DEF FlowOK, SeedOK, SeedBut, EndedOK
  <2>5. \A m \in Nodes : state[m] # "resolved" => state'[m] # "resolved"
    BY <1>3
  <2>6. \A e \in shape.feeds : e[2] \in NewNodes(dag, Needed(state), n) /\ state'[e[1]] # "resolved"
                                 => state[e[1]] # "resolved"
    BY <1>2, <1>3, <1>4, NoLoop, ShapeFacts
  <2>7. n \in Graphs
    BY DEF Graphs
  <2>8. FreshOK(dag', state', drv', outdated)
    BY <1>2, <1>3, <1>4, <2>1, <2>2, <2>3, <2>5, <2>6, <2>7, AddFresh
  <2>9. /\ FlowOK(dag', state', drv', ran) /\ Recorded(dag) \subseteq Recorded(dag')
        /\ \A x \in Nodes : Over(dag', x) <=> Over(dag, x)
    <3>1. LineOK(dag, state') /\ RanDone(dag, ran)
      BY <1>3 DEF FlowOK
    <3>2. n \in Turns \cup Sinks(shape) /\ n \in drv'.starts \cup Sinks(shape)
      BY <1>5, <2>2
    <3>3. \A x \in Turns : n \in After(shape.feeds, x) => Over(dag, x)
      BY <1>5
    <3>4. \A e \in shape.wires : e[2] = n => Over(dag, e[1])
      BY <1>5
    <3>5. SeedBut(dag, state', drv', {n}) /\ EndedOK(dag, drv')
      BY <2>4
    <3>6. LET d2 == Add(dag, Needed(state), n, n)
          IN /\ FlowOK(d2, state', drv', ran) /\ n \in Recorded(d2)
             /\ Recorded(dag) \subseteq Recorded(d2)
             /\ \A x \in Nodes : Over(d2, x) <=> Over(dag, x)
      BY <1>1, <1>2, <1>4, <2>2, <2>5, <2>7, <3>1, <3>2, <3>3, <3>4, <3>5, SeedFacts, AddFlow
    <3>. QED BY <2>1, <3>6
  <2>11. ModeOK'
    BY <1>1, <1>2 DEF FInv, ModeOK
  <2>. QED BY <1>1, <1>3, <2>8, <2>9, <2>11, FreshFrom
<1>. QED BY <1>7, <1>8

(* A walk from a node stays within the walk from any that reaches it.      *)
LEMMA AfterInReach ==
  ASSUME NEW R \in SUBSET (Nodes \X Nodes), NEW from \in SUBSET Nodes, NEW x \in Reach(R, from)
  PROVE  After(R, x) \subseteq Reach(R, from)
<1>1. /\ Reach(R, from) \in SUBSET Nodes
      /\ \A e \in R : e[1] = x \/ e[1] \in Reach(R, from) => e[2] \in Reach(R, from)
  BY ReachStep
<1>. QED BY <1>1, AfterLeast

(* A sink is seeded, or deferred until control is through.                 *)
LEMMA SeedSinkFresh ==
  ASSUME OrderlyRuns, PInv, FInv, NEW n \in Nodes, SeedSink(n)
  PROVE  FInv'
<1>1. /\ drv.at = "seed" /\ n \in drv.todo /\ drv.todo \cap Entries(shape) = {}
      /\ state' = Unresolved(state, {n}) /\ dag' = Seeded(n)
      /\ drv' = [drv EXCEPT !.todo = @ \ {n}]
      /\ UNCHANGED <<shape, swept, cur, single, ran, outdated>>
  BY DEF SeedSink, machineVars
<1>2. FlowRuns
  BY <1>1 DEF FInv, ModeOK
<1>3. /\ ShapeOK /\ dag \in Dags /\ outdated \subseteq Nodes
      /\ FlowOK(dag, state, drv, ran) /\ drv.starts \subseteq Nodes
  BY <1>1, <1>2, FreshFacts, SeedFacts
<1>4. n \in Sinks(shape) /\ Entries(shape) \subseteq drv.starts
  BY <1>1, <1>3 DEF FlowOK, SeedOK, SeedBut
<1>5. /\ state' \in States /\ FreshOK(dag, state', drv, outdated) /\ SweptOK(state', swept)
      /\ FlowOK(dag, state', drv, ran)
      /\ \A m \in Nodes : state'[m] = IF m = n THEN "unresolved" ELSE state[m]
  BY <1>1, <1>2, <1>4, SeededFresh
<1>6. drv \in Drivers
  BY TypeParts DEF DriverTypes
<1>7. drv'.at = "seed" /\ drv'.todo = drv.todo \ {n} /\ drv'.starts = drv.starts
  BY <1>1, <1>6 DEF Drivers
<1>8. n \notin Entries(shape) /\ n \notin Turns
  BY <1>2, <1>3, <1>4, TurnsFacts
<1>9. FreshOK(dag, state', drv', outdated)
  BY <1>1, <1>5, <1>7 DEF FreshOK, OutdatedOK, WaitingOK
<1>10. SeedBut(dag, state', drv', {n}) /\ EndedOK(dag, drv')
  BY <1>1, <1>5, <1>7, <1>8 DEF FlowOK, SeedOK, SeedBut, EndedOK
<1>11. LineOK(dag, state') /\ RanDone(dag, ran)
  BY <1>5 DEF FlowOK
<1>12. ModeOK'
  BY <1>1, <1>2 DEF FInv, ModeOK
<1>16. Going(dag)
  BY <1>1, <1>2, SeedFacts
<1>13. CASE n \in Recorded(dag)
  <2>1. dag' = dag
    BY <1>1, <1>13 DEF Seeded
  <2>2. FlowOK(dag, state', drv', ran)
    BY <1>10, <1>11, <1>13, <1>8 DEF FlowOK, SeedOK, SeedBut
  <2>. QED BY <1>1, <1>3, <1>5, <1>9, <1>12, <2>1, <2>2, FreshFrom
<1>14. CASE n \notin Recorded(dag) /\ n \in MayBeStale
  <2>1. dag' = [dag EXCEPT !.deferred = dag.deferred \cup {n}]
    BY <1>1, <1>14 DEF Seeded
  <2>2. dag.deferred \cup {n} \in SUBSET Nodes
    BY <1>3 DEF Dags
  <2>3. /\ dag'.ref = dag.ref /\ dag'.deferred = dag.deferred \cup {n}
        /\ FreshOK(dag', state', drv', outdated) /\ LineOK(dag', state')
        /\ Going(dag') /\ \A x \in Nodes : Over(dag', x) <=> Over(dag, x)
    BY <1>3, <1>9, <1>11, <1>16, <2>1, <2>2, DeferFresh
  <2>4. Recorded(dag') = Recorded(dag)
    BY <2>3 DEF Recorded
  <2>5. SeedOK(dag', state', drv')
    BY <1>4, <1>5, <1>7, <1>8, <1>10, <2>3, <2>4 DEF SeedOK, SeedBut
  <2>6. EndedOK(dag', drv') /\ RanDone(dag', ran)
    BY <1>10, <1>11, <2>3 DEF EndedOK, RanDone
  <2>7. FlowOK(dag', state', drv', ran)
    BY <2>3, <2>5, <2>6 DEF FlowOK
  <2>. QED BY <1>1, <1>5, <1>12, <2>3, <2>7, FreshFrom
<1>15. CASE n \notin Recorded(dag) /\ n \notin MayBeStale
  <2>1. dag' = Add(dag, Needed(state), n, n)
    BY <1>1, <1>15 DEF Seeded
  <2>2. ASSUME NEW x \in Turns, n \in After(shape.feeds, x) PROVE FALSE
    <3>. DEFINE C == Reach(shape.wires, drv.starts)
    <3>1. /\ shape.feeds \in SUBSET (Nodes \X Nodes) /\ shape.wires \in SUBSET (Nodes \X Nodes)
          /\ drv.starts \in SUBSET Nodes
      BY <1>3, ShapeFacts
    <3>2. C \in SUBSET Nodes /\ drv.starts \subseteq C
          /\ \A e \in shape.wires : e[1] \in C => e[2] \in C
      BY <3>1, ReachStep
    <3>3. Turns = Reach(shape.wires, Entries(shape)) /\ Entries(shape) \subseteq C
      BY <1>2, <1>4, <3>2 DEF Turns, Controlled
    <3>. HIDE DEF C
    <3>4. x \in C
      BY <3>2, <3>3, ReachLeast
    <3>5. C \subseteq Reach(shape.feeds, C)
      BY <3>1, <3>2, ReachStep
    <3>6. After(shape.feeds, x) \subseteq Reach(shape.feeds, C)
      BY <3>1, <3>2, <3>4, <3>5, AfterInReach
    <3>. QED BY <1>15, <2>2, <3>6 DEF MayBeStale, C
  <2>3. \A e \in shape.wires : e[2] # n
    BY <1>2, <1>3, <1>4, TurnsFacts
  <2>4. \A m \in Nodes : state[m] # "resolved" => state'[m] # "resolved"
    BY <1>5
  <2>5. \A e \in shape.feeds : e[2] \in NewNodes(dag, Needed(state), n) /\ state'[e[1]] # "resolved"
                                 => state[e[1]] # "resolved"
    BY <1>2, <1>3, <1>5, NoLoop, ShapeFacts
  <2>6. n \in Graphs
    BY DEF Graphs
  <2>7. FreshOK(dag', state', drv', outdated)
    BY <1>2, <1>3, <1>5, <1>9, <2>1, <2>4, <2>5, <2>6, AddFresh
  <2>8. /\ FlowOK(dag', state', drv', ran) /\ Recorded(dag) \subseteq Recorded(dag')
        /\ \A x \in Nodes : Over(dag', x) <=> Over(dag, x)
    BY <1>2, <1>3, <1>4, <1>7, <1>10, <1>11, <1>16, <2>1, <2>2, <2>3, <2>4, <2>6, AddFlow
  <2>. QED BY <1>1, <1>5, <1>12, <2>7, <2>8, FreshFrom
<1>. QED BY <1>13, <1>14, <1>15

(* The first nodes are shown as unresolved and what is ready is queued.    *)
LEMMA EnterDagFresh ==
  ASSUME OrderlyRuns, PInv, FInv, EnterDag
  PROVE  FInv'
<1>. DEFINE S == {n \in Nodes : dag.ref[n] = "waiting"}
<1>1. /\ drv.at = "seed" /\ drv.todo = {} /\ drv'.at = "update"
      /\ state' = Unresolved(state, drv.starts \ shape.locked)
      /\ dag' = TryQueue(dag, shape, S)
      /\ UNCHANGED <<shape, swept, cur, single, ran, outdated>>
  BY DEF EnterDag, GoTo, Rest
<1>2. /\ ShapeOK /\ dag \in Dags /\ outdated \subseteq Nodes /\ swept \subseteq Nodes
      /\ state \in States /\ GraphsOK(dag)
      /\ FreshOK(dag, state, drv, outdated)
  BY FreshFacts
<1>3. cur = "dag"
  BY <1>1 DEF PInv, DriverOK, Running
<1>4. \A m \in Nodes : /\ state'[m] = "resolved" => state[m] = "resolved"
                       /\ m \in drv.starts \ shape.locked => state'[m] # "resolved"
  BY <1>1, <1>2 DEF Unresolved, States
<1>5. SweptOK(state', swept)
  BY <1>2, <1>3, <1>4, FreshFacts, UnresolvedSwept
<1>6. FreshOK(dag, state', drv, outdated)
  <2>1. CASE FlowRuns
    <3>1. drv.starts \ shape.locked \in SUBSET (Entries(shape) \cup Sinks(shape))
      BY <1>1, <2>1, SeedFacts DEF FlowOK, SeedOK, SeedBut
    <3>. QED BY <1>1, <2>1, <3>1, SeededFresh
  <2>2. CASE ~FlowRuns
    <3>1. drv.starts \subseteq Requests
      BY <1>1, <2>2 DEF FInv, ModeOK
    <3>2. \A e \in Carrying : e[1] \notin drv.starts /\ e[1] \in Nodes
      BY <1>2, <2>2, <3>1, ShapeFacts DEF ShapeOK, Apart
    <3>3. \A e \in Carrying : state'[e[1]] = state[e[1]]
      BY <1>1, <3>2 DEF Unresolved
    <3>4. ASSUME NEW z \in Nodes \ (Turns \cup shape.locked), state[z] = "resolved",
                 state'[z] # "resolved"
          PROVE  \A p \in Downstream(z) : state'[p] # "resolved"
      <4>1. \A e \in Carrying : e[1] # z
        BY <3>3, <3>4
      <4>2. Downstream(z) \subseteq {z}
        BY <1>2, <4>1, DownstreamOfLast
      <4>. QED BY <3>4, <4>2
    <3>. QED BY <1>2, <1>4, <3>3, <3>4, UnresolvedFresh
  <2>. QED BY <2>1, <2>2
<1>7. FreshOK(dag, state', drv', outdated)
  BY <1>1, <1>4, <1>6 DEF FreshOK, OutdatedOK, WaitingOK
<1>. HIDE DEF S
<1>8. FreshOK(dag', state', drv', outdated)
  BY <1>1, <1>2, <1>7, TryQueueFresh
<1>9. ASSUME FlowRuns
      PROVE  FlowOK(dag', state', drv', ran)
  <2>1. drv.starts \ shape.locked \in SUBSET (Entries(shape) \cup Sinks(shape))
    BY <1>1, <1>9, SeedFacts DEF FlowOK, SeedOK, SeedBut
  <2>2. FlowOK(dag, state', drv, ran)
    BY <1>1, <1>9, <2>1, SeededFresh
  <2>3. FlowOK(dag, state', drv', ran)
    BY <1>1, <2>2 DEF FlowOK, SeedOK, SeedBut, EndedOK
  <2>. QED BY <1>1, <1>2, <2>3, TryQueueFlow
<1>10. ModeOK'
  <2>1. dag'.deferred = dag.deferred
    BY <1>1, <1>2, TryQueueOthers
  <2>2. ModeOK /\ (Running' => Running)
    BY <1>1, FreshFacts DEF Running
  <2>. QED BY <1>1, <2>1, <2>2 DEF ModeOK
<1>. QED BY <1>1, <1>5, <1>8, <1>9, <1>10, FreshFrom

(* What a deferred sink pulls in leads to sinks, and where it executes,    *)
(* nothing below it that does is resolved and nothing below it is over.    *)
LEMMA PulledStale ==
  ASSUME ShapeOK, FlowRuns, NEW d, NEW st, StaleBelow(st), Stays(d, st), Closed(d, st),
         NEW n \in Sinks(shape), n \notin Recorded(d),
         \A m \in Sinks(shape) \ (shape.locked \cup Recorded(d)) : st[m] # "resolved",
         \A m \in Nodes \ shape.locked : d.ref[m] \in {"waiting", "queued"} => st[m] # "resolved",
         NEW r \in NewNodes(d, Needed(st), n)
  PROVE  r \in ToSinks(shape) /\ (r \in shape.locked \/ Clear(d, st, r))
<1>. DEFINE R == {<<e[2], e[1]>> : e \in {f \in Needed(st) : f[1] \notin Recorded(d)}}
            S == {m \in ToSinks(shape) :
                    m \in shape.locked \/ \A p \in Downstream(m) \cap ToSinks(shape) : st[p] # "resolved"}
<1>1. n \in Nodes /\ r \in Nodes /\ d.ref[r] = "absent" /\ (r = n \/ st[r] # "resolved")
  BY ShapeFacts, NewNodesAbove
<1>2. \A m \in Sinks(shape) : m \in Nodes /\ m \in ToSinks(shape) /\ Downstream(m) \subseteq {m}
  BY ShapeFacts, SinksFeedNobody, DownstreamOfLast DEF ToSinks
<1>3. n \in S
  BY <1>2
<1>4. ASSUME NEW e \in Needed(st), e[1] \notin Recorded(d), e[2] \in S
      PROVE  e[1] \in S
  <2>. DEFINE x == e[1]
  <2>1. e \in shape.feeds /\ st[x] # "resolved" /\ x \in Nodes /\ e[2] \in Nodes /\ e = <<x, e[2]>>
    BY ShapeFacts DEF Needed
  <2>2. x \in ToSinks(shape) /\ e[2] \in ToSinks(shape) /\ e[2] \notin shape.locked
    BY <1>4, <2>1, LeadsOn DEF ShapeOK, InLine
  <2>3. ASSUME x \notin shape.locked, NEW p \in Downstream(x), p \in ToSinks(shape)
        PROVE  st[p] # "resolved"
    <3>1. CASE x \notin Turns
      BY <2>1, <2>3, <3>1 DEF StaleBelow
    <3>2. CASE x \in Turns /\ p # x
      <4>1. x \in Controlled(shape) \ Entries(shape)
        BY <1>4, <3>2 DEF Closed, Closing, Turns
      <4>2. PICK f \in Carrying : f[1] = x /\ p \in Downstream(f[2])
        BY <2>1, <2>3, <3>2, DownstreamFirst
      <4>. DEFINE y == f[2]
      <4>3. /\ f \in shape.feeds /\ f = <<x, y>> /\ y \in Nodes /\ y \notin shape.locked
            /\ y \in After(shape.feeds, x)
        <5>1. f \in shape.feeds /\ shape.feeds \in SUBSET (Nodes \X Nodes)
          BY ShapeFacts
        <5>2. y \in After(shape.feeds, f[1])
          BY <5>1, AfterNext
        <5>3. y \notin shape.locked
          BY DEF Carrying
        <5>. QED BY <4>2, <5>1, <5>2, <5>3
      <4>4. p = y \/ p \in After(shape.feeds, y)
        BY <4>2, <4>3, DownstreamWithin
      <4>5. y \in ToSinks(shape)
        <5>1. p \in After(shape.feeds, y) => After(shape.feeds, p) \subseteq After(shape.feeds, y)
          BY <4>3, ShapeFacts, AfterTrans
        <5>. QED BY <2>3, <4>3, <4>4, <5>1 DEF ToSinks
      <4>6. y = e[2] \/ y \in Sinks(shape)
        <5>1. y \in Leading(shape, x) /\ e[2] \in Leading(shape, x)
          BY <2>1, <2>2, <4>3, <4>5 DEF Leading
        <5>. QED BY <4>1, <5>1 DEF ShapeOK, InLine, Tied
      <4>7. CASE y = e[2]
        BY <1>4, <2>2, <2>3, <4>2, <4>7
      <4>8. CASE y \in Sinks(shape)
        <5>1. p = y
          BY <1>2, <4>2, <4>8
        <5>2. CASE y \notin Recorded(d)
          BY <4>3, <4>8, <5>1, <5>2
        <5>3. CASE y \in Recorded(d)
          <6>1. ~Over(d, x)
            BY <1>4, <2>1 DEF Over, Recorded
          <6>2. ~Over(d, y)
            BY <3>2, <4>3, <5>3, <6>1 DEF Closed
          <6>3. d.ref[y] \in {"waiting", "queued"}
            BY <4>3, <5>3, <6>2 DEF Closed
          <6>. QED BY <4>3, <5>1, <6>3
        <5>. QED BY <5>2, <5>3
      <4>. QED BY <4>6, <4>7, <4>8
    <3>. QED BY <2>1, <3>1, <3>2
  <2>. QED BY <2>2, <2>3
<1>5. \A e \in R : e[1] \in S => e[2] \in S
  BY <1>4
<1>6. S \in SUBSET Nodes /\ {n} \subseteq S /\ r \in Reach(R, {n})
  BY <1>3 DEF ToSinks, NewNodes
<1>. HIDE DEF R, S
<1>7. r \in S
  BY <1>5, <1>6, ReachLeast
<1>8. ASSUME r \notin shape.locked, NEW z \in Downstream(r) \cap Recorded(d), Over(d, z)
      PROVE  FALSE
  <2>1. ~Over(d, r) /\ r # z
    BY <1>1 DEF Over, Recorded
  <2>2. st[r] # "resolved" /\ st[z] = "resolved"
    BY <1>1, <1>8 DEF Stays, Recorded
  <2>3. z \in After(shape.feeds, r)
    BY <1>1, <1>8, <2>1, DownstreamWithin
  <2>4. r \notin Turns
    BY <1>8, <2>1, <2>3 DEF Closed
  <2>. QED BY <1>1, <1>8, <2>2, <2>4 DEF StaleBelow
<1>. QED BY <1>7, <1>8 DEF S, Clear

(* A deferred sink is added.                                               *)
LEMMA AddClosing ==
  ASSUME ShapeOK, FlowRuns, NEW d \in Dags, NEW st, NEW n \in Sinks(shape), n \notin Recorded(d),
         NEW g \in Graphs, NEW w, NEW r, w.at = "sinks",
         LineOK(d, st), SeedBut(d, st, w, {n}), EndedOK(d, w), RanDone(d, r),
         StaleBelow(st), n \in shape.locked \/ st[n] # "resolved",
         \A m \in Nodes \ shape.locked : d.ref[m] \in {"waiting", "queued"} => st[m] # "resolved"
  PROVE  LET d2 == Add(d, Needed(st), n, g)
         IN FlowOK(d2, st, w, r) /\ d2.deferred = d.deferred
<1>. DEFINE new == NewNodes(d, Needed(st), n)
            d2 == Add(d, Needed(st), n, g)
<1>0. n \in Nodes
  BY ShapeFacts
<1>1. Needed(st) \in SUBSET (Nodes \X Nodes)
  BY ShapeFacts DEF Needed
<1>2. Added(d, d2, Needed(st), new, g)
  BY <1>0, <1>1, AddEffect
<1>3. /\ \A m \in new : m \in Nodes /\ d.ref[m] = "absent"
      /\ n \in new
  BY <1>0, <1>1, NewNodesAbove, NewNodesFresh DEF Recorded
<1>4. d2.dataOnly = (d.dataOnly \cup new) \ {n} /\ d2.deferred = d.deferred
  <2>1. AddedBeside(d, d2, new, n)
    BY <1>0, <1>1, AddOthers
  <2>. HIDE DEF d2, new
  <2>. QED BY <2>1 DEF AddedBeside
<1>5. /\ \A m \in Nodes : d2.ref[m] = IF m \in new THEN "waiting" ELSE d.ref[m]
      /\ \A h \in Graphs : d.members[h] \subseteq d2.members[h]
      /\ \A h \in Graphs : \A m \in d2.members[h] :
           m \in d.members[h] \/ m \in new \/ \E e \in Needed(st) : m = e[1]
  BY <1>2 DEF Added
<1>6. Closed(d, st) /\ Stays(d, st)
  BY DEF SeedBut, LineOK
<1>7. \A m \in new : m \in ToSinks(shape) /\ (m \in shape.locked \/ Clear(d, st, m))
  <2>1. \A m \in Sinks(shape) \ (shape.locked \cup Recorded(d)) : st[m] # "resolved"
    BY DEF SeedBut
  <2>. QED BY <1>6, <2>1, PulledStale
<1>. HIDE DEF d2, new
<1>8. Recorded(d2) = Recorded(d) \cup new /\ Recorded(d) \subseteq Nodes
  BY <1>3, <1>5 DEF Recorded
<1>9. \A x \in Nodes : Over(d2, x) => Over(d, x)
  BY <1>5 DEF Over
<1>10. \A x \in Nodes : Over(d, x) => Over(d2, x)
  <2>. SUFFICES ASSUME NEW x \in Nodes, Over(d, x) PROVE Over(d2, x)
    OBVIOUS
  <2>1. st[x] = "resolved" /\ d.ref[x] = "done"
    BY <1>6 DEF Stays, Over
  <2>2. x \notin new
    BY <1>3, <2>1
  <2>3. \A e \in Needed(st) : x # e[1]
    BY <2>1 DEF Needed
  <2>. QED BY <1>5, <2>1, <2>2, <2>3 DEF Over
<1>11. \A m \in new : ~Over(d2, m) /\ m \notin Entries(shape)
  BY <1>3, <1>6, <1>9 DEF Over, Closed, Closing, Recorded
<1>12. \A m \in Nodes : Clear(d, st, m) => Clear(d2, st, m)
  BY <1>8, <1>9, <1>11 DEF Clear
<1>13. Closing(d2, st)
  <2>1. ASSUME NEW m \in Recorded(d2), ~Over(d2, m)
        PROVE  Pulled(d2, m) /\ (m \in shape.locked \/ Clear(d2, st, m))
    <3>1. CASE m \in new
      BY <1>3, <1>4, <1>7, <1>11, <1>12, <3>1 DEF Pulled
    <3>2. CASE m \in Recorded(d)
      <4>1. m # n /\ m \in Nodes /\ ~Over(d, m)
        BY <1>8, <1>10, <2>1, <3>2
      <4>2. Pulled(d, m) /\ (m \in shape.locked \/ Clear(d, st, m))
        BY <1>6, <3>2, <4>1 DEF Closed, Closing
      <4>. QED BY <1>4, <1>12, <4>1, <4>2 DEF Pulled
    <3>. QED BY <1>8, <2>1, <3>1, <3>2
  <2>. QED BY <1>6, <1>8, <2>1 DEF Closed, Closing
<1>14. Closed(d2, st)
  <2>1. \A x \in Turns : Over(d2, x) \/ \A z \in Recorded(d2) \cap After(shape.feeds, x) : ~Over(d2, z)
    BY <1>6, <1>8, <1>9, <1>10, <1>11, ShapeFacts DEF Closed
  <2>2. \A m \in Recorded(d2) \ shape.locked : Over(d2, m) \/ d2.ref[m] \in {"waiting", "queued"}
    BY <1>3, <1>5, <1>6, <1>8, <1>10 DEF Closed
  <2>. QED BY <1>13, <2>1, <2>2 DEF Closed
<1>15. Stays(d2, st)
  BY <1>6, <1>9 DEF Stays
<1>16. Rooted(d2)
  BY <1>4, <1>8 DEF LineOK, Rooted
<1>17. SeedOK(d2, st, w)
  BY <1>3, <1>4, <1>6, <1>8, <1>14 DEF SeedOK, SeedBut, Closed, Closing
<1>18. EndedOK(d2, w) /\ RanDone(d2, r)
  BY <1>5 DEF EndedOK, RanDone
<1>. QED BY <1>4, <1>13, <1>15, <1>16, <1>17, <1>18 DEF FlowOK, LineOK, d2

(* A deferred sink is seeded, with what it lacks of its inputs.            *)
LEMMA SeedDeferredFresh ==
  ASSUME OrderlyRuns, PInv, FInv, NEW n \in Nodes, SeedDeferred(n)
  PROVE  FInv'
<1>. DEFINE rest == [dag EXCEPT !.deferred = dag.deferred \ {n}]
<1>1. /\ drv.at = "sinks" /\ n \in dag.deferred
      /\ drv'.at = (IF dag.deferred = {n} THEN "update" ELSE "sinks")
      /\ UNCHANGED <<shape, state, swept, cur, single, ran, outdated>>
      /\ IF n \in Recorded(dag) THEN dag' = rest ELSE AddAndQueue(rest, state, n, n)
  BY DEF SeedDeferred, GoTo, Rest
<1>2. FlowRuns
  BY <1>1 DEF FInv, ModeOK
<1>3. cur = "dag"
  BY <1>1 DEF PInv, DriverOK, Running
<1>4. /\ ShapeOK /\ dag \in Dags /\ outdated \subseteq Nodes
      /\ GraphsOK(dag) /\ SweptOK(state, swept)
      /\ FreshOK(dag, state, drv, outdated)
      /\ FlowOK(dag, state, drv, ran)
  BY <1>2, <1>3, FreshFacts
<1>6. /\ rest \in Dags /\ rest.ref = dag.ref /\ rest.deferred = dag.deferred \ {n}
      /\ GraphsOK(rest) /\ FreshOK(rest, state, drv, outdated) /\ LineOK(rest, state)
      /\ Closed(rest, state)
  <2>1. dag.deferred \ {n} \in SUBSET Nodes /\ LineOK(dag, state) /\ Closed(dag, state)
    BY <1>1, <1>4 DEF Dags, FlowOK, SeedOK, SeedBut
  <2>. QED BY <1>4, <2>1, DeferFresh
<1>. HIDE DEF rest
<1>7. Recorded(rest) = Recorded(dag)
  BY <1>6 DEF Recorded
<1>9. n \in Sinks(shape) /\ (n \in Recorded(dag) \cup shape.locked \/ state[n] # "resolved")
  BY <1>1, <1>4 DEF FlowOK, SeedOK, SeedBut
<1>10. SeedBut(rest, state, drv, {n})
  BY <1>1, <1>4, <1>6, <1>7 DEF FlowOK, SeedOK, SeedBut
<1>11. EndedOK(rest, drv) /\ RanDone(rest, ran)
  BY <1>1, <1>4, <1>6 DEF FlowOK, EndedOK, RanDone
<1>12. ModeOK'
  BY <1>1, <1>2 DEF FInv, ModeOK
<1>15. ASSUME FlowOK(dag', state, drv, ran), FreshOK(dag', state, drv, outdated),
              dag'.deferred = dag.deferred \ {n}
       PROVE  FInv'
  <2>1. drv'.at = "update" => dag'.deferred = {}
    BY <1>1, <1>15
  <2>2. FlowOK(dag', state, drv', ran)
    BY <1>1, <1>15, <2>1 DEF FlowOK, SeedOK, SeedBut, EndedOK
  <2>3. FreshOK(dag', state, drv', outdated)
    BY <1>1, <1>15, DriverFresh
  <2>. QED BY <1>1, <1>4, <1>12, <2>2, <2>3, FreshFrom
<1>13. CASE n \in Recorded(dag)
  <2>1. n \notin Entries(shape)
    BY <1>2, <1>4, <1>9, TurnsFacts
  <2>2. FlowOK(rest, state, drv, ran)
    BY <1>6, <1>7, <1>10, <1>11, <1>13, <2>1 DEF FlowOK, SeedOK, SeedBut
  <2>. QED BY <1>1, <1>6, <1>13, <1>15, <2>2
<1>14. CASE n \notin Recorded(dag)
  <2>. DEFINE S == NewNodes(rest, Needed(state), n) \cup {n}
              added == Add(rest, Needed(state), n, n)
  <2>1. dag' = TryQueue(added, shape, S)
    BY <1>1, <1>14 DEF AddAndQueue
  <2>2. n \in Graphs
    BY DEF Graphs
  <2>4. added \in Dags /\ GraphsOK(added)
    BY <1>4, <1>6, <2>2, AddGraphs
  <2>5. FreshOK(added, state, drv, outdated)
    BY <1>2, <1>4, <1>6, <1>9, <1>14, <2>2, AddFresh
  <2>3. /\ StaleBelow(state)
        /\ \A m \in Nodes \ shape.locked : rest.ref[m] \in {"waiting", "queued"} => state[m] # "resolved"
    BY <1>1, <1>6 DEF FreshOK, Values, WaitingOK
  <2>6. FlowOK(added, state, drv, ran) /\ added.deferred = dag.deferred \ {n}
    BY <1>1, <1>2, <1>4, <1>6, <1>7, <1>9, <1>10, <1>11, <1>14, <2>2, <2>3, AddClosing
  <2>. HIDE DEF S, added
  <2>7. FreshOK(dag', state, drv, outdated)
    BY <1>4, <2>1, <2>4, <2>5, TryQueueFresh
  <2>8. FlowOK(dag', state, drv, ran)
    BY <1>1, <1>4, <2>1, <2>4, <2>6, TryQueueFlow
  <2>9. dag'.deferred = added.deferred
    BY <2>1, <2>4, TryQueueOthers
  <2>. QED BY <1>15, <2>6, <2>7, <2>8, <2>9
<1>. QED BY <1>13, <1>14

-----------------------------------------------------------------------------
(* Nodes that are resolved on their own: they feed nobody.                 *)

(* A node asked for on its own feeds nobody: asking marks nothing          *)
(* downstream, ...                                                         *)
LEMMA RequestWalk ==
  ASSUME ShapeOK, ~FlowRuns, NEW n \in Nodes, n \in Requests, NEW st
  PROVE  Marked(st, Walk(n, {})) = {} /\ \A e \in shape.feeds : e[1] # n
<1>1. /\ \A e \in shape.feeds : e[1] # n
      /\ shape.feeds \in SUBSET (Nodes \X Nodes)
  BY ShapeFacts DEF ShapeOK, Apart
<1>. DEFINE R == {e \in shape.feeds : e[2] \notin {}}
<1>2. {n} \in SUBSET Nodes /\ {n} \subseteq {n} /\ \A e \in R : e[1] \in {n} => e[2] \in {n}
  BY <1>1
<1>3. Walk(n, {}) = Reach(R, {n})
  BY DEF Walk
<1>. HIDE DEF R
<1>4. Walk(n, {}) \subseteq {n}
  BY <1>2, <1>3, ReachLeast
<1>. QED BY <1>1, <1>4 DEF Marked

(* ... changes no other node's state, ...                                  *)
LEMMA RequestState ==
  ASSUME OrderlyRuns, PInv, FInv, ~FlowRuns, NEW n \in Nodes, n \in Requests, NEW X
  PROVE  /\ Unresolved(state, Marked(state, Walk(n, {})) \cup X) = Unresolved(state, X)
         /\ Unresolved(state, X) \in States
         /\ \A m \in Nodes : Unresolved(state, X)[m] = IF m \in X THEN "unresolved" ELSE state[m]
<1>1. ShapeOK /\ state \in States
  BY FreshFacts
<1>2. Marked(state, Walk(n, {})) = {}
  BY <1>1, RequestWalk
<1>. QED BY <1>1, <1>2 DEF Unresolved, States

(* ... and leaves the values as they are.                                  *)
LEMMA RequestFresh ==
  ASSUME OrderlyRuns, PInv, FInv, ~FlowRuns, NEW n \in Nodes, n \in Requests, NEW st,
         \A m \in Nodes : st[m] = state[m] \/ (m = n /\ st[m] = "unresolved")
  PROVE  /\ FreshOK(dag, st, drv, outdated)
         /\ cur = "dag" => SweptOK(st, swept)
<1>1. ShapeOK
  BY FreshFacts
<1>2. \A e \in shape.feeds : e[1] # n
  BY <1>1, RequestWalk
<1>3. \A m \in Nodes : st[m] = "resolved" => state[m] = "resolved"
  OBVIOUS
<1>4. \A e \in Carrying : st[e[1]] = state[e[1]]
  BY <1>1, <1>2, ShapeFacts
<1>7. ASSUME NEW z \in Nodes \ (Turns \cup shape.locked), state[z] = "resolved", st[z] # "resolved"
      PROVE  \A p \in Downstream(z) : st[p] # "resolved"
  <2>1. \A e \in Carrying : e[1] # z
    BY <1>4, <1>7
  <2>2. Downstream(z) \subseteq {z}
    BY <1>1, <2>1, DownstreamOfLast
  <2>. QED BY <1>7, <2>2
<1>5. FreshOK(dag, st, drv, outdated)
  BY <1>3, <1>4, <1>7, FreshFacts, UnresolvedFresh
<1>6. cur = "dag" => SweptOK(st, swept)
  BY <1>3, FreshFacts, UnresolvedSwept
<1>. QED BY <1>5, <1>6

(* A run of one node begins.                                               *)
LEMMA ResolveNodeFresh ==
  ASSUME GraphsAssumption, OrderlyRuns, PInv, FInv, NEW n \in Nodes, n \in Requests, ResolveNode(n)
  PROVE  FInv'
<1>. DEFINE once == Add(EmptyDag, Needed(state'), n, DefaultGraph)
            twice == Add(once, Needed(state'), n, n)
<1>1. /\ shape' = shape /\ outdated' = outdated /\ swept' = {} /\ cur' = "dag"
      /\ single' = TRUE /\ state' = Unresolved(state, Marked(state, Walk(n, {})) \cup {n})
      /\ drv'.at = "seed" /\ drv'.starts = {n} /\ drv'.todo = {} /\ ~Running
  BY DEF ResolveNode, NewMachine, Rest
<1>2. ~FlowRuns /\ ShapeOK /\ outdated \subseteq Nodes
  BY FreshFacts
<1>3. dag' = twice
  <2>1. dag = EmptyDag
    BY <1>1 DEF PInv, DriverOK
  <2>. QED BY <2>1 DEF ResolveNode
<1>4. /\ state' \in States /\ FreshOK(dag, state', drv, outdated) /\ state'[n] # "resolved"
  <2>1. /\ state' \in States
        /\ \A m \in Nodes : state'[m] = IF m \in {n} THEN "unresolved" ELSE state[m]
    BY <1>1, <1>2, RequestState
  <2>. QED BY <1>2, <2>1, RequestFresh
<1>5. FreshOK(EmptyDag, state', drv', outdated)
  <2>1. StaleBelow(state') /\ \A m \in outdated : m \notin shape.locked /\ state'[m] # "resolved"
    BY <1>4 DEF FreshOK, Values, OutdatedOK
  <2>. QED BY <1>1, <1>2, <2>1, EmptyFresh
<1>6. /\ n \in Graphs /\ DefaultGraph \in Graphs /\ DefaultGraph \notin Nodes
      /\ EmptyDag \in Dags /\ GraphsOK(EmptyDag) /\ EmptyDag.deferred = {}
  BY <1>2, EmptyTypes, EmptyFlow DEF Graphs, GraphsAssumption
<1>7. FreshOK(once, state', drv', outdated)
  BY <1>2, <1>4, <1>5, <1>6, AddFresh
<1>8. once \in Dags
  BY <1>2, <1>6, AddGraphs
<1>9. once.deferred = {}
  <2>1. Needed(state') \in SUBSET (Nodes \X Nodes)
    BY <1>2, ShapeFacts DEF Needed
  <2>2. AddedBeside(EmptyDag, once, NewNodes(EmptyDag, Needed(state'), n), n)
    BY <1>6, <2>1, AddOthers
  <2>. HIDE DEF once
  <2>. QED BY <1>6, <2>2 DEF AddedBeside
<1>. HIDE DEF once
<1>10. FreshOK(twice, state', drv', outdated)
  BY <1>2, <1>4, <1>6, <1>7, <1>8, AddFresh
<1>11. twice.deferred = {}
  <2>1. Needed(state') \in SUBSET (Nodes \X Nodes)
    BY <1>2, ShapeFacts DEF Needed
  <2>2. AddedBeside(once, twice, NewNodes(once, Needed(state'), n), n)
    BY <1>6, <1>8, <2>1, AddOthers
  <2>. HIDE DEF twice
  <2>. QED BY <1>9, <2>2 DEF AddedBeside
<1>. HIDE DEF twice
<1>12. ModeOK'
  BY <1>1, <1>2, <1>3, <1>11 DEF ModeOK
<1>13. SweptOK(state', {})
  BY DEF SweptOK
<1>. QED BY <1>1, <1>2, <1>3, <1>10, <1>12, <1>13, FreshFrom

(* A node comes again to the graph it had: what feeds it is resolved.      *)
LEMMA RaisedFresh ==
  ASSUME ShapeOK, ~FlowRuns, NEW d \in Dags, NEW n \in Nodes, AddRaises(d, n, n),
         NEW st, NEW w, NEW o, FreshOK(d, st, w, o), n \in shape.locked \/ st[n] # "resolved"
  PROVE  FreshOK(AddRaised(d, n, n), st, w, o) /\ AddRaised(d, n, n).deferred = d.deferred
<1>. DEFINE d2 == AddRaised(d, n, n)
            ref == [d.ref EXCEPT ![n] = "waiting"]
            members == [d.members EXCEPT ![n] = d.members[n] \cup {n}]
<1>1. d2 = [d EXCEPT !.ref = ref, !.dataOnly = d.dataOnly \ {n}, !.members = members]
  BY Zenon DEF AddRaised
<1>2. ref[n] = "waiting" /\ \A m \in Nodes \ {n} : ref[m] = d.ref[m]
  BY DEF Dags
<1>. HIDE DEF ref, members, d2
<1>3. d2.ref = ref /\ d2.nets = d.nets /\ d2.edges = d.edges /\ d2.deferred = d.deferred
  BY <1>1 DEF Dags
<1>4. n \in d.nets \cap Nodes /\ n \notin Recorded(d)
  BY DEF AddRaises
<1>5. \A m \in Nodes : m \in Recorded(d2) <=> m \in Recorded(d) \/ m = n
  BY <1>2, <1>3 DEF Recorded
<1>6. Ready(d2, st)
  <2>. SUFFICES ASSUME NEW e \in Carrying, e[2] \in Recorded(d2), st[e[1]] # "resolved"
                PROVE  d2.ref[e[2]] = "waiting" /\ \E h \in Graphs : e \in d2.edges[h]
    BY DEF Ready
  <2>1. e[2] \in Nodes
    BY ShapeFacts
  <2>2. e[2] # n
    BY <1>4 DEF FreshOK, Values, Asked
  <2>3. e[2] \in Recorded(d)
    BY <1>5, <2>1, <2>2
  <2>4. d.ref[e[2]] = "waiting" /\ \E h \in Graphs : e \in d.edges[h]
    BY <2>3 DEF FreshOK, Values, Ready
  <2>. QED BY <1>2, <1>3, <2>1, <2>2, <2>4
<1>7. Fed(d2) /\ Asked(d2, st)
  BY <1>3, <1>5 DEF FreshOK, Values, Fed, Asked
<1>8. OutdatedOK(d2, st, w, o)
  <2>. SUFFICES ASSUME NEW m \in o
                PROVE  /\ m \notin shape.locked /\ st[m] # "resolved"
                       /\ d2.ref[m] \notin {"processing", "done"}
                       /\ ~(w.at = "validating" /\ w.node = m)
    BY DEF OutdatedOK
  <2>. QED BY <1>2, <1>3 DEF FreshOK, OutdatedOK, ref
<1>9. WaitingOK(d2, st, w)
  BY <1>2, <1>3 DEF FreshOK, WaitingOK
<1>. QED BY <1>3, <1>6, <1>7, <1>8, <1>9 DEF FreshOK, Values, d2

(* A node joins the run of another.                                        *)
LEMMA JoinFresh ==
  ASSUME OrderlyRuns, PInv, FInv, NEW n \in Nodes, n \in Requests, Join(n)
  PROVE  FInv'
<1>1. /\ UNCHANGED <<shape, swept, cur, single, drv, ran, outdated>>
      /\ cur = "dag" /\ n \notin Recorded(dag)
      /\ state' = Unresolved(state, Marked(state, Walk(n, {})) \cup ({n} \ shape.locked))
      /\ IF AddRaises(dag, n, n) THEN dag' = AddRaised(dag, n, n) ELSE AddAndQueue(dag, state', n, n)
  BY DEF Join
<1>2. /\ ~FlowRuns /\ ShapeOK /\ outdated \subseteq Nodes /\ dag \in Dags /\ GraphsOK(dag)
      /\ ModeOK
  BY FreshFacts
<1>3. /\ state' \in States /\ FreshOK(dag, state', drv, outdated) /\ SweptOK(state', swept)
      /\ n \in shape.locked \/ state'[n] # "resolved"
  <2>. DEFINE X == {n} \ shape.locked
  <2>1. /\ state' \in States
        /\ \A m \in Nodes : state'[m] = IF m \in X THEN "unresolved" ELSE state[m]
    BY <1>1, <1>2, RequestState
  <2>2. \A m \in Nodes : state'[m] = state[m] \/ (m = n /\ state'[m] = "unresolved")
    BY <2>1
  <2>. QED BY <1>1, <1>2, <2>1, <2>2, RequestFresh
<1>4. CASE AddRaises(dag, n, n)
  <2>1. dag' = AddRaised(dag, n, n)
    BY <1>1, <1>4
  <2>2. FreshOK(dag', state', drv, outdated) /\ dag'.deferred = dag.deferred
    BY <1>2, <1>3, <1>4, <2>1, RaisedFresh
  <2>3. ModeOK'
    BY <1>1, <1>2, <2>2 DEF ModeOK, Running
  <2>. QED BY <1>1, <1>2, <1>3, <2>2, <2>3, FreshFrom
<1>5. CASE ~AddRaises(dag, n, n)
  <2>. DEFINE S == NewNodes(dag, Needed(state'), n) \cup {n}
              added == Add(dag, Needed(state'), n, n)
  <2>1. dag' = TryQueue(added, shape, S)
    BY <1>1, <1>5 DEF AddAndQueue
  <2>2. n \in Graphs
    BY DEF Graphs
  <2>3. added \in Dags /\ GraphsOK(added)
    BY <1>2, <2>2, AddGraphs
  <2>4. FreshOK(added, state', drv, outdated)
    BY <1>2, <1>3, <2>2, AddFresh
  <2>5. added.deferred = dag.deferred
    <3>1. Needed(state') \in SUBSET (Nodes \X Nodes)
      BY <1>2, ShapeFacts DEF Needed
    <3>2. AddedBeside(dag, added, NewNodes(dag, Needed(state'), n), n)
      BY <1>2, <2>2, <3>1, AddOthers
    <3>. HIDE DEF added
    <3>. QED BY <3>2 DEF AddedBeside
  <2>. HIDE DEF S, added
  <2>6. FreshOK(dag', state', drv, outdated)
    BY <1>2, <2>1, <2>3, <2>4, TryQueueFresh
  <2>7. dag'.deferred = dag.deferred
    BY <2>1, <2>3, <2>5, TryQueueOthers
  <2>8. ModeOK'
    BY <1>1, <1>2, <2>7 DEF ModeOK, Running
  <2>. QED BY <1>1, <1>2, <1>3, <2>6, <2>8, FreshFrom
<1>. QED BY <1>4, <1>5

(* A request for a node that does not validate changes no value.           *)
LEMMA ResolveInvalidFresh ==
  ASSUME OrderlyRuns, PInv, FInv, NEW n \in Nodes, n \in Requests, ResolveInvalid(n)
  PROVE  FInv'
<1>1. /\ UNCHANGED <<shape, dag, swept, cur, single, drv, ran, outdated>>
      /\ state' = Unresolved(state, Marked(state, Walk(n, {})))
  BY DEF ResolveInvalid, machineVars
<1>2. ~FlowRuns /\ ModeOK
  BY FreshFacts
<1>3. FreshOK(dag, state', drv, outdated) /\ (cur = "dag" => SweptOK(state', swept))
  <2>1. state' = Unresolved(state, Marked(state, Walk(n, {})) \cup {})
    BY <1>1
  <2>2. \A m \in Nodes : state'[m] = state[m]
    BY <1>2, <2>1, RequestState
  <2>. QED BY <1>2, <2>2, RequestFresh
<1>4. ModeOK'
  BY <1>1, <1>2 DEF ModeOK, Running
<1>. QED BY <1>1, <1>2, <1>3, <1>4, FreshFrom

-----------------------------------------------------------------------------
(* Nodes that start.                                                       *)

(* Where the driver is says that the run goes on.                          *)
LEMMA InDag ==
  ASSUME PInv, drv.at \notin {"idle", "error", "reaping"}
  PROVE  cur = "dag"
  BY DEF PInv, DriverOK, Running

(* A queued node is taken to be validated: none of its inputs is           *)
(* outdated.                                                               *)
LEMMA TakeFresh ==
  ASSUME OrderlyRuns, PInv, FInv, NEW n \in Nodes, Take(n)
  PROVE  FInv'
<1>1. /\ drv.at = "drain" /\ n \in queue /\ drv'.at = "validating" /\ drv'.node = n
      /\ UNCHANGED <<shape, state, dag, swept, cur, single, ran>>
      /\ outdated' = IF \E e \in Flowing : e[2] = n /\ e[1] \in outdated
                     THEN outdated ELSE outdated \ {n}
  BY DEF Take, Rest
<1>2. /\ ShapeOK /\ ModeOK /\ GraphsOK(dag) /\ outdated \subseteq Nodes
      /\ FreshOK(dag, state, drv, outdated) /\ (cur = "dag" => SweptOK(state, swept))
  BY FreshFacts
<1>3. dag.ref[n] = "queued"
  BY <1>1, WorkFacts DEF Steady, QueueOK
<1>4. outdated' = outdated \ {n}
  <2>. SUFFICES ASSUME NEW e \in Flowing, e[2] = n, e[1] \in outdated PROVE FALSE
    BY <1>1
  <2>1. e[1] \notin shape.locked /\ state[e[1]] # "resolved"
    BY <1>2 DEF FreshOK, OutdatedOK
  <2>2. e \in Carrying
    BY <2>1 DEF Flowing, Carrying
  <2>3. e[2] \in Recorded(dag)
    BY <1>3 DEF Recorded
  <2>. QED BY <1>2, <1>3, <2>1, <2>2, <2>3 DEF FreshOK, Values, Ready
<1>5. FreshOK(dag, state, drv', outdated')
  BY <1>1, <1>2, <1>4 DEF FreshOK, OutdatedOK, WaitingOK
<1>6. FlowRuns /\ cur = "dag" => FlowOK(dag, state, drv', ran)
  BY <1>1, FreshFacts, DriverFlow
<1>7. ModeOK'
  BY <1>1, <1>2, ModeKept DEF ModeOK, Running
<1>. QED BY <1>1, <1>2, <1>5, <1>6, <1>7, FreshFrom

(* What a walk from z marks: as long as it feeds somebody, it is among the *)
(* nodes the value comes to.                                               *)
LEMMA WalkFacts ==
  ASSUME ShapeOK, NEW z \in Nodes, z \notin shape.locked, NEW s, NEW st
  PROVE  \A m \in Marked(st, Walk(z, s)) :
           m \in Downstream(z) \/ (~FlowRuns /\ (m \in shape.locked \/ \A e \in shape.feeds : e[1] # m))
<1>. DEFINE W == {m \in Nodes : \/ m \in Downstream(z)
                                \/ ~FlowRuns /\ \/ m \in shape.locked /\ \E e \in shape.feeds : e[2] = m
                                                \/ \A e \in shape.feeds : e[1] # m}
            R == {e \in shape.feeds : e[2] \notin s}
<1>1. shape.feeds \in SUBSET (Nodes \X Nodes)
  BY ShapeFacts
<1>2. ASSUME NEW e \in shape.feeds, e[1] \in W
      PROVE  e[2] \in W
  <2>1. CASE e[1] \in Downstream(z) /\ e[2] \notin shape.locked
    <3>1. e \in Carrying
      BY <2>1, DownstreamFacts DEF Carrying
    <3>. QED BY <1>1, <2>1, <3>1, DownstreamFacts
  <2>2. CASE e[1] \in Downstream(z) /\ e[2] \in shape.locked
    <3>1. ~FlowRuns
      BY <2>2 DEF ShapeOK, InLine
    <3>. QED BY <1>1, <2>2, <3>1
  <2>3. CASE e[1] \notin Downstream(z)
    <3>1. ~FlowRuns /\ e[1] \in shape.locked /\ \E f \in shape.feeds : f[2] = e[1]
      BY <1>2, <2>3
    <3>2. \A g \in shape.feeds : g[1] # e[2]
      BY <3>1 DEF ShapeOK, Apart
    <3>. QED BY <1>1, <3>1, <3>2
  <2>. QED BY <2>1, <2>2, <2>3
<1>3. W \in SUBSET Nodes /\ {z} \subseteq W /\ \A e \in R : e[1] \in W => e[2] \in W
  BY <1>2, DownstreamFacts
<1>4. Walk(z, s) = {} \/ Walk(z, s) = Reach(R, {z})
  BY DEF Walk
<1>5. Walk(z, s) \subseteq W
  <2>. HIDE DEF W, R
  <2>. QED BY <1>3, <1>4, ReachLeast
<1>6. ASSUME NEW m \in Marked(st, Walk(z, s))
      PROVE  m \in W
  <2>1. PICK k \in Walk(z, s) : <<k, m>> \in shape.feeds
    BY <1>6 DEF Marked
  <2>. DEFINE e == <<k, m>>
  <2>2. e \in shape.feeds /\ e[1] \in W
    BY <1>5, <2>1
  <2>3. e[2] \in W
    BY <1>2, <2>2
  <2>. QED BY <2>3
<1>. QED BY <1>6

(* What is marked, the walk and what was swept before are below z, and     *)
(* none of it is resolved any more.                                        *)
LEMMA SweepFacts ==
  ASSUME ShapeOK, NEW z \in Nodes, NEW s, s \subseteq Nodes, NEW st \in States, SweptOK(st, s),
         NEW st2, st2 = [Unresolved(st, Marked(st, Walk(z, s))) EXCEPT ![z] = "resolving"]
  PROVE  /\ st2 \in States /\ SweptOK(st2, s \cup Walk(z, s)) /\ z \in s \cup Walk(z, s)
         /\ \A m \in Nodes : /\ st2[m] = "resolved" => st[m] = "resolved"
                             /\ st[m] = "resolved" /\ st2[m] # "resolved" =>
                                  m = z \/ m \in Marked(st, Walk(z, s))
<1>. DEFINE walk == Walk(z, s)
            R == {e \in shape.feeds : e[2] \notin s}
<1>1. st2 \in States /\ \A m \in Nodes : st2[m] = IF m = z THEN "resolving"
                                                   ELSE IF m \in Marked(st, walk) THEN "unresolved" ELSE st[m]
  BY DEF Unresolved, States
<1>2. R \in SUBSET (Nodes \X Nodes) /\ {z} \in SUBSET Nodes /\ shape.feeds \in SUBSET (Nodes \X Nodes)
  BY ShapeFacts
<1>3. walk = IF z \in s THEN {} ELSE Reach(R, {z})
  BY DEF Walk
<1>4. /\ Reach(R, {z}) \subseteq Nodes /\ z \in Reach(R, {z})
      /\ \A e \in R : e[1] \in Reach(R, {z}) => e[2] \in Reach(R, {z})
      /\ \A k \in Reach(R, {z}) : k = z \/ \E e \in R : e[2] = k /\ e[1] \in Reach(R, {z})
  BY <1>2, ReachStep, ReachLast
<1>. HIDE DEF walk
<1>5. \A e \in Carrying : e[1] \in s \cup walk => e[2] \in s \cup walk
  BY <1>3, <1>4 DEF SweptOK, Carrying
<1>6. ASSUME NEW n \in s \cup walk, n \notin shape.locked
      PROVE  st2[n] # "resolved"
  <2>1. n \in Nodes
    BY <1>3, <1>4
  <2>2. CASE n \in s
    BY <1>1, <1>6, <2>1, <2>2 DEF SweptOK
  <2>3. CASE n \in walk /\ n # z
    <3>1. PICK e \in R : e[2] = n /\ e[1] \in walk
      BY <1>3, <1>4, <2>3
    <3>2. e = <<e[1], n>> /\ e \in shape.feeds
      BY <1>2, <3>1
    <3>3. st[n] = "resolved" => n \in Marked(st, walk)
      BY <2>1, <3>1, <3>2 DEF Marked
    <3>. QED BY <1>1, <2>1, <3>3
  <2>4. CASE n = z
    BY <1>1, <2>4
  <2>. QED BY <1>6, <2>2, <2>3, <2>4
<1>7. z \in s \cup walk
  BY <1>3, <1>4
<1>. QED BY <1>1, <1>5, <1>6, <1>7 DEF SweptOK, walk

(* A node starts with its inputs resolved and none of them outdated.       *)
LEMMA DispatchFacts ==
  ASSUME OrderlyRuns, PInv, FInv, Dispatch
  PROVE  /\ drv.at = "validating" /\ cur = "dag" /\ drv.node \in Nodes
         /\ dag.ref[drv.node] = "queued" /\ drv.node \notin shape.locked
         /\ drv.node \notin outdated /\ state[drv.node] # "resolved"
         /\ \A e \in Carrying : e[2] = drv.node => state[e[1]] = "resolved"
<1>1. drv.at = "validating"
  BY DEF Dispatch
<1>2. drv.node \in Nodes /\ dag.ref[drv.node] = "queued" /\ drv.node \notin shape.locked
  BY <1>1, WorkFacts DEF Steady, SeesAsIs, GraphsOK, WorkIsReady
<1>3. FreshOK(dag, state, drv, outdated)
  BY FreshFacts
<1>4. drv.node \notin outdated
  BY <1>1, <1>3 DEF FreshOK, OutdatedOK
<1>5. state[drv.node] # "resolved"
  BY <1>1, <1>2, <1>3 DEF FreshOK, WaitingOK
<1>6. drv.node \in Recorded(dag)
  BY <1>2 DEF Recorded
<1>. QED BY <1>1, <1>2, <1>3, <1>4, <1>5, <1>6, InDag DEF FreshOK, Values, Ready

(* When a node starts, nothing below it is resolved that feeds a node the  *)
(* run has recorded.                                                       *)
LEMMA BelowStart ==
  ASSUME OrderlyRuns, PInv, FInv, Dispatch,
         NEW e \in Carrying, e[1] \in Downstream(drv.node), e[2] \in Recorded(dag)
  PROVE  state[e[1]] # "resolved"
<1>. DEFINE z == drv.node
<1>1. /\ ShapeOK /\ StaleBelow(state)
      /\ FlowRuns => FlowOK(dag, state, drv, ran)
  BY DispatchFacts, FreshFacts DEF FreshOK, Values
<1>2. /\ z \in Nodes /\ z \notin shape.locked /\ state[z] # "resolved" /\ z \in Recorded(dag)
      /\ ~Over(dag, z)
  BY DispatchFacts DEF Recorded, Over
<1>3. e[2] \in Downstream(z) /\ e \in shape.feeds
  BY <1>1, <1>2, ShapeFacts, DownstreamFacts
<1>4. CASE z \notin Turns
  BY <1>1, <1>2, <1>4 DEF StaleBelow
<1>5. CASE z \in Turns /\ Going(dag)
  <2>1. e[2] \in After(shape.feeds, z)
    <3>1. e[1] = z \/ e[1] \in After(shape.feeds, z)
      BY <1>1, <1>2, DownstreamWithin
    <3>. QED BY <1>1, <1>2, <1>3, <3>1, ShapeFacts, AfterStep
  <2>. QED BY <1>2, <1>5, <2>1 DEF Going, Before
<1>6. CASE z \in Turns /\ Closing(dag, state)
  <2>1. Clear(dag, state, z)
    BY <1>2, <1>6 DEF Closing
  <2>2. ~Over(dag, e[2])
    BY <1>3, <2>1 DEF Clear
  <2>3. e[1] \in ToSinks(shape)
    BY <1>1, <1>3, <1>6, <2>2, LeadsOn DEF Closing, Pulled
  <2>. QED BY <2>1, <2>3 DEF Clear
<1>7. z \in Turns => Going(dag) \/ Closing(dag, state)
  BY <1>1 DEF Turns, FlowOK, LineOK
<1>. QED BY <1>4, <1>5, <1>6, <1>7

(* What is recorded below it still waits, ...                              *)
LEMMA BelowWaits ==
  ASSUME OrderlyRuns, PInv, FInv, Dispatch, NEW y \in Downstream(drv.node), y # drv.node
  PROVE  dag.ref[y] \in {"absent", "waiting"}
<1>. DEFINE z == drv.node
<1>. SUFFICES ASSUME y \in Recorded(dag) PROVE dag.ref[y] = "waiting"
  BY FreshFacts, DispatchFacts, DownstreamFacts DEF Recorded
<1>1. ShapeOK /\ FreshOK(dag, state, drv, outdated)
  BY FreshFacts
<1>2. z \in Nodes /\ z \notin shape.locked
  BY DispatchFacts
<1>3. PICK e \in Carrying : e[2] = y /\ e[1] \in Downstream(z)
  BY <1>1, <1>2, DownstreamFacts
<1>5. state[e[1]] # "resolved"
  BY <1>3, BelowStart
<1>. QED BY <1>1, <1>3, <1>5 DEF FreshOK, Values, Ready

(* ... and what it makes stale, and somebody reads, is read by nobody the  *)
(* run has recorded.                                                       *)
LEMMA DispatchStale ==
  ASSUME OrderlyRuns, PInv, FInv, Dispatch,
         NEW m \in Marked(state, Walk(drv.node, swept)), NEW e \in Carrying, e[1] = m
  PROVE  FlowRuns /\ m \in Downstream(drv.node) /\ e[2] \notin Recorded(dag)
<1>. DEFINE z == drv.node
<1>1. ShapeOK /\ StaleBelow(state)
  BY FreshFacts DEF FreshOK, Values
<1>2. z \in Nodes /\ z \notin shape.locked /\ state[z] # "resolved"
  BY DispatchFacts
<1>3. e \in shape.feeds /\ m \notin shape.locked /\ m \in Nodes /\ state[m] = "resolved"
  BY DEF Carrying, Marked
<1>4. m \in Downstream(z)
  BY <1>1, <1>2, <1>3, WalkFacts
<1>5. FlowRuns
  BY <1>1, <1>2, <1>3, <1>4 DEF StaleBelow, Turns
<1>. QED BY <1>3, <1>4, <1>5, BelowStart

(* A node starts, and what depends on it is marked stale.                  *)
LEMMA DispatchFresh ==
  ASSUME OrderlyRuns, PInv, FInv, Dispatch
  PROVE  FInv'
<1>. DEFINE z == drv.node
            walk == Walk(z, swept)
            stale == Reach(Flowing, {z}) \ {z}
            ref == [dag.ref EXCEPT ![z] = "processing"]
<1>1. /\ dag' = [dag EXCEPT !.ref = ref]
      /\ swept' = swept \cup walk
      /\ state' = [Unresolved(state, Marked(state, walk)) EXCEPT ![z] = "resolving"]
      /\ ran' = ran \cup {z}
      /\ outdated' = outdated \cup stale
      /\ drv'.at = "drain"
      /\ UNCHANGED <<shape, cur, single>>
  BY DEF Dispatch, GoTo, Rest
<1>2. /\ drv.at = "validating" /\ cur = "dag" /\ z \in Nodes
      /\ dag.ref[z] = "queued" /\ z \notin shape.locked
      /\ z \notin outdated /\ state[z] # "resolved"
  BY DispatchFacts
<1>3. /\ ShapeOK /\ dag \in Dags /\ GraphsOK(dag) /\ state \in States /\ outdated \subseteq Nodes
      /\ swept \subseteq Nodes /\ ModeOK
      /\ FreshOK(dag, state, drv, outdated) /\ SweptOK(state, swept)
  BY <1>2, FreshFacts
<1>4. /\ state' \in States /\ SweptOK(state', swept') /\ z \in swept'
      /\ \A m \in Nodes : /\ state'[m] = "resolved" => state[m] = "resolved"
                          /\ state[m] = "resolved" /\ state'[m] # "resolved" =>
                               m = z \/ m \in Marked(state, walk)
  <2>. DEFINE st2 == [Unresolved(state, Marked(state, Walk(z, swept))) EXCEPT ![z] = "resolving"]
  <2>1. /\ st2 \in States /\ SweptOK(st2, swept \cup Walk(z, swept)) /\ z \in swept \cup Walk(z, swept)
        /\ \A m \in Nodes : /\ st2[m] = "resolved" => state[m] = "resolved"
                            /\ state[m] = "resolved" /\ st2[m] # "resolved" =>
                                 m = z \/ m \in Marked(state, Walk(z, swept))
    BY <1>2, <1>3, SweepFacts
  <2>2. state' = st2
    BY <1>1
  <2>. HIDE DEF st2
  <2>. QED BY <1>1, <2>1, <2>2
<1>5. /\ Downstream(z) \subseteq Nodes /\ z \in Downstream(z)
      /\ \A e \in Carrying : e[1] \in Downstream(z) => e[2] \in Downstream(z)
      /\ \A n \in Downstream(z) : n \notin shape.locked
  BY <1>2, <1>3, DownstreamFacts
<1>6. \A n \in Downstream(z) : state'[n] # "resolved"
  <2>. DEFINE S == swept' \cap Nodes
  <2>1. \A e \in Carrying : e[1] \in S => e[2] \in S
    BY <1>3, <1>4, ShapeFacts DEF SweptOK
  <2>2. {z} \subseteq S /\ S \in SUBSET Nodes
    BY <1>2, <1>4
  <2>. HIDE DEF S
  <2>3. Downstream(z) \subseteq S
    BY <2>1, <2>2, ReachLeast DEF Downstream
  <2>. QED BY <1>4, <1>5, <2>3 DEF SweptOK, S
<1>7. stale \subseteq Downstream(z) \ {z}
  <2>1. \A e \in Flowing : e[1] \in Downstream(z) => e[2] \in Downstream(z)
    BY <1>5 DEF Flowing, Carrying
  <2>2. {z} \subseteq Downstream(z) /\ Downstream(z) \in SUBSET Nodes
    BY <1>5
  <2>3. Reach(Flowing, {z}) \subseteq Downstream(z)
    BY <2>1, <2>2, ReachLeast
  <2>. QED BY <2>3
<1>. HIDE DEF walk, stale
<1>8. FreshOK(dag, state', drv, outdated)
  <2>1. ASSUME NEW e \in Carrying, state[e[1]] = "resolved", state'[e[1]] # "resolved"
        PROVE  FlowRuns /\ e[2] \notin Recorded(dag) /\ state'[e[2]] # "resolved"
    <3>1. e[1] \in Nodes
      BY <1>3, ShapeFacts
    <3>2. e[1] \in Marked(state, walk)
      BY <1>2, <1>4, <2>1, <3>1
    <3>3. FlowRuns /\ e[1] \in Downstream(z) /\ e[2] \notin Recorded(dag)
      BY <3>2, DispatchStale DEF walk
    <3>. QED BY <1>5, <1>6, <3>3
  <2>2. ASSUME NEW m \in Nodes \ (Turns \cup shape.locked), state[m] = "resolved",
               state'[m] # "resolved"
        PROVE  \A p \in Downstream(m) : state'[p] # "resolved"
    <3>1. m \in Marked(state, walk)
      BY <1>2, <1>4, <2>2
    <3>2. m \in Downstream(z) \/ \A e \in shape.feeds : e[1] # m
      BY <1>2, <1>3, <2>2, <3>1, WalkFacts DEF walk
    <3>3. CASE m \in Downstream(z)
      BY <1>2, <1>3, <1>6, <3>3, DownstreamWithin
    <3>4. CASE \A e \in shape.feeds : e[1] # m
      <4>1. Downstream(m) \subseteq {m}
        BY <1>3, <3>4, ShapeFacts, DownstreamOfLast
      <4>. QED BY <2>2, <4>1
    <3>. QED BY <3>2, <3>3, <3>4
  <2>. QED BY <1>3, <1>4, <2>1, <2>2, UnresolvedFresh
<1>9. FreshOK(dag, state', drv', outdated')
  <2>1. FreshOK(dag, state', drv', outdated)
    BY <1>1, <1>2, <1>8, DriverFresh
  <2>2. \A n \in stale : /\ n \notin shape.locked /\ state'[n] # "resolved"
                         /\ dag.ref[n] \notin {"processing", "done"}
    BY <1>5, <1>6, <1>7, BelowWaits
  <2>. QED BY <1>1, <2>1, <2>2 DEF FreshOK, OutdatedOK
<1>10. Progress(dag, ref)
  BY <1>2, <1>3 DEF Progress, Dags, NodeStates
<1>11. outdated' \subseteq Nodes /\ z \notin outdated'
  BY <1>1, <1>2, <1>3, <1>5, <1>7
<1>12. \A n \in outdated' : ref[n] \in {"processing", "done"} => ref[n] = dag.ref[n]
  BY <1>3, <1>11 DEF Dags
<1>13. FreshOK(dag', state', drv', outdated')
  <2>. HIDE DEF ref
  <2>. QED BY <1>1, <1>3, <1>9, <1>10, <1>11, <1>12, ProgressFresh
<1>14. ASSUME FlowRuns
       PROVE  FlowOK(dag', state', drv', ran')
  <2>1. FlowOK(dag, state, drv, ran)
    BY <1>2, <1>14, FreshFacts
  <2>2. ASSUME NEW m \in Nodes, Over(dag, m) PROVE state'[m] = "resolved"
    <3>1. state[m] = "resolved" /\ dag.ref[m] = "done"
      BY <2>1, <2>2 DEF FlowOK, LineOK, Stays, Over
    <3>2. m # z
      BY <1>2, <3>1
    <3>3. m \notin Marked(state, walk)
      <4>1. m \in Marked(state, walk) => m \in Downstream(z)
        BY <1>2, <1>3, <1>14, WalkFacts DEF walk
      <4>. QED BY <3>1, <3>2, <4>1, BelowWaits
    <3>. QED BY <1>4, <3>1, <3>2, <3>3
  <2>3. FlowOK(dag, state', drv, ran)
    BY <1>3, <1>4, <2>1, <2>2, UnresolvedFlow
  <2>4. FlowOK(dag, state', drv', ran)
    BY <1>1, <1>2, <2>3, DriverFlow
  <2>5. \A m \in Nodes : ref[m] = IF m = z THEN "processing" ELSE dag.ref[m]
    BY <1>2, <1>3 DEF Dags
  <2>. HIDE DEF ref
  <2>6. /\ LineOK(dag', state') /\ SeedOK(dag', state', drv') /\ Recorded(dag') = Recorded(dag)
        /\ \A x \in Nodes : Over(dag', x) <=> Over(dag, x)
    BY <1>1, <1>3, <1>10, <2>4, ProgressFlow
  <2>7. dag'.ref = ref
    BY <1>1, <1>3 DEF Dags
  <2>8. EndedOK(dag', drv') /\ RanDone(dag', ran')
    BY <1>1, <2>4, <2>5, <2>7 DEF FlowOK, EndedOK, RanDone
  <2>. QED BY <2>6, <2>8 DEF FlowOK
<1>15. ModeOK'
  <2>1. dag'.deferred = dag.deferred
    BY <1>1, <1>3 DEF Dags
  <2>. QED BY <1>1, <1>3, <2>1, ModeKept DEF ModeOK, Running
<1>. QED BY <1>1, <1>2, <1>3, <1>4, <1>13, <1>14, <1>15, FreshFrom

-----------------------------------------------------------------------------
(* Nodes that end.                                                         *)

(* What moves on within a run keeps the graphs as they are.                *)
LEMMA ProgressStep ==
  ASSUME OrderlyRuns, PInv, FInv, cur = "dag",
         NEW ref, Progress(dag, ref), dag' = [dag EXCEPT !.ref = ref],
         UNCHANGED <<shape, state, swept, cur, single, ran, outdated>>,
         drv.at \notin {"seed", "sinks", "failing"}, drv'.at \notin {"seed", "sinks", "validating"},
         \A n \in Nodes : ref[n] = "done" => dag.ref[n] \in {"done", "processing"},
         \A n \in Nodes : ref[n] = "processing" => dag.ref[n] = "processing",
         \A n \in Nodes : ref[n] \in {"canceled", "errored"} =>
           dag.ref[n] \in {"canceled", "errored"} \/ drv'.at = "failing"
  PROVE  FInv'
<1>1. /\ ShapeOK /\ dag \in Dags /\ GraphsOK(dag) /\ outdated \subseteq Nodes /\ ModeOK
      /\ FreshOK(dag, state, drv, outdated) /\ SweptOK(state, swept)
  BY FreshFacts
<1>2. FreshOK(dag, state, drv', outdated)
  BY <1>1, DriverFresh
<1>3. \A n \in outdated : ref[n] \in {"processing", "done"} => ref[n] = dag.ref[n]
  BY <1>1 DEF FreshOK, OutdatedOK
<1>4. FreshOK(dag', state, drv', outdated)
  BY <1>1, <1>2, <1>3, ProgressFresh
<1>5. dag'.ref = ref /\ dag'.deferred = dag.deferred
  BY <1>1 DEF Dags
<1>6. ASSUME FlowRuns PROVE FlowOK(dag', state, drv', ran)
  <2>1. FlowOK(dag, state, drv', ran)
    BY <1>6, FreshFacts, DriverFlow
  <2>2. /\ LineOK(dag', state) /\ SeedOK(dag', state, drv') /\ Recorded(dag') = Recorded(dag)
        /\ \A x \in Nodes : Over(dag', x) <=> Over(dag, x)
    BY <1>1, <2>1, ProgressFlow
  <2>3. EndedOK(dag', drv') /\ RanDone(dag', ran)
    BY <1>5, <2>1 DEF FlowOK, EndedOK, RanDone
  <2>. QED BY <2>2, <2>3 DEF FlowOK
<1>7. ModeOK'
  BY <1>1, <1>5, ModeKept DEF ModeOK, Running
<1>. QED BY <1>1, <1>4, <1>6, <1>7, FreshFrom

(* The driver wakes to a failed task.                                      *)
LEMMA WakeToFailureFresh ==
  ASSUME OrderlyRuns, PInv, FInv, NEW n \in Nodes, WakeToFailure(n)
  PROVE  FInv'
<1>1. /\ drv.at = "waiting" /\ task[n] # "none" /\ drv'.at = "failing"
      /\ UNCHANGED <<shape, state, swept, cur, single, ran, outdated>>
      /\ \E end \in {"errored", "canceled"} : dag' = [dag EXCEPT !.ref[n] = end]
  BY DEF WakeToFailure, Fail, GoTo, Rest
<1>2. dag \in Dags /\ dag.ref[n] = "processing"
  BY <1>1, WorkFacts DEF Steady, TasksOK
<1>3. PICK end \in {"errored", "canceled"} : dag' = [dag EXCEPT !.ref[n] = end]
  BY <1>1
<1>. DEFINE ref == [dag.ref EXCEPT ![n] = end]
<1>4. dag' = [dag EXCEPT !.ref = ref]
  BY <1>3
<1>5. ref \in [Nodes -> NodeStates] /\ \A m \in Nodes : ref[m] = IF m = n THEN end ELSE dag.ref[m]
  BY <1>2 DEF Dags, NodeStates
<1>. HIDE DEF ref
<1>6. Progress(dag, ref)
  BY <1>2, <1>5 DEF Progress
<1>. QED BY <1>1, <1>4, <1>5, <1>6, InDag, ProgressStep

(* The tasks that ended and were not yet seen to.                          *)
LEMMA FinishedFacts ==
  ASSUME PInv
  PROVE  /\ Finished \subseteq Nodes /\ dag \in Dags /\ \A n \in Finished : dag.ref[n] = "processing"
         /\ \A n \in Finished : task[n] \in Ended
<1>1. \A n \in Finished : n \in Nodes /\ task[n] \in Ended /\ task[n] # "none"
  BY DEF Finished, Ended
<1>. QED BY <1>1, WorkFacts DEF Steady, TasksOK

(* The driver wakes to tasks that ended well.                              *)
LEMMA WakeFresh ==
  ASSUME OrderlyRuns, PInv, FInv, Wake
  PROVE  FInv'
<1>. DEFINE ref == [n \in Nodes |-> IF n \in Finished THEN "done" ELSE dag.ref[n]]
<1>1. /\ drv.at = "waiting" /\ drv'.at = "pop" /\ dag' = [dag EXCEPT !.ref = ref]
      /\ UNCHANGED <<shape, state, swept, cur, single, ran, outdated>>
  BY DEF Wake, StartPop, Rest
<1>2. ref \in [Nodes -> NodeStates] /\ \A m \in Nodes : ref[m] = IF m \in Finished THEN "done" ELSE dag.ref[m]
  BY FinishedFacts DEF Dags, NodeStates
<1>. HIDE DEF ref
<1>3. Progress(dag, ref)
  BY <1>2, FinishedFacts DEF Progress
<1>. QED BY <1>1, <1>2, <1>3, FinishedFacts, InDag, ProgressStep

(* A run that failed starts nothing any more.                              *)
LEMMA EnterErrorFresh ==
  ASSUME OrderlyRuns, PInv, FInv, EnterError
  PROVE  FInv'
<1>. DEFINE ref == [n \in Nodes |-> IF dag.ref[n] = "queued" THEN "canceled" ELSE dag.ref[n]]
<1>1. /\ drv.at = "failing" /\ drv'.at = "error" /\ cur' = "error" /\ dag' = [dag EXCEPT !.ref = ref]
      /\ UNCHANGED <<shape, state, swept, single, ran, outdated>>
  BY DEF EnterError, GoTo, Rest
<1>2. /\ ShapeOK /\ dag \in Dags /\ outdated \subseteq Nodes /\ ModeOK
      /\ FreshOK(dag, state, drv, outdated)
  BY FreshFacts
<1>3. /\ ref \in [Nodes -> NodeStates]
      /\ \A m \in Nodes : ref[m] = IF dag.ref[m] = "queued" THEN "canceled" ELSE dag.ref[m]
  BY <1>2 DEF Dags, NodeStates
<1>. HIDE DEF ref
<1>4. Progress(dag, ref)
  BY <1>3 DEF Progress
<1>5. FreshOK(dag, state, drv', outdated)
  BY <1>1, <1>2, DriverFresh
<1>6. \A n \in outdated : ref[n] \in {"processing", "done"} => ref[n] = dag.ref[n]
  BY <1>2, <1>3
<1>7. FreshOK(dag', state, drv', outdated)
  BY <1>1, <1>2, <1>4, <1>5, <1>6, ProgressFresh
<1>8. ModeOK'
  <2>1. dag'.deferred = dag.deferred /\ Running
    BY <1>1, <1>2, InDag DEF Dags, Running
  <2>. QED BY <1>1, <1>2, <2>1, ModeKept DEF ModeOK
<1>. QED BY <1>1, <1>7, <1>8, FreshFrom

(* What was executing may be resolved: its inputs are.                     *)
LEMMA ResolvedFresh ==
  ASSUME ShapeOK, NEW d, NEW st, NEW st2, NEW w, NEW o, o \subseteq Nodes, FreshOK(d, st, w, o),
         \A m \in Nodes : st2[m] = st[m] \/ (st2[m] = "resolved" /\ d.ref[m] = "processing")
  PROVE  FreshOK(d, st2, w, o)
<1>0. \A e \in Carrying : e[1] \in Nodes /\ e[2] \in Nodes
  BY ShapeFacts
<1>1. StaleBelow(st2)
  <2>1. ASSUME NEW e \in Carrying, st[e[2]] # "resolved", st2[e[2]] = "resolved"
        PROVE  st[e[1]] = "resolved"
    <3>1. d.ref[e[2]] = "processing"
      BY <1>0, <2>1
    <3>2. e[2] \in Recorded(d)
      BY <1>0, <3>1 DEF Recorded
    <3>. QED BY <3>1, <3>2 DEF FreshOK, Values, Ready
  <2>2. StaleBelow(st)
    BY DEF FreshOK, Values
  <2>. QED BY <2>1, <2>2, StaleResolving
<1>2. Ready(d, st2)
  BY <1>0 DEF FreshOK, Values, Ready
<1>3. Asked(d, st2)
  BY <1>0 DEF FreshOK, Values, Asked
<1>4. OutdatedOK(d, st2, w, o)
  BY DEF FreshOK, OutdatedOK
<1>5. WaitingOK(d, st2, w)
  BY DEF FreshOK, WaitingOK
<1>. QED BY <1>1, <1>2, <1>3, <1>4, <1>5 DEF FreshOK, Values

(* Tasks that end while it fails are seen to, and the last ends the run.   *)
LEMMA ErrorReapsFresh ==
  ASSUME OrderlyRuns, PInv, FInv, ErrorReaps
  PROVE  FInv'
<1>. DEFINE published == {n \in Finished : task[n] = "ok"}
            after == [n \in Nodes |-> IF n \in published THEN "resolved" ELSE state[n]]
            ref == [n \in Nodes |-> IF n \in Finished THEN Reaped(n) ELSE dag.ref[n]]
<1>1. /\ drv.at = "error" /\ UNCHANGED <<shape, swept, ran, outdated>>
      /\ \/ state' = GivenBack(after) /\ \E outcome : Complete(outcome)
         \/ state' = after /\ dag' = [dag EXCEPT !.ref = ref] /\ drv'.at = "error"
            /\ UNCHANGED <<cur, single>>
  BY DEF ErrorReaps, GoTo, Rest
<1>2. /\ ShapeOK /\ dag \in Dags /\ outdated \subseteq Nodes /\ ModeOK /\ state \in States
      /\ FreshOK(dag, state, drv, outdated)
  BY FreshFacts
<1>3. after \in States /\ \A m \in Nodes : after[m] = IF m \in published THEN "resolved" ELSE state[m]
  BY <1>2 DEF States
<1>4. /\ ref \in [Nodes -> NodeStates]
      /\ \A m \in Nodes : m \in Finished => ref[m] \in {"done", "errored", "canceled"}
      /\ \A m \in Nodes : m \notin Finished => ref[m] = dag.ref[m]
  <2>1. \A n \in Finished : Reaped(n) \in {"done", "errored", "canceled"}
    BY FinishedFacts DEF Reaped, Ended
  <2>. QED BY <2>1, <1>2 DEF Dags, NodeStates
<1>5. published \subseteq Finished
  OBVIOUS
<1>. HIDE DEF after, ref, published
<1>6. FreshOK(dag, after, drv, outdated)
  BY <1>2, <1>3, <1>5, FinishedFacts, ResolvedFresh
<1>7. CASE state' = GivenBack(after) /\ \E outcome : Complete(outcome)
  <2>1. /\ dag' = EmptyDag /\ drv'.at = "idle" /\ single' = FALSE /\ cur' = "complete"
    BY <1>7 DEF Complete, Rest
  <2>2. \A m \in Nodes : state'[m] = "resolved" <=> after[m] = "resolved"
    BY <1>3, <1>7, GivenBackResolved
  <2>. QED BY <1>1, <1>6, <2>1, <2>2, EndFresh
<1>8. CASE /\ state' = after /\ dag' = [dag EXCEPT !.ref = ref] /\ drv'.at = "error"
           /\ UNCHANGED <<cur, single>>
  <2>1. Progress(dag, ref)
    BY <1>4, FinishedFacts DEF Progress
  <2>2. FreshOK(dag, after, drv', outdated)
    BY <1>1, <1>6, <1>8, DriverFresh
  <2>3. \A n \in outdated : ref[n] \in {"processing", "done"} => ref[n] = dag.ref[n]
    BY <1>2, <1>4, FinishedFacts DEF FreshOK, OutdatedOK
  <2>4. FreshOK(dag', state', drv', outdated)
    BY <1>2, <1>8, <2>1, <2>2, <2>3, ProgressFresh
  <2>5. cur' # "dag"
    BY <1>1, <1>8 DEF PInv, DriverOK
  <2>6. ModeOK'
    <3>1. dag'.deferred = dag.deferred
      BY <1>2, <1>8 DEF Dags
    <3>. QED BY <1>1, <1>2, <1>8, <3>1, ModeKept DEF ModeOK, Running
  <2>. QED BY <1>1, <2>4, <2>5, <2>6, FreshFrom
<1>. QED BY <1>1, <1>7, <1>8

(* The leaves of a graph that are ready are queued.                        *)
LEMMA LeaveGraphFresh ==
  ASSUME OrderlyRuns, PInv, FInv, LeaveGraph
  PROVE  FInv'
<1>. DEFINE S == Leaves(dag, drv.node)
<1>1. /\ drv.at = "popping" /\ drv'.at = "pop" /\ dag' = TryQueue(dag, shape, S)
      /\ UNCHANGED <<shape, state, swept, cur, single, ran, outdated>>
  BY DEF LeaveGraph, Rest
<1>2. /\ ShapeOK /\ dag \in Dags /\ GraphsOK(dag) /\ outdated \subseteq Nodes /\ ModeOK
      /\ FreshOK(dag, state, drv, outdated) /\ SweptOK(state, swept)
  BY <1>1, InDag, FreshFacts
<1>3. FreshOK(dag, state, drv', outdated)
  BY <1>1, <1>2, DriverFresh
<1>. HIDE DEF S
<1>4. FreshOK(dag', state, drv', outdated)
  BY <1>1, <1>2, <1>3, TryQueueFresh
<1>5. ASSUME FlowRuns PROVE FlowOK(dag', state, drv', ran)
  <2>1. FlowOK(dag, state, drv', ran)
    BY <1>1, <1>5, InDag, FreshFacts, DriverFlow
  <2>. QED BY <1>1, <1>2, <2>1, TryQueueFlow
<1>6. dag'.deferred = dag.deferred
  BY <1>1, <1>2, TryQueueOthers
<1>7. ModeOK'
  BY <1>1, <1>2, <1>6, ModeKept DEF ModeOK, Running
<1>. QED BY <1>1, <1>2, <1>4, <1>5, <1>7, FreshFrom

(* A graph is forgotten once it is empty: its nodes were done with their   *)
(* inputs resolved.                                                        *)
LEMMA CleanUpFresh ==
  ASSUME ShapeOK, NEW d \in Dags, GraphsOK(d), NEW g \in Graphs, d.members[g] = {},
         NEW st, NEW w, NEW o, o \subseteq Nodes, FreshOK(d, st, w, o)
  PROVE  FreshOK(CleanUp(d, g), st, w, o) /\ CleanUp(d, g).deferred = d.deferred
<1>. DEFINE d2 == CleanUp(d, g)
            ref == [n \in Nodes |-> IF n \in d.homes[g] THEN "absent" ELSE d.ref[n]]
            homes == [d.homes EXCEPT ![g] = {}]
<1>1. d2 = [d EXCEPT !.ref = ref, !.dataOnly = d.dataOnly \ d.homes[g],
                     !.known = d.known \ {g}, !.homes = homes]
  BY Zenon DEF CleanUp
<1>2. \A m \in Nodes : ref[m] = IF m \in d.homes[g] THEN "absent" ELSE d.ref[m]
  OBVIOUS
<1>. HIDE DEF ref, homes, d2
<1>3. d2.ref = ref /\ d2.nets = d.nets /\ d2.edges = d.edges /\ d2.deferred = d.deferred
  BY <1>1 DEF Dags
<1>4. \A m \in d.homes[g] : m \in Nodes /\ d.ref[m] = "done"
  BY DEF GraphsOK, HomesKept, Dags
<1>5. \A m \in Nodes : m \in Recorded(d2) <=> m \in Recorded(d) /\ m \notin d.homes[g]
  BY <1>2, <1>3 DEF Recorded
<1>6. Ready(d2, st)
  <2>1. \A e \in Carrying : e[2] \in Recorded(d2) => e[2] \in Recorded(d) /\ d2.ref[e[2]] = d.ref[e[2]]
    BY <1>2, <1>3, <1>5, ShapeFacts
  <2>. QED BY <1>3, <2>1 DEF FreshOK, Values, Ready
<1>7. Fed(d2)
  BY <1>3 DEF FreshOK, Values, Fed
<1>8. Asked(d2, st)
  <2>. SUFFICES ASSUME ~FlowRuns, NEW m \in d.nets \cap Nodes, m \notin Recorded(d2),
                       NEW e \in Carrying, e[2] = m
                PROVE  st[e[1]] = "resolved"
    BY <1>3 DEF Asked
  <2>1. CASE m \in Recorded(d)
    <3>1. d.ref[m] = "done"
      BY <1>4, <1>5, <2>1
    <3>. QED BY <2>1, <3>1 DEF FreshOK, Values, Ready
  <2>2. CASE m \notin Recorded(d)
    BY <2>2 DEF FreshOK, Values, Asked
  <2>. QED BY <2>1, <2>2
<1>9. OutdatedOK(d2, st, w, o)
  BY <1>2, <1>3 DEF FreshOK, OutdatedOK
<1>10. WaitingOK(d2, st, w)
  BY <1>2, <1>3 DEF FreshOK, WaitingOK
<1>. QED BY <1>3, <1>6, <1>7, <1>8, <1>9, <1>10 DEF FreshOK, Values, d2

(* The finished leaf leaves its graphs and is resolved.                    *)
LEMMA PopFacts ==
  ASSUME OrderlyRuns, PInv, FInv, NEW n \in Nodes, PopNode(n),
         NEW freed, freed = Dropped(dag, n), NEW st, st = [state EXCEPT ![n] = "resolved"]
  PROVE  /\ cur = "dag" /\ drv.at = "popping" /\ drv'.at = "popping" /\ drv.node \in Graphs
         /\ UNCHANGED <<shape, cur, single, ran, outdated>>
         /\ freed \in Dags /\ GraphsOK(freed) /\ st \in States
         /\ FreshOK(freed, st, drv', outdated) /\ SweptOK(st, swept')
         /\ Advance(freed, st, n, drv.node)
         /\ n \in dag.members[drv.node] /\ n \in Recorded(dag)
<1>1. /\ drv.at = "popping" /\ n \in drv.leaves /\ IsDone(n)
      /\ drv' = [drv EXCEPT !.leaves = @ \ {n}] /\ swept' = swept \ {n}
      /\ UNCHANGED <<shape, cur, single, ran, outdated>>
  BY DEF PopNode
<1>2. cur = "dag"
  BY <1>1, InDag
<1>3. /\ ShapeOK /\ dag \in Dags /\ GraphsOK(dag) /\ outdated \subseteq Nodes /\ state \in States
      /\ FreshOK(dag, state, drv, outdated) /\ SweptOK(state, swept)
  BY <1>2, FreshFacts
<1>4. drv \in Drivers
  BY TypeParts DEF DriverTypes
<1>5. /\ drv'.at = "popping" /\ drv'.todo = drv.todo /\ drv'.node = drv.node
      /\ drv'.leaves = drv.leaves \ {n} /\ drv.node \in Graphs
  BY <1>1, <1>4 DEF Drivers
<1>6. n \in Recorded(dag) /\ (dag.ref[n] = "done" \/ (n \in shape.locked /\ dag.ref[n] # "absent"))
  BY <1>1 DEF IsDone, Recorded
<1>7. /\ drv.todo \in SUBSET Graphs /\ queue \in SUBSET Nodes /\ Past \in SUBSET Nodes
      /\ Steady(dag, state, queue, task, drv, Past) /\ DoneOK(dag, state)
  BY <1>2, WorkFacts
<1>8. n \in dag.members[drv.node]
  BY <1>1, <1>7 DEF Steady, SeesAsIs
<1>9. freed \in Dags /\ GraphsOK(freed)
  <2>1. /\ freed \in Dags /\ Steady(freed, st, queue \ {n}, task, drv', Past)
    BY <1>1, <1>3, <1>5, <1>6, <1>7, DropSteady DEF States
  <2>. QED BY <2>1 DEF Steady
<1>10. st \in States /\ st[n] = "resolved" /\ \A m \in Nodes \ {n} : st[m] = state[m]
  BY <1>3 DEF States
<1>11. FreshOK(freed, st, drv', outdated)
  <2>1. FreshOK(freed, st, drv, outdated)
    BY <1>3, <1>6, DropFresh
  <2>. QED BY <1>1, <1>5, <2>1, DriverFresh
<1>12. SweptOK(st, swept')
  <2>1. ASSUME NEW e \in Carrying, e[1] \in swept, e[2] = n PROVE FALSE
    <3>1. n \notin shape.locked /\ e[1] \notin shape.locked
      BY <2>1 DEF Carrying
    <3>2. dag.ref[n] = "done" /\ state[e[1]] # "resolved"
      BY <1>3, <1>6, <2>1, <3>1 DEF SweptOK
    <3>. QED BY <1>3, <1>6, <2>1, <3>2 DEF FreshOK, Values, Ready
  <2>2. \A e \in Carrying : e[1] \in swept' => e[2] \in swept'
    BY <1>1, <1>3, <2>1 DEF SweptOK
  <2>3. \A m \in swept' \ shape.locked : st[m] # "resolved"
    BY <1>1, <1>3, <1>10, FreshFacts DEF SweptOK
  <2>. QED BY <2>2, <2>3 DEF SweptOK
<1>13. Advance(freed, st, n, drv.node)
  <2>1. ~(state[n] = "resolved" /\ n \notin shape.locked)
    BY <1>5, <1>6, <1>7, <1>8 DEF DoneOK
  <2>. QED BY <2>1 DEF PopNode, Dropped
<1>. QED BY <1>1, <1>2, <1>5, <1>6, <1>8, <1>9, <1>10, <1>11, <1>12, <1>13

(* What a run of the flow knows of the node that leaves.                   *)
LEMMA PopFlow ==
  ASSUME OrderlyRuns, PInv, FInv, FlowRuns, NEW n \in Nodes, PopNode(n),
         NEW freed, freed = Dropped(dag, n), NEW st, st = [state EXCEPT ![n] = "resolved"]
  PROVE  /\ FlowOK(freed, st, drv', ran) /\ Recorded(freed) = Recorded(dag)
         /\ freed.dataOnly = dag.dataOnly
         /\ Over(freed, n) /\ ~Over(dag, n)
         /\ \A x \in Nodes \ {n} : Over(freed, x) <=> Over(dag, x)
         /\ FlowOK(dag, state, drv, ran) /\ ~single
<1>1. /\ cur = "dag" /\ drv.at = "popping" /\ drv'.at = "popping" /\ drv.node \in Graphs
      /\ n \in dag.members[drv.node] /\ n \in Recorded(dag)
  BY PopFacts
<1>2. /\ ShapeOK /\ dag \in Dags /\ state \in States /\ ModeOK
      /\ FlowOK(dag, state, drv, ran) /\ Ready(dag, state)
  BY <1>1, FreshFacts DEF FreshOK, Values
<1>3. dag.ref[n] = "done" \/ (n \in shape.locked /\ dag.ref[n] # "absent")
  BY DEF PopNode, IsDone, Recorded
<1>4. /\ FlowOK(freed, st, drv, ran) /\ Recorded(freed) = Recorded(dag)
      /\ freed.dataOnly = dag.dataOnly
      /\ Over(freed, n) /\ \A x \in Nodes \ {n} : Over(freed, x) <=> Over(dag, x)
  BY <1>1, <1>2, <1>3, DropFlow
<1>5. FlowOK(freed, st, drv', ran)
  BY <1>1, <1>4, DriverFlow
<1>6. ~Over(dag, n)
  BY <1>1 DEF Over
<1>. QED BY <1>2, <1>4, <1>5, <1>6 DEF ModeOK

(* Control goes on from n to the node after it: all above that node is     *)
(* over, since control came along it and no other way.                     *)
LEMMA AdvanceTurn ==
  ASSUME ShapeOK, FlowRuns, NEW d, InTurn(d), NEW e \in shape.wires, e[1] \in Turns,
         e[1] \in Recorded(d), Over(d, e[1])
  PROVE  /\ e[2] \in Turns
         /\ \A x \in Turns : e[2] \in After(shape.feeds, x) => Over(d, x)
         /\ \A f \in shape.wires : e[2] = f[2] \/ e[1] = f[1] => f = e
<1>1. \A f \in shape.wires : e[2] = f[2] \/ e[1] = f[1] => f = e
  BY DEF ShapeOK, InLine, Straight
<1>2. e[2] \in Turns
  BY TurnsFacts
<1>3. ASSUME NEW x \in Turns, e[2] \in After(shape.feeds, x)
      PROVE  Over(d, x)
  <2>1. x \in Nodes /\ shape.wires \in SUBSET (Nodes \X Nodes)
    BY ShapeFacts
  <2>2. e[2] \in After(shape.wires, x)
    BY <1>2, <1>3, TurnsInOrder
  <2>3. PICK f \in shape.wires : f[2] = e[2] /\ (f[1] = x \/ f[1] \in After(shape.wires, x))
    BY <2>1, <2>2, AfterLast
  <2>4. e[1] = x \/ e[1] \in After(shape.wires, x)
    BY <1>1, <2>3
  <2>. QED BY <2>4, TurnsBefore
<1>. QED BY <1>1, <1>2, <1>3

(* Where control can go on it has gone on so far: the node is no sink and  *)
(* did not only supply data, so it was not pulled in.                      *)
LEMMA GoesOn ==
  ASSUME ShapeOK, FlowRuns, NEW d, NEW st, LineOK(d, st), NEW e \in shape.wires,
         e[1] \in Recorded(d), e[1] \notin d.dataOnly, ~Over(d, e[1])
  PROVE  Going(d) /\ e[1] \in Turns /\ e[2] \in Turns /\ e[2] \notin Recorded(d)
<1>1. e[1] \notin Sinks(shape)
  BY TurnsFacts
<1>2. e[1] \in Turns
  BY <1>1 DEF LineOK, Rooted
<1>3. e[2] \in Turns
  BY <1>2, TurnsFacts
<1>4. Going(d)
  BY <1>1 DEF LineOK, Closing, Pulled
<1>. QED BY <1>2, <1>3, <1>4 DEF Going, InTurn

(* A node that is done becomes resolved, leaves the graphs and hands       *)
(* control on.                                                             *)
LEMMA PopNodeFresh ==
  ASSUME OrderlyRuns, PInv, FInv, NEW n \in Nodes, PopNode(n)
  PROVE  FInv'
<1>1. PICK freed : freed = Dropped(dag, n)
  OBVIOUS
<1>2. PICK st : st = [state EXCEPT ![n] = "resolved"]
  OBVIOUS
<1>3. /\ cur = "dag" /\ drv.at = "popping" /\ drv'.at = "popping" /\ drv.node \in Graphs
      /\ UNCHANGED <<shape, cur, single, ran, outdated>>
      /\ freed \in Dags /\ GraphsOK(freed) /\ st \in States
      /\ FreshOK(freed, st, drv', outdated) /\ SweptOK(st, swept')
      /\ Advance(freed, st, n, drv.node)
      /\ n \in Recorded(dag)
  BY <1>1, <1>2, PopFacts
<1>4. ShapeOK /\ ModeOK /\ outdated \subseteq Nodes /\ swept \subseteq Nodes
  BY FreshFacts
<1>5. freed.deferred = dag.deferred
  <2>1. PICK ref, a, b : freed = [[dag EXCEPT !.ref = ref] EXCEPT !.members = a, !.edges = b]
    BY <1>1, Zenon DEF Dropped, Release
  <2>2. dag \in Dags
    BY FreshFacts
  <2>. QED BY <2>1, <2>2 DEF Dags
<1>6. CASE single
  <2>1. ~FlowRuns
    BY <1>4, <1>6 DEF ModeOK
  <2>2. state' = st /\ dag' \in {freed, CleanUp(freed, drv.node)}
        /\ (dag' # freed => freed.members[drv.node] = {})
    BY <1>3, <1>6, Zenon DEF Advance, ControlEnds
  <2>3. FreshOK(dag', st, drv', outdated) /\ dag'.deferred = dag.deferred
    <3>1. CASE dag' = freed
      BY <1>3, <1>5, <3>1
    <3>2. CASE dag' # freed
      <4>1. dag' = CleanUp(freed, drv.node) /\ freed.members[drv.node] = {}
        BY <2>2, <3>2
      <4>. QED BY <1>3, <1>4, <1>5, <4>1, CleanUpFresh
    <3>. QED BY <3>1, <3>2
  <2>4. ModeOK'
    BY <1>3, <1>4, <2>3, ModeKept DEF ModeOK, Running
  <2>. QED BY <1>3, <2>1, <2>2, <2>3, <2>4, FreshFrom
<1>7. CASE ~single
  <2>1. FlowRuns
    BY <1>3, <1>4, <1>7 DEF ModeOK, Running
  <2>2. /\ FlowOK(freed, st, drv', ran) /\ Recorded(freed) = Recorded(dag)
        /\ freed.dataOnly = dag.dataOnly
        /\ Over(freed, n) /\ ~Over(dag, n)
        /\ \A x \in Nodes \ {n} : Over(freed, x) <=> Over(dag, x)
        /\ FlowOK(dag, state, drv, ran)
    BY <1>1, <1>2, <2>1, PopFlow
  <2>3. ModeOK'
    BY <1>3, <1>4, <2>1 DEF ModeOK
  <2>5. CASE dag' = freed /\ state' = st
    BY <1>3, <2>2, <2>3, <2>5, FreshFrom
  <2>6. ASSUME NEW e \in shape.wires, e[1] = n, n \notin freed.dataOnly,
               NEW ready, ready = Unresolved(st, {e[2]} \ shape.locked),
               NEW S, NEW added, added = Add(freed, Needed(ready), e[2], drv.node),
               state' = ready, dag' = TryQueue(added, shape, S)
        PROVE  FInv'
    <3>1. e[2] \in Nodes /\ Turns \subseteq Nodes /\ shape.wires \in SUBSET (Nodes \X Nodes)
      BY <1>4, ShapeFacts
    <3>2. Going(dag) /\ n \in Turns /\ e[2] \notin Recorded(dag)
      <4>1. LineOK(dag, state)
        BY <2>2 DEF FlowOK
      <4>. QED BY <1>3, <1>4, <2>1, <2>2, <2>6, <4>1, GoesOn
    <3>3. Going(freed)
      <4>1. \A x \in Nodes : Over(dag, x) => Over(freed, x)
        BY <2>2
      <4>. QED BY <2>2, <3>1, <3>2, <4>1 DEF Going, Before, InTurn
    <3>4. /\ LineOK(freed, st) /\ InTurn(freed) /\ Stays(freed, st) /\ Before(freed)
          /\ SeedOK(freed, st, drv') /\ EndedOK(freed, drv') /\ RanDone(freed, ran)
      BY <2>2, <3>3 DEF FlowOK, LineOK, Going
    <3>5. /\ e[2] \in Turns
          /\ \A x \in Turns : e[2] \in After(shape.feeds, x) => Over(freed, x)
          /\ \A f \in shape.wires : e[2] = f[2] \/ e[1] = f[1] => f = e
      BY <1>3, <1>4, <2>1, <2>2, <2>6, <3>4, <3>2, AdvanceTurn
    <3>6. e[2] \notin Recorded(freed)
      BY <2>2, <3>2
    <3>7. /\ \A m \in Nodes : ready[m] = IF m = e[2] /\ m \notin shape.locked THEN "unresolved" ELSE st[m]
          /\ ready \in States
      BY <1>3, <2>6 DEF Unresolved, States
    <3>8. ~Over(freed, e[2])
      BY <3>1, <3>6 DEF Over, Recorded
    <3>9. FreshOK(freed, ready, drv', outdated)
      <4>1. ASSUME NEW c \in Carrying, st[c[1]] = "resolved", ready[c[1]] # "resolved"
            PROVE  c[2] \notin Recorded(freed)
        <5>1. c[1] = e[2] /\ c \in shape.feeds
          BY <1>4, <3>7, <4>1, ShapeFacts
        <5>2. c[2] \in After(shape.feeds, e[2])
          BY <1>4, <5>1, ShapeFacts, AfterNext
        <5>. QED BY <3>4, <3>5, <3>8, <5>1, <5>2 DEF Before
      <4>2. \A m \in Nodes : ready[m] = "resolved" => st[m] = "resolved"
        BY <3>7
      <4>3. \A m \in Nodes \ Turns : ready[m] = st[m]
        BY <3>5, <3>7
      <4>. QED BY <1>3, <1>4, <2>1, <4>1, <4>2, <4>3, UnresolvedFresh
    <3>10. FlowOK(freed, ready, drv', ran)
      <4>1. \A m \in Nodes : ready[m] = "resolved" => st[m] = "resolved"
        BY <3>7
      <4>2. \A m \in Nodes : Over(freed, m) => ready[m] = "resolved"
        BY <3>4, <3>7, <3>8 DEF Stays
      <4>. QED BY <1>4, <2>2, <4>1, <4>2, UnresolvedFlow
    <3>11. SweptOK(ready, swept')
      <4>1. \A m \in Nodes : ready[m] = "resolved" => st[m] = "resolved"
        BY <3>7
      <4>2. swept' \subseteq Nodes
        BY <1>4 DEF PopNode
      <4>. QED BY <1>3, <4>1, <4>2, UnresolvedSwept
    <3>12. added \in Dags /\ GraphsOK(added)
      BY <1>3, <1>4, <2>6, <3>1, AddGraphs
    <3>13. FreshOK(added, ready, drv', outdated)
      <4>1. e[2] \in shape.locked \/ ready[e[2]] # "resolved"
        BY <3>1, <3>7
      <4>. QED BY <1>3, <1>4, <2>1, <2>6, <3>1, <3>9, <4>1, AddFresh
    <3>14. /\ FlowOK(added, ready, drv', ran) /\ e[2] \in Recorded(added)
           /\ Recorded(freed) \subseteq Recorded(added)
           /\ \A x \in Nodes : Over(added, x) <=> Over(freed, x)
      <4>1. /\ LineOK(freed, ready) /\ SeedBut(freed, ready, drv', {e[2]}) /\ Going(freed)
            /\ EndedOK(freed, drv') /\ RanDone(freed, ran)
        BY <1>3, <3>10, <3>3 DEF FlowOK, SeedOK, SeedBut
      <4>2. \A f \in shape.wires : f[2] = e[2] => Over(freed, f[1])
        BY <2>2, <2>6, <3>5
      <4>3. drv'.at # "seed" /\ drv'.at # "sinks"
        BY <1>3
      <4>4. /\ freed \in Dags /\ e[2] \in Nodes /\ drv.node \in Graphs
            /\ ShapeOK /\ FlowRuns /\ e[2] \in Turns \cup Sinks(shape)
        BY <1>3, <1>4, <2>1, <3>1, <3>5
      <4>5. \A x \in Turns : e[2] \in After(shape.feeds, x) => Over(freed, x)
        BY <3>5
      <4>6. LET d2 == Add(freed, Needed(ready), e[2], drv.node)
            IN /\ FlowOK(d2, ready, drv', ran) /\ e[2] \in Recorded(d2)
               /\ Recorded(freed) \subseteq Recorded(d2)
               /\ \A x \in Nodes : Over(d2, x) <=> Over(freed, x)
        BY <4>1, <4>2, <4>3, <4>4, <4>5, AddFlow
      <4>. QED BY <2>6, <4>6
    <3>15. FreshOK(dag', ready, drv', outdated)
      BY <1>4, <2>6, <3>12, <3>13, TryQueueFresh
    <3>16. /\ FlowOK(dag', ready, drv', ran) /\ Recorded(dag') = Recorded(added)
           /\ \A x \in Nodes : Over(dag', x) <=> Over(added, x)
      <4>1. FlowOK(added, ready, drv', ran) /\ drv'.at \notin {"seed", "sinks", "failing"}
        BY <1>3, <3>14
      <4>2. LET d2 == TryQueue(added, shape, S)
            IN /\ FlowOK(d2, ready, drv', ran) /\ Recorded(d2) = Recorded(added)
               /\ \A x \in Nodes : Over(d2, x) <=> Over(added, x)
        BY <1>4, <3>12, <4>1, TryQueueFlow
      <4>. QED BY <2>6, <4>2
    <3>. QED BY <1>3, <2>3, <2>6, <3>11, <3>15, <3>16, FreshFrom
  <2>7. \/ dag' = freed /\ state' = st
        \/ /\ n \notin freed.dataOnly
           /\ \E e \in shape.wires :
                LET ready == Unresolved(st, {e[2]} \ shape.locked)
                    S == NewNodes(freed, Needed(ready), e[2]) \cup {e[2]}
                    added == Add(freed, Needed(ready), e[2], drv.node)
                IN e[1] = n /\ state' = ready /\ dag' = TryQueue(added, shape, S)
    BY <1>3, <1>7, Zenon DEF Advance, ControlEnds, ControlGoesOn
  <2>. QED BY <2>5, <2>6, <2>7
<1>. QED BY <1>6, <1>7

-----------------------------------------------------------------------------
(* The invariant.                                                          *)

(* Every step keeps the invariant.                                         *)
LEMMA StepFresh ==
  ASSUME GraphsAssumption, MachineAssumption, OrderlyRuns, PInv, FInv, [Next]_vars
  PROVE  FInv'
<1>1. CASE \E n \in Nodes : SeedEntry(n) \/ SeedSink(n) \/ SeedDeferred(n)
  BY <1>1, SeedEntryFresh, SeedSinkFresh, SeedDeferredFresh
<1>2. CASE EnterDag \/ Update \/ Dispatch \/ Wake \/ LeaveGraph
  BY <1>2, EnterDagFresh, UpdateFresh, DispatchFresh, WakeFresh, LeaveGraphFresh
<1>3. CASE \E n \in Nodes : Take(n) \/ WakeToFailure(n) \/ PopNode(n)
  BY <1>3, TakeFresh, WakeToFailureFresh, PopNodeFresh
<1>4. CASE \/ Wait \/ ValidationFails \/ Recheck \/ PopEnds \/ ErrorWaits \/ ErrorWakes
           \/ Pause \/ Continue \/ CancelRun
           \/ \E g \in Graphs : PopGraph(g)
           \/ \E n \in Nodes : CollectFails(n) \/ TaskEnds(n) \/ OrphanEnds(n) \/ ValidatedLate(n)
           \/ UNCHANGED vars
  BY <1>4, AsideFresh
<1>5. CASE EnterError \/ ErrorReaps \/ Canceller
  BY <1>5, EnterErrorFresh, ErrorReapsFresh, CancellerFresh
<1>6. CASE \E n \in Nodes : StartFlow(n)
  BY <1>6, StartFlowFresh
<1>7. CASE \E n \in Requests : ResolveNode(n) \/ Join(n) \/ ResolveInvalid(n)
  <2>1. Requests \subseteq Nodes
    BY DEF MachineAssumption
  <2>. QED BY <1>7, <2>1, ResolveNodeFresh, JoinFresh, ResolveInvalidFresh
<1>. QED BY <1>1, <1>2, <1>3, <1>4, <1>5, <1>6, <1>7 DEF Next, Driver

(* It holds at first.                                                      *)
LEMMA InitFInv ==
  ASSUME MachineAssumption, OrderlyRuns, Init
  PROVE  FInv
<1>1. /\ shape \in Workflows /\ shape \in WorkflowShapes /\ ~AfterLoad
      /\ state \in [Nodes -> {"unresolved", "resolved"}]
      /\ \A e \in shape.feeds : state[e[1]] = "unresolved" => state[e[2]] = "unresolved"
      /\ dag = EmptyDag /\ swept = {} /\ cur = "none" /\ single = FALSE /\ drv.at = "idle"
      /\ outdated = {}
  BY DEF Init, OrderlyRuns, MachineAssumption, Rest
<1>2. StaleBelow(state)
  <2>1. ShapeOK
    BY <1>1 DEF OrderlyRuns, ShapeOK
  <2>2. \A e \in Carrying : e \in shape.feeds /\ e[1] \in Nodes /\ e[2] \in Nodes
    BY <1>1 DEF Carrying, WorkflowShapes
  <2>3. \A e \in Carrying : state[e[1]] # "resolved" => state[e[2]] # "resolved"
    BY <1>1, <2>2
  <2>. QED BY <2>1, <2>3, StaleAlong
<1>3. FreshOK(EmptyDag, state, drv, {})
  BY <1>1, <1>2, EmptyFresh
<1>4. ModeOK
  <2>1. EmptyDag.deferred = {}
    BY DEF EmptyDag
  <2>. QED BY <1>1, <2>1 DEF ModeOK, Running
<1>. QED BY <1>1, <1>3, <1>4 DEF FInv

(* The invariant holds in every run of every orderly workflow.             *)
LEMMA FreshInvariant ==
  ASSUME GraphsAssumption, MachineAssumption, OrderlyRuns
  PROVE  Spec => [](PInv /\ FInv)
<1>1. Init => PInv /\ FInv
  BY InitPInv, InitFInv
<1>2. (PInv /\ FInv) /\ [Next]_vars => (PInv /\ FInv)'
  BY StepPInv, StepFresh
<1>. QED BY <1>1, <1>2, PTL DEF Spec

-----------------------------------------------------------------------------

(* In an orderly workflow, whatever is cancelled, paused or fails, no node *)
(* shows as resolved whose value is from before something it depends on    *)
(* started again.                                                          *)
THEOREM OrderlyIsFresh ==
  ASSUME GraphsAssumption, MachineAssumption, OrderlyRuns
  PROVE  Spec => []ResolvedIsFresh
<1>1. FInv => ResolvedIsFresh
  BY DEF FInv, FreshOK, OutdatedOK, ResolvedIsFresh
<1>. QED BY <1>1, FreshInvariant, PTL

(* In an orderly workflow a node starts with every input it reads resolved *)
(* or frozen by a lock, whatever ran, failed or was cancelled before it.   *)
THEOREM OrderlyInputs ==
  ASSUME GraphsAssumption, MachineAssumption, OrderlyRuns
  PROVE  Spec => InputsResolved
<1>1. PInv /\ FInv /\ [Next]_vars =>
        [\A n \in Nodes : Starts(n) =>
           \A e \in shape.feeds :
             e[2] = n /\ e[1] \notin shape.locked => state[e[1]] = "resolved"]_vars
  <2>. SUFFICES ASSUME PInv, FInv, [Next]_vars, NEW n \in Nodes, Starts(n),
                       NEW e \in shape.feeds, e[2] = n, e[1] \notin shape.locked
                PROVE  state[e[1]] = "resolved"
    OBVIOUS
  <2>1. Dispatch /\ n = drv.node
    BY StartsInDispatch
  <2>2. /\ n \notin shape.locked
        /\ \A c \in Carrying : c[2] = n => state[c[1]] = "resolved"
    BY <2>1, DispatchFacts
  <2>3. e \in Carrying
    BY <2>2 DEF Carrying
  <2>. QED BY <2>2, <2>3
<1>. QED BY <1>1, FreshInvariant, PTL DEF InputsResolved, Spec

(* What a run that completes leaves behind: all it was seeded with and all *)
(* that came into its graphs is over, and what it ran is resolved.         *)
LEMMA CompletesWhole ==
  ASSUME MachineAssumption, OrderlyRuns, PInv, FInv, [Next]_vars, Completing
  PROVE  /\ Entries(shape) \cup Sinks(shape) \cup Recorded(dag) \subseteq ran \cup shape.locked
         /\ \A n \in ran : state[n] = "resolved"
<1>1. /\ FlowRuns /\ ~single /\ Running
  BY DEF Completing, FlowRun, FInv, ModeOK
<1>2. drv.at = "update" /\ AllLeaves(dag) = {} /\ dag.deferred = {}
  <2>1. cur # "complete" /\ cur' = "complete" /\ wfs' = "complete"
    BY <1>1 DEF Completing, Running
  <2>2. CASE Update
    BY <2>1, <2>2 DEF Update, Complete
  <2>3. CASE ErrorReaps
    BY <2>1, <2>3 DEF ErrorReaps, Complete
  <2>4. CASE (\E n \in Nodes : StartFlow(n)) \/ (\E n \in Requests : ResolveNode(n))
    BY <2>1, <2>4 DEF StartFlow, ResolveNode, NewMachine
  <2>5. CASE Canceller
    BY <2>1, <2>5 DEF Canceller, CancelTasks, CancelRaises, CancelEnds, Reset, machineVars
  <2>6. CASE EnterError
    BY <2>1, <2>6 DEF EnterError
  <2>7. cur' # cur
    BY <2>1
  <2>8. \/ Update \/ ErrorReaps \/ Canceller \/ EnterError
        \/ \E n \in Nodes : StartFlow(n)
        \/ \E n \in Requests : ResolveNode(n)
    BY <2>7 DEF Next, Driver, vars, machineVars, SeedEntry, SeedSink, SeedDeferred, EnterDag, Take,
        CollectFails, WakeToFailure, PopNode, Wait, Dispatch, ValidationFails, Wake, Recheck, PopGraph,
        LeaveGraph, PopEnds, ErrorWaits, ErrorWakes, TaskEnds, OrphanEnds, ValidatedLate, Join,
        ResolveInvalid, Pause, Continue, CancelRun
  <2>. QED BY <2>2, <2>3, <2>4, <2>5, <2>6, <2>8
<1>3. cur = "dag" /\ \A n \in Recorded(dag) : Over(dag, n)
  BY <1>1, <1>2, LeftAtUpdate
<1>4. /\ ShapeOK /\ FlowOK(dag, state, drv, ran)
  BY <1>1, <1>3, FreshFacts
<1>5. \A n \in Nodes : Over(dag, n) => n \in ran \cup shape.locked /\ state[n] = "resolved"
  BY <1>4 DEF FlowOK, RanDone, LineOK, Stays, Over
<1>6. Entries(shape) \cup Sinks(shape) \cup Recorded(dag) \subseteq ran \cup shape.locked
  <2>1. \A n \in Entries(shape) \cup Sinks(shape) : n \in Recorded(dag)
    BY <1>2, <1>4 DEF FlowOK, SeedOK, SeedBut
  <2>2. Recorded(dag) \subseteq Nodes
    BY DEF Recorded
  <2>. QED BY <1>3, <1>5, <2>1, <2>2
<1>8. \A n \in ran : state[n] = "resolved"
  <2>1. RanOK(dag, ran) /\ ran \subseteq Nodes
    <3>1. Past = ran
      BY <1>1 DEF Past
    <3>. QED BY <3>1, WorkFacts DEF Steady
  <2>. QED BY <1>3, <1>5, <2>1 DEF RanOK, Recorded
<1>. QED BY <1>6, <1>8

(* A run of an orderly flow that completes ran everything it was seeded    *)
(* with and everything that came into its graphs, and what it ran stands,  *)
(* wherever control ended.                                                 *)
THEOREM OrderlyRunsAll ==
  ASSUME GraphsAssumption, MachineAssumption, OrderlyRuns
  PROVE  Spec => RunsWholeFlow
<1>1. PInv /\ FInv /\ [Next]_vars =>
        [Completing =>
           /\ Entries(shape) \cup Sinks(shape) \cup Recorded(dag) \subseteq ran \cup shape.locked
           /\ \A n \in ran : state[n] = "resolved"]_vars
  BY CompletesWhole
<1>. QED BY <1>1, FreshInvariant, PTL DEF RunsWholeFlow, Spec
=============================================================================
