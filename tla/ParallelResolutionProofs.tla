----------------------- MODULE ParallelResolutionProofs -----------------------
(***************************************************************************)
(* Proofs about ParallelResolution, for any workflows (with cycles too),   *)
(* any number of slots and any mix of runs, joins, pauses and cancels.     *)
(*                                                                         *)
(* One inductive invariant, PInv: the graphs are well-formed, whatever     *)
(* executes is a leaf of one of them and somebody will see to it, and the  *)
(* driver's locals agree with them.                                        *)
(***************************************************************************)
EXTENDS ParallelResolution, TLAPS, FiniteSetTheorems

-----------------------------------------------------------------------------
(* The inductive invariant.                                                 *)

Stands(d, n) == \E g \in d.nets : n \in d.members[g]
NothingBefore(d, n) == \A g \in Graphs : \A m \in Nodes : <<m, n>> \notin d.edges[g]

(* The graphs are well-formed: an edge joins two members; what was added   *)
(* to a graph leaves it only as done, and is recorded while it is listed;  *)
(* a node that has work ahead stands in a graph, and one that is queued or *)
(* executes has nothing before it in any.                                  *)
EdgesInside(d) == \A g \in Graphs : d.edges[g] \subseteq d.members[g] \X d.members[g]
NetsOnly(d) == \A g \in Graphs \ d.nets : d.members[g] = {}
HomesApart(d) == \A g, h \in Graphs : g # h => d.homes[g] \cap d.homes[h] = {}
HomesKept(d) ==
  \A g \in Graphs : \A n \in d.homes[g] :
    d.ref[n] # "absent" /\ (n \in d.members[g] \/ d.ref[n] = "done")
WorkStands(d) == \A n \in Nodes : d.ref[n] \in {"waiting", "queued", "processing"} => Stands(d, n)
WorkIsReady(d) ==
  \A n \in Nodes : d.ref[n] \in {"queued", "processing"} =>
                     NothingBefore(d, n) /\ n \notin shape.locked

GraphsOK(d) ==
  /\ EdgesInside(d) /\ NetsOnly(d) /\ HomesApart(d) /\ HomesKept(d)
  /\ WorkStands(d) /\ WorkIsReady(d)

(* A node in the queue is recorded as queued.                              *)
QueueOK(d, q) == \A n \in q : d.ref[n] = "queued"

(* A node with a task is recorded as processing, and not yet as resolved.  *)
TasksOK(d, st, tk) ==
  \A n \in Nodes : tk[n] # "none" => d.ref[n] = "processing" /\ st[n] # "resolved"

(* A node that shows as executing is a leaf of a graph, ...                *)
ExecutingOK(d, st) ==
  \A n \in Nodes : st[n] = "resolving" =>
    /\ d.ref[n] \notin {"absent", "waiting", "queued"}
    /\ Stands(d, n) /\ NothingBefore(d, n)
    /\ \A g \in Graphs : n \in d.homes[g] => n \in d.members[g]

(* ... and somebody will see to it: its task, the end of a failed run, or  *)
(* the driver that is popping what is done.                                *)
Ending == {"failing", "error", "reaping"}
Due(d, w, n) ==
  \/ w.at \in {"pop", "popping"} /\ \E g \in w.todo : n \in d.members[g]
  \/ w.at = "popping" /\ n \in w.leaves
SeenTo(d, st, tk, w) ==
  \A n \in Nodes : st[n] = "resolving" =>
    \/ tk[n] # "none"
    \/ w.at \in Ending
    \/ d.ref[n] = "done" /\ Due(d, w, n)

(* What was handled as done has left every graph.                          *)
DoneOK(d, st) ==
  \A n \in Nodes \ shape.locked : d.ref[n] = "done" /\ st[n] = "resolved" =>
    \A g \in Graphs : n \notin d.members[g]

(* What ran in a run of a flow is recorded beyond queued for good.         *)
RanOK(d, r) == \A n \in r : d.ref[n] \notin {"absent", "waiting", "queued"}
Past == IF Running /\ ~single THEN ran ELSE {}

(* The driver's locals agree with the graphs: the node it validates is     *)
(* still queued and off the queue, the leaves it has yet to look at are    *)
(* still in their graph.                                                   *)
SeesAsIs(d, q, w) ==
  /\ w.at = "validating" => w.node \in Nodes /\ d.ref[w.node] = "queued" /\ w.node \notin q
  /\ w.at = "popping" => w.leaves \subseteq d.members[w.node]

Steady(d, st, q, tk, w, r) ==
  /\ GraphsOK(d) /\ QueueOK(d, q) /\ TasksOK(d, st, tk)
  /\ ExecutingOK(d, st) /\ SeenTo(d, st, tk, w)
  /\ RanOK(d, r) /\ SeesAsIs(d, q, w)

(* The machine's state and the driver's place agree.                       *)
DriverOK ==
  /\ ~Running => dag = EmptyDag /\ queue = {} /\ drv.at = "idle"
  /\ cur = "error" <=> drv.at \in {"error", "reaping"}
  /\ cur = "error" => queue = {}
  /\ failing /\ Running => drv.at \in Ending

WorkOK ==
  /\ Steady(dag, state, queue, task, drv, Past)
  /\ cur # "error" => DoneOK(dag, state)

PInv == TypeOK /\ SlotsBalance /\ DriverOK /\ WorkOK

-----------------------------------------------------------------------------
(* What the operators on graphs do.                                         *)

(* A walk from n through unrecorded nodes records only unrecorded ones.    *)
LEMMA NewNodesFresh ==
  ASSUME NEW d, NEW needed \in SUBSET (Nodes \X Nodes), NEW n \in Nodes
  PROVE  /\ NewNodes(d, needed, n) \subseteq Nodes
         /\ \A m \in NewNodes(d, needed, n) : d.ref[m] = "absent"
         /\ d.ref[n] = "absent" => n \in NewNodes(d, needed, n)
<1>. DEFINE R == {<<e[2], e[1]>> : e \in {f \in needed : f[1] \notin Recorded(d)}}
            S == Nodes \ Recorded(d)
<1>1. CASE n \in Recorded(d)
  BY <1>1 DEF NewNodes, Recorded
<1>2. CASE n \notin Recorded(d)
  <2>1. NewNodes(d, needed, n) = Reach(R, {n})
    BY <1>2 DEF NewNodes
  <2>2. {n} \subseteq S /\ S \in SUBSET Nodes
    BY <1>2
  <2>3. \A e \in R : e[1] \in S => e[2] \in S
    OBVIOUS
  <2>4. Reach(R, {n}) \subseteq S
    BY <2>2, <2>3 DEF Reach
  <2>5. n \in Reach(R, {n})
    BY DEF Reach
  <2>. QED BY <2>1, <2>4, <2>5 DEF Recorded
<1>. QED BY <1>1, <1>2

(* Add: the new nodes wait in g, every new edge ends in one of them and    *)
(* begins in one or in a node that is still needed.                        *)
Added(d, d2, needed, new, g) ==
  /\ d2 \in Dags
  /\ \A m \in Nodes : d2.ref[m] = IF m \in new THEN "waiting" ELSE d.ref[m]
  /\ d2.nets = d.nets \cup {g}
  /\ \A h \in Graphs \ {g} :
       d2.members[h] = d.members[h] /\ d2.edges[h] = d.edges[h] /\ d2.homes[h] = d.homes[h]
  /\ d2.members[g] = d.members[g] \cup new \cup {e[1] : e \in {f \in needed : f[2] \in new}}
  /\ d2.edges[g] = d.edges[g] \cup {e \in needed : e[2] \in new}
  /\ d2.homes[g] = d.homes[g] \cup new

LEMMA AddEffect ==
  ASSUME NEW d \in Dags, NEW needed \in SUBSET (Nodes \X Nodes),
         NEW n \in Nodes, NEW g \in Graphs
  PROVE  Added(d, Add(d, needed, n, g), needed, NewNodes(d, needed, n), g)
<1>. DEFINE new == NewNodes(d, needed, n)
            arcs == {e \in needed : e[2] \in new}
            ref == [m \in Nodes |-> IF m \in new THEN "waiting" ELSE d.ref[m]]
            d2 == Add(d, needed, n, g)
            members == [d.members EXCEPT ![g] = d.members[g] \cup new \cup {e[1] : e \in arcs}]
            edges == [d.edges EXCEPT ![g] = d.edges[g] \cup arcs]
            homes == [d.homes EXCEPT ![g] = d.homes[g] \cup new]
            dataOnly == (d.dataOnly \cup new) \ {n}
            known == IF g \in d.nets THEN d.known ELSE d.known \cup {g}
<1>1. new \subseteq Nodes
  BY NewNodesFresh
<1>2. d2 = [ref |-> ref, dataOnly |-> dataOnly, nets |-> d.nets \cup {g}, members |-> members,
            edges |-> edges, known |-> known, homes |-> homes, deferred |-> d.deferred]
  <2>1. d2 = [d EXCEPT !.ref = ref, !.dataOnly = dataOnly, !.nets = d.nets \cup {g},
                       !.members = members, !.edges = edges, !.known = known, !.homes = homes]
    BY Zenon DEF Add
  <2>. HIDE DEF d2, ref, dataOnly, members, edges, known, homes
  <2>. QED BY <2>1 DEF Dags
<1>3. {e[1] : e \in arcs} \subseteq Nodes /\ arcs \subseteq Nodes \X Nodes
  OBVIOUS
<1>4. /\ ref \in [Nodes -> NodeStates] /\ dataOnly \in SUBSET Nodes
      /\ d.nets \cup {g} \in SUBSET Graphs /\ known \in SUBSET Graphs
      /\ d.deferred \in SUBSET Nodes
  BY <1>1 DEF Dags, NodeStates
<1>5. /\ members \in [Graphs -> SUBSET Nodes] /\ homes \in [Graphs -> SUBSET Nodes]
      /\ edges \in [Graphs -> SUBSET (Nodes \X Nodes)]
  <2>. HIDE DEF new, arcs
  <2>. QED BY <1>1, <1>3 DEF Dags
<1>. HIDE DEF new, arcs, ref, members, edges, homes, dataOnly, known
<1>6. d2 \in Dags
  BY <1>2, <1>4, <1>5 DEF Dags
<1>7. /\ d2.ref = ref /\ d2.members = members /\ d2.edges = edges /\ d2.homes = homes
      /\ d2.nets = d.nets \cup {g}
  BY <1>2
<1>8. /\ \A m \in Nodes : ref[m] = IF m \in new THEN "waiting" ELSE d.ref[m]
      /\ \A h \in Graphs \ {g} : /\ members[h] = d.members[h]
                                 /\ edges[h] = d.edges[h]
                                 /\ homes[h] = d.homes[h]
      /\ members[g] = d.members[g] \cup new \cup {e[1] : e \in arcs}
      /\ edges[g] = d.edges[g] \cup arcs
      /\ homes[g] = d.homes[g] \cup new
  BY DEF ref, members, edges, homes, Dags
<1>. QED BY <1>6, <1>7, <1>8 DEF Added, new, arcs

(* No edge into a recorded node is drawn, so what has nothing before it    *)
(* stays so, and no node that is resolved comes back into a graph.         *)
LEMMA AddKeepsGraphs ==
  ASSUME NEW d \in Dags, GraphsOK(d), NEW needed \in SUBSET (Nodes \X Nodes),
         NEW new \in SUBSET Nodes, \A m \in new : d.ref[m] = "absent",
         NEW g \in Graphs, NEW d2, Added(d, d2, needed, new, g)
  PROVE  /\ GraphsOK(d2)
         /\ \A h \in Graphs : d.members[h] \subseteq d2.members[h]
         /\ \A m \in Nodes : d.ref[m] # "absent" /\ NothingBefore(d, m) => NothingBefore(d2, m)
         /\ \A m \in Nodes : Stands(d, m) => Stands(d2, m)
<1>1. \A h \in Graphs : d.members[h] \subseteq d2.members[h]
  BY DEF Added
<1>2. \A m \in Nodes : d.ref[m] # "absent" /\ NothingBefore(d, m) => NothingBefore(d2, m)
  <2>. SUFFICES ASSUME NEW m \in Nodes, d.ref[m] # "absent", NothingBefore(d, m),
                       NEW h \in Graphs, NEW k \in Nodes, <<k, m>> \in d2.edges[h]
                PROVE  FALSE
    BY DEF NothingBefore
  <2>1. <<k, m>> \notin d.edges[h]
    BY DEF NothingBefore
  <2>2. m \in new
    BY <2>1 DEF Added
  <2>. QED BY <2>2
<1>3. \A m \in Nodes : Stands(d, m) => Stands(d2, m)
  BY <1>1 DEF Stands, Added, Dags
<1>4. EdgesInside(d2)
  <2>. SUFFICES ASSUME NEW h \in Graphs PROVE d2.edges[h] \subseteq d2.members[h] \X d2.members[h]
    BY DEF EdgesInside
  <2>1. d.edges[h] \subseteq d.members[h] \X d.members[h]
    BY DEF GraphsOK, EdgesInside
  <2>2. CASE h # g
    BY <2>1, <2>2 DEF Added
  <2>3. CASE h = g
    <3>. SUFFICES ASSUME NEW e \in d2.edges[g] PROVE e \in d2.members[g] \X d2.members[g]
      BY <2>3
    <3>1. CASE e \in d.edges[g]
      BY <3>1, <2>1, <2>3, <1>1
    <3>2. CASE e \in needed /\ e[2] \in new
      <4>1. e = <<e[1], e[2]>>
        BY <3>2
      <4>2. e[1] \in d2.members[g] /\ e[2] \in d2.members[g]
        BY <3>2 DEF Added
      <4>. QED BY <4>1, <4>2
    <3>. QED BY <3>1, <3>2 DEF Added
  <2>. QED BY <2>2, <2>3
<1>5. NetsOnly(d2)
  BY DEF GraphsOK, NetsOnly, Added
<1>6. HomesApart(d2)
  <2>1. \A h \in Graphs : \A m \in d.homes[h] : m \notin new
    BY DEF GraphsOK, HomesKept
  <2>. QED BY <2>1 DEF GraphsOK, HomesApart, Added
<1>7. HomesKept(d2)
  <2>. SUFFICES ASSUME NEW h \in Graphs, NEW m \in d2.homes[h]
                PROVE  d2.ref[m] # "absent" /\ (m \in d2.members[h] \/ d2.ref[m] = "done")
    BY DEF HomesKept
  <2>1. CASE m \in d.homes[h]
    <3>1. m \in Nodes /\ d.ref[m] # "absent" /\ (m \in d.members[h] \/ d.ref[m] = "done")
      BY <2>1 DEF GraphsOK, HomesKept, Dags
    <3>. QED BY <3>1, <1>1 DEF Added
  <2>2. CASE m \in new /\ h = g
    BY <2>2 DEF Added
  <2>. QED BY <2>1, <2>2 DEF Added
<1>8. WorkStands(d2)
  <2>. SUFFICES ASSUME NEW m \in Nodes, d2.ref[m] \in {"waiting", "queued", "processing"}
                PROVE  Stands(d2, m)
    BY DEF WorkStands
  <2>1. CASE m \in new
    BY <2>1 DEF Stands, Added
  <2>2. CASE m \notin new
    BY <2>2, <1>3 DEF GraphsOK, WorkStands, Added
  <2>. QED BY <2>1, <2>2
<1>9. WorkIsReady(d2)
  <2>. SUFFICES ASSUME NEW m \in Nodes, d2.ref[m] \in {"queued", "processing"}
                PROVE  NothingBefore(d2, m) /\ m \notin shape.locked
    BY DEF WorkIsReady
  <2>1. m \notin new /\ d.ref[m] \in {"queued", "processing"}
    BY DEF Added
  <2>. QED BY <2>1, <1>2 DEF GraphsOK, WorkIsReady
<1>. QED BY <1>1, <1>2, <1>3, <1>4, <1>5, <1>6, <1>7, <1>8, <1>9 DEF GraphsOK

LEMMA AddSteady ==
  ASSUME NEW d \in Dags, NEW needed \in SUBSET (Nodes \X Nodes), NEW n \in Nodes, NEW g \in Graphs,
         NEW st, NEW q \in SUBSET Nodes, NEW tk, NEW w, NEW r \in SUBSET Nodes,
         w.todo \in SUBSET Graphs, w.node \in Graphs,
         Steady(d, st, q, tk, w, r), DoneOK(d, st),
         \A e \in needed : st[e[1]] # "resolved"
  PROVE  LET d2 == Add(d, needed, n, g)
         IN d2 \in Dags /\ Steady(d2, st, q, tk, w, r) /\ DoneOK(d2, st)
<1>. DEFINE d2 == Add(d, needed, n, g)
            new == NewNodes(d, needed, n)
<1>1. Added(d, d2, needed, new, g)
  BY AddEffect
<1>2. new \in SUBSET Nodes /\ \A m \in new : d.ref[m] = "absent"
  BY NewNodesFresh
<1>. HIDE DEF d2, new
<1>3. /\ GraphsOK(d2)
      /\ \A h \in Graphs : d.members[h] \subseteq d2.members[h]
      /\ \A m \in Nodes : d.ref[m] # "absent" /\ NothingBefore(d, m) => NothingBefore(d2, m)
      /\ \A m \in Nodes : Stands(d, m) => Stands(d2, m)
  BY <1>1, <1>2, AddKeepsGraphs DEF Steady
<1>4. \A m \in Nodes : d.ref[m] # "absent" => m \notin new /\ d2.ref[m] = d.ref[m]
  BY <1>1, <1>2 DEF Added
<1>5. QueueOK(d2, q) /\ TasksOK(d2, st, tk) /\ RanOK(d2, r)
  BY <1>4 DEF Steady, QueueOK, TasksOK, RanOK
<1>6. ExecutingOK(d2, st)
  <2>. SUFFICES ASSUME NEW m \in Nodes, st[m] = "resolving"
                PROVE  /\ d2.ref[m] \notin {"absent", "waiting", "queued"}
                       /\ Stands(d2, m) /\ NothingBefore(d2, m)
                       /\ \A h \in Graphs : m \in d2.homes[h] => m \in d2.members[h]
    BY DEF ExecutingOK
  <2>1. /\ d.ref[m] \notin {"absent", "waiting", "queued"}
        /\ Stands(d, m) /\ NothingBefore(d, m)
        /\ \A h \in Graphs : m \in d.homes[h] => m \in d.members[h]
    BY DEF Steady, ExecutingOK
  <2>2. \A h \in Graphs : m \in d2.homes[h] => m \in d.homes[h]
    BY <2>1, <1>1, <1>4 DEF Added
  <2>. QED BY <2>1, <2>2, <1>3, <1>4
<1>7. SeenTo(d2, st, tk, w)
  BY <1>3, <1>4 DEF Steady, SeenTo, Due
<1>8. SeesAsIs(d2, q, w)
  BY <1>3, <1>4 DEF Steady, SeesAsIs
<1>9. DoneOK(d2, st)
  <2>. SUFFICES ASSUME NEW m \in Nodes \ shape.locked, d2.ref[m] = "done", st[m] = "resolved",
                       NEW h \in Graphs, m \in d2.members[h]
                PROVE  FALSE
    BY DEF DoneOK
  <2>1. m \notin new /\ d.ref[m] = "done"
    BY <1>1 DEF Added
  <2>2. m \notin d.members[h]
    BY <2>1 DEF DoneOK
  <2>3. m \in {e[1] : e \in {f \in needed : f[2] \in new}}
    BY <2>1, <2>2, <1>1 DEF Added
  <2>. QED BY <2>3
<1>10. d2 \in Dags
  BY <1>1 DEF Added
<1>. QED BY <1>3, <1>5, <1>6, <1>7, <1>8, <1>9, <1>10 DEF Steady, d2

(* TryQueue changes records only: a waiting node is queued, a locked one   *)
(* is done.                                                                *)
LEMMA TryQueueEffect ==
  ASSUME NEW d \in Dags, NEW S
  PROVE  LET d2 == TryQueue(d, shape, S)
         IN /\ d2 \in Dags
            /\ d2.nets = d.nets /\ d2.members = d.members /\ d2.edges = d.edges
            /\ d2.homes = d.homes
            /\ \A m \in Nodes :
                 \/ d2.ref[m] = d.ref[m] /\ m \notin Queueable(d, shape, S)
                 \/ m \in shape.locked /\ d.ref[m] # "absent" /\ d2.ref[m] = "done"
                 \/ m \in Queueable(d, shape, S) /\ d2.ref[m] = "queued"
<1>. DEFINE ref == [m \in Nodes |->
                      IF m \in S \cap shape.locked \cap Recorded(d) THEN "done"
                      ELSE IF m \in Queueable(d, shape, S) THEN "queued" ELSE d.ref[m]]
            d2 == TryQueue(d, shape, S)
<1>1. d2 = [d EXCEPT !.ref = ref]
  BY Zenon DEF TryQueue
<1>2. ref \in [Nodes -> NodeStates]
  BY DEF Dags, NodeStates
<1>3. \A m \in Nodes :
        \/ ref[m] = d.ref[m] /\ m \notin Queueable(d, shape, S)
        \/ m \in shape.locked /\ d.ref[m] # "absent" /\ ref[m] = "done"
        \/ m \in Queueable(d, shape, S) /\ ref[m] = "queued"
  BY DEF Recorded, Queueable
<1>. HIDE DEF ref, d2
<1>4. /\ d2 \in Dags /\ d2.ref = ref
      /\ d2.nets = d.nets /\ d2.members = d.members /\ d2.edges = d.edges /\ d2.homes = d.homes
  BY <1>1, <1>2 DEF Dags
<1>. QED BY <1>3, <1>4 DEF d2

(* What is queued was waiting and is a leaf wherever it stands.            *)
LEMMA QueueableIsReady ==
  ASSUME NEW d \in Dags, GraphsOK(d), NEW S, NEW m \in Queueable(d, shape, S), m \in Nodes
  PROVE  d.ref[m] = "waiting" /\ m \notin shape.locked /\ NothingBefore(d, m)
<1>1. d.ref[m] = "waiting" /\ m \notin shape.locked /\ CanQueue(d, shape, m)
  BY DEF Queueable
<1>2. ASSUME NEW g \in Graphs, NEW k \in Nodes, <<k, m>> \in d.edges[g]
      PROVE  FALSE
  <2>1. m \in d.members[g]
    BY <1>2 DEF GraphsOK, EdgesInside
  <2>2. g \in d.nets
    BY <2>1 DEF GraphsOK, NetsOnly
  <2>3. m \in Leaves(d, g)
    BY <1>1, <2>1, <2>2 DEF CanQueue
  <2>. QED BY <1>2, <2>3 DEF Leaves
<1>. QED BY <1>1, <1>2 DEF NothingBefore

LEMMA TryQueueSteady ==
  ASSUME NEW d \in Dags, NEW S, NEW st, NEW q \in SUBSET Nodes, NEW tk, NEW w,
         NEW r \in SUBSET Nodes, w.todo \in SUBSET Graphs, w.node \in Graphs,
         S \subseteq Nodes, Steady(d, st, q, tk, w, r), DoneOK(d, st)
  PROVE  LET d2 == TryQueue(d, shape, S)
             q2 == q \cup Queueable(d, shape, S)
         IN d2 \in Dags /\ q2 \subseteq Nodes /\ Steady(d2, st, q2, tk, w, r) /\ DoneOK(d2, st)
<1>. DEFINE d2 == TryQueue(d, shape, S)
            new == Queueable(d, shape, S)
            q2 == q \cup new
<1>1. /\ d2 \in Dags
      /\ d2.nets = d.nets /\ d2.members = d.members /\ d2.edges = d.edges /\ d2.homes = d.homes
      /\ \A m \in Nodes :
           \/ d2.ref[m] = d.ref[m] /\ m \notin new
           \/ m \in shape.locked /\ d.ref[m] # "absent" /\ d2.ref[m] = "done"
           \/ m \in new /\ d2.ref[m] = "queued"
  BY TryQueueEffect
<1>2. new \subseteq Nodes
  BY DEF Queueable
<1>3. \A m \in new : d.ref[m] = "waiting" /\ m \notin shape.locked /\ NothingBefore(d, m)
  BY <1>2, QueueableIsReady DEF Steady
<1>. HIDE DEF d2, new
<1>4. \A m \in Nodes : (Stands(d, m) <=> Stands(d2, m)) /\ (NothingBefore(d, m) <=> NothingBefore(d2, m))
  BY <1>1 DEF Stands, NothingBefore
<1>5. GraphsOK(d2)
  <2>1. EdgesInside(d2) /\ NetsOnly(d2) /\ HomesApart(d2)
    BY <1>1 DEF Steady, GraphsOK, EdgesInside, NetsOnly, HomesApart
  <2>2. HomesKept(d2)
    <3>. SUFFICES ASSUME NEW h \in Graphs, NEW m \in d2.homes[h]
                  PROVE  d2.ref[m] # "absent" /\ (m \in d2.members[h] \/ d2.ref[m] = "done")
      BY DEF HomesKept
    <3>1. m \in Nodes /\ d.ref[m] # "absent" /\ (m \in d.members[h] \/ d.ref[m] = "done")
      BY <1>1 DEF Steady, GraphsOK, HomesKept, Dags
    <3>2. m \in new => d.ref[m] = "waiting"
      BY <1>3
    <3>. QED BY <3>1, <3>2, <1>1
  <2>3. WorkStands(d2)
    BY <1>1, <1>3, <1>4 DEF Steady, GraphsOK, WorkStands
  <2>4. WorkIsReady(d2)
    BY <1>1, <1>3, <1>4 DEF Steady, GraphsOK, WorkIsReady
  <2>. QED BY <2>1, <2>2, <2>3, <2>4 DEF GraphsOK
<1>6. \A m \in Nodes : d.ref[m] \in {"queued", "processing"} => d2.ref[m] = d.ref[m]
  BY <1>1, <1>3 DEF Steady, GraphsOK, WorkIsReady
<1>7. QueueOK(d2, q2)
  BY <1>1, <1>2, <1>3, <1>6 DEF Steady, QueueOK
<1>8. TasksOK(d2, st, tk)
  BY <1>6 DEF Steady, TasksOK
<1>9. ExecutingOK(d2, st)
  BY <1>1, <1>3, <1>4 DEF Steady, ExecutingOK
<1>10. SeenTo(d2, st, tk, w)
  <2>1. \A m \in Nodes : d.ref[m] = "done" => d2.ref[m] = "done"
    BY <1>1, <1>3
  <2>. QED BY <1>1, <2>1 DEF Steady, SeenTo, Due
<1>11. RanOK(d2, r)
  BY <1>1, <1>3 DEF Steady, RanOK
<1>12. SeesAsIs(d2, q2, w)
  BY <1>1, <1>3, <1>6 DEF Steady, SeesAsIs
<1>13. DoneOK(d2, st)
  BY <1>1, <1>3 DEF DoneOK
<1>. QED BY <1>1, <1>2, <1>5, <1>7, <1>8, <1>9, <1>10, <1>11, <1>12, <1>13 DEF Steady, d2, new

(* A node that is put in a graph by an add that raises waits there.        *)
LEMMA AddRaisedSteady ==
  ASSUME NEW d \in Dags, NEW n \in Nodes, NEW g \in Graphs, AddRaises(d, n, g),
         NEW st, NEW q \in SUBSET Nodes, NEW tk, NEW w,
         NEW r \in SUBSET Nodes, w.todo \in SUBSET Graphs, w.node \in Graphs,
         Steady(d, st, q, tk, w, r), DoneOK(d, st)
  PROVE  LET d2 == AddRaised(d, n, g)
         IN d2 \in Dags /\ Steady(d2, st, q, tk, w, r) /\ DoneOK(d2, st)
<1>. DEFINE d2 == AddRaised(d, n, g)
            ref == [d.ref EXCEPT ![n] = "waiting"]
            members == [d.members EXCEPT ![g] = d.members[g] \cup {n}]
<1>1. d2 = [d EXCEPT !.ref = ref, !.dataOnly = d.dataOnly \ {n}, !.members = members]
  BY Zenon DEF AddRaised
<1>2. ref \in [Nodes -> NodeStates] /\ members \in [Graphs -> SUBSET Nodes]
  BY DEF Dags, NodeStates
<1>3. /\ ref[n] = "waiting" /\ \A m \in Nodes \ {n} : ref[m] = d.ref[m]
      /\ n \in members[g] /\ \A h \in Graphs : d.members[h] \subseteq members[h]
      /\ \A h \in Graphs : \A m \in members[h] : m \in d.members[h] \/ (m = n /\ h = g)
  BY DEF Dags
<1>. HIDE DEF ref, members, d2
<1>4. /\ d2 \in Dags /\ d2.ref = ref /\ d2.members = members
      /\ d2.nets = d.nets /\ d2.edges = d.edges /\ d2.homes = d.homes
  BY <1>1, <1>2 DEF Dags
<1>5. g \in d.nets /\ d.ref[n] = "absent"
  BY DEF AddRaises, Recorded
<1>6. \A m \in Nodes : (Stands(d, m) => Stands(d2, m)) /\ (NothingBefore(d, m) <=> NothingBefore(d2, m))
  BY <1>3, <1>4 DEF Stands, NothingBefore, Dags
<1>7. GraphsOK(d2)
  <2>1. EdgesInside(d2)
    BY <1>3, <1>4 DEF Steady, GraphsOK, EdgesInside
  <2>2. NetsOnly(d2) /\ HomesApart(d2)
    BY <1>3, <1>4, <1>5 DEF Steady, GraphsOK, NetsOnly, HomesApart
  <2>3. HomesKept(d2)
    <3>. SUFFICES ASSUME NEW h \in Graphs, NEW m \in d2.homes[h]
                  PROVE  d2.ref[m] # "absent" /\ (m \in d2.members[h] \/ d2.ref[m] = "done")
      BY DEF HomesKept
    <3>1. m \in Nodes /\ d.ref[m] # "absent" /\ (m \in d.members[h] \/ d.ref[m] = "done")
      BY <1>4 DEF Steady, GraphsOK, HomesKept, Dags
    <3>. QED BY <3>1, <1>3, <1>4, <1>5
  <2>4. WorkStands(d2)
    <3>1. Stands(d2, n)
      BY <1>3, <1>4, <1>5 DEF Stands
    <3>. QED BY <3>1, <1>3, <1>4, <1>6 DEF Steady, GraphsOK, WorkStands
  <2>5. WorkIsReady(d2)
    BY <1>3, <1>4, <1>6 DEF Steady, GraphsOK, WorkIsReady
  <2>. QED BY <2>1, <2>2, <2>3, <2>4, <2>5 DEF GraphsOK
<1>8. \A m \in Nodes : d.ref[m] # "absent" => m # n /\ d2.ref[m] = d.ref[m]
  BY <1>3, <1>4, <1>5
<1>9. QueueOK(d2, q) /\ TasksOK(d2, st, tk) /\ RanOK(d2, r)
  BY <1>8 DEF Steady, QueueOK, TasksOK, RanOK
<1>10. ExecutingOK(d2, st)
  BY <1>3, <1>4, <1>6, <1>8 DEF Steady, ExecutingOK
<1>11. SeenTo(d2, st, tk, w)
  BY <1>3, <1>4, <1>8 DEF Steady, SeenTo, Due
<1>12. SeesAsIs(d2, q, w)
  BY <1>3, <1>4, <1>8 DEF Steady, SeesAsIs
<1>13. DoneOK(d2, st)
  BY <1>3, <1>4 DEF DoneOK
<1>. QED BY <1>4, <1>7, <1>9, <1>10, <1>11, <1>12, <1>13 DEF Steady, d2

(* A leaf that is done leaves every graph as resolved; nobody else moves.  *)
Dropped(d, n) == Release([d EXCEPT !.ref[n] = "done"], n)

LEMMA DropEffect ==
  ASSUME NEW d \in Dags, NEW n \in Nodes
  PROVE  LET d2 == Dropped(d, n)
         IN /\ d2 \in Dags
            /\ d2.nets = d.nets /\ d2.homes = d.homes
            /\ d2.ref[n] = "done" /\ \A m \in Nodes \ {n} : d2.ref[m] = d.ref[m]
            /\ \A g \in Graphs : d2.members[g] = d.members[g] \ {n}
            /\ \A g \in Graphs : d2.edges[g] = {e \in d.edges[g] : n \notin {e[1], e[2]}}
<1>. DEFINE ref == [d.ref EXCEPT ![n] = "done"]
            members == [g \in Graphs |-> d.members[g] \ {n}]
            edges == [g \in Graphs |-> {e \in d.edges[g] : n \notin {e[1], e[2]}}]
            d1 == [d EXCEPT !.ref = ref]
            d2 == Dropped(d, n)
<1>1. d2 = [d1 EXCEPT !.members = [g \in Graphs |-> d1.members[g] \ {n}],
                      !.edges = [g \in Graphs |-> {e \in d1.edges[g] : n \notin {e[1], e[2]}}]]
  BY Zenon DEF Dropped, Release
<1>2. /\ ref \in [Nodes -> NodeStates] /\ members \in [Graphs -> SUBSET Nodes]
      /\ edges \in [Graphs -> SUBSET (Nodes \X Nodes)]
  BY DEF Dags, NodeStates
<1>3. /\ ref[n] = "done" /\ \A m \in Nodes \ {n} : ref[m] = d.ref[m]
      /\ \A g \in Graphs : members[g] = d.members[g] \ {n}
      /\ \A g \in Graphs : edges[g] = {e \in d.edges[g] : n \notin {e[1], e[2]}}
  BY DEF Dags
<1>4. d1.members = d.members /\ d1.edges = d.edges
  BY DEF Dags
<1>5. d2 = [d1 EXCEPT !.members = members, !.edges = edges]
  BY <1>1, <1>4
<1>. HIDE DEF ref, members, edges, d2
<1>6. /\ d2 \in Dags /\ d2.ref = ref /\ d2.members = members /\ d2.edges = edges
      /\ d2.nets = d.nets /\ d2.homes = d.homes
  BY <1>2, <1>5 DEF Dags
<1>. QED BY <1>3, <1>6 DEF d2

LEMMA DropSteady ==
  ASSUME NEW d \in Dags, NEW n \in Nodes, NEW st \in [Nodes -> {"unresolved", "resolving", "resolved"}],
         NEW q \in SUBSET Nodes, NEW tk, NEW w, NEW w2, NEW r \in SUBSET Nodes,
         w.todo \in SUBSET Graphs, w.node \in Graphs,
         w.at = "popping" /\ w2.at = "popping" /\ w2.todo = w.todo /\ w2.node = w.node,
         w2.leaves = w.leaves \ {n},
         d.ref[n] = "done" \/ (n \in shape.locked /\ d.ref[n] # "absent"),
         Steady(d, st, q, tk, w, r), DoneOK(d, st)
  PROVE  LET d2 == Dropped(d, n)
             st2 == [st EXCEPT ![n] = "resolved"]
         IN d2 \in Dags /\ Steady(d2, st2, q \ {n}, tk, w2, r) /\ DoneOK(d2, st2)
<1>. DEFINE d2 == Dropped(d, n)
            st2 == [st EXCEPT ![n] = "resolved"]
<1>1. /\ d2 \in Dags
      /\ d2.nets = d.nets /\ d2.homes = d.homes
      /\ d2.ref[n] = "done" /\ \A m \in Nodes \ {n} : d2.ref[m] = d.ref[m]
      /\ \A g \in Graphs : d2.members[g] = d.members[g] \ {n}
      /\ \A g \in Graphs : d2.edges[g] = {e \in d.edges[g] : n \notin {e[1], e[2]}}
  BY DropEffect
<1>2. st2[n] = "resolved" /\ \A m \in Nodes \ {n} : st2[m] = st[m]
  OBVIOUS
<1>. HIDE DEF d2, st2
<1>3. \A m \in Nodes : NothingBefore(d, m) => NothingBefore(d2, m)
  BY <1>1 DEF NothingBefore
<1>4. \A m \in Nodes \ {n} : Stands(d, m) => Stands(d2, m)
  BY <1>1 DEF Stands, Dags
<1>5. tk[n] = "none" /\ d.ref[n] \notin {"absent", "queued", "processing"}
  BY DEF Steady, TasksOK, GraphsOK, WorkIsReady
<1>6. GraphsOK(d2)
  <2>1. EdgesInside(d2)
    <3>. SUFFICES ASSUME NEW g \in Graphs, NEW e \in d2.edges[g]
                  PROVE  e \in d2.members[g] \X d2.members[g]
      BY DEF EdgesInside
    <3>1. e \in d.edges[g] /\ n # e[1] /\ n # e[2]
      BY <1>1
    <3>2. e \in d.members[g] \X d.members[g]
      BY <3>1 DEF Steady, GraphsOK, EdgesInside
    <3>. QED BY <1>1, <3>1, <3>2
  <2>2. NetsOnly(d2) /\ HomesApart(d2)
    BY <1>1 DEF Steady, GraphsOK, NetsOnly, HomesApart
  <2>3. HomesKept(d2)
    <3>. SUFFICES ASSUME NEW h \in Graphs, NEW m \in d2.homes[h]
                  PROVE  d2.ref[m] # "absent" /\ (m \in d2.members[h] \/ d2.ref[m] = "done")
      BY DEF HomesKept
    <3>1. m \in Nodes /\ d.ref[m] # "absent" /\ (m \in d.members[h] \/ d.ref[m] = "done")
      BY <1>1 DEF Steady, GraphsOK, HomesKept, Dags
    <3>. QED BY <3>1, <1>1
  <2>4. WorkStands(d2)
    BY <1>1, <1>4 DEF Steady, GraphsOK, WorkStands
  <2>5. WorkIsReady(d2)
    BY <1>1, <1>3 DEF Steady, GraphsOK, WorkIsReady
  <2>. QED BY <2>1, <2>2, <2>3, <2>4, <2>5 DEF GraphsOK
<1>7. QueueOK(d2, q \ {n})
  BY <1>1 DEF Steady, QueueOK
<1>8. TasksOK(d2, st2, tk)
  BY <1>1, <1>2, <1>5 DEF Steady, TasksOK
<1>9. ExecutingOK(d2, st2)
  BY <1>1, <1>2, <1>3, <1>4 DEF Steady, ExecutingOK
<1>10. SeenTo(d2, st2, tk, w2)
  BY <1>1, <1>2 DEF Steady, SeenTo, Due, Ending
<1>11. RanOK(d2, r)
  BY <1>1 DEF Steady, RanOK
<1>12. SeesAsIs(d2, q \ {n}, w2)
  BY <1>1 DEF Steady, SeesAsIs
<1>13. DoneOK(d2, st2)
  BY <1>1, <1>2 DEF DoneOK
<1>. QED BY <1>1, <1>6, <1>7, <1>8, <1>9, <1>10, <1>11, <1>12, <1>13 DEF Steady, d2, st2

(* An emptied graph forgets only nodes that are done with.                 *)
LEMMA CleanUpSteady ==
  ASSUME NEW d \in Dags, NEW g \in Graphs, d.members[g] = {},
         NEW st, NEW q \in SUBSET Nodes, NEW tk, NEW w,
         w.todo \in SUBSET Graphs, w.node \in Graphs,
         Steady(d, st, q, tk, w, {}), DoneOK(d, st)
  PROVE  LET d2 == CleanUp(d, g)
         IN d2 \in Dags /\ Steady(d2, st, q, tk, w, {}) /\ DoneOK(d2, st)
<1>. DEFINE d2 == CleanUp(d, g)
            ref == [n \in Nodes |-> IF n \in d.homes[g] THEN "absent" ELSE d.ref[n]]
            homes == [d.homes EXCEPT ![g] = {}]
<1>1. d2 = [d EXCEPT !.ref = ref, !.dataOnly = d.dataOnly \ d.homes[g],
                     !.known = d.known \ {g}, !.homes = homes]
  BY Zenon DEF CleanUp
<1>2. ref \in [Nodes -> NodeStates] /\ homes \in [Graphs -> SUBSET Nodes]
  BY DEF Dags, NodeStates
<1>3. /\ \A m \in Nodes : ref[m] = IF m \in d.homes[g] THEN "absent" ELSE d.ref[m]
      /\ homes[g] = {} /\ \A h \in Graphs \ {g} : homes[h] = d.homes[h]
  BY DEF Dags
<1>. HIDE DEF ref, homes, d2
<1>4. /\ d2 \in Dags /\ d2.ref = ref /\ d2.homes = homes
      /\ d2.members = d.members /\ d2.nets = d.nets /\ d2.edges = d.edges
  BY <1>1, <1>2 DEF Dags
<1>5. \A m \in d.homes[g] : m \in Nodes /\ d.ref[m] = "done"
  BY DEF Steady, GraphsOK, HomesKept, Dags
<1>6. \A m \in Nodes :
        \/ d2.ref[m] = d.ref[m]
        \/ d.ref[m] = "done" /\ d2.ref[m] = "absent" /\ m \in d.homes[g]
  BY <1>3, <1>4, <1>5
<1>7. \A m \in Nodes : (Stands(d, m) <=> Stands(d2, m)) /\ (NothingBefore(d, m) <=> NothingBefore(d2, m))
  BY <1>4 DEF Stands, NothingBefore
<1>8. GraphsOK(d2)
  <2>1. EdgesInside(d2) /\ NetsOnly(d2)
    BY <1>4 DEF Steady, GraphsOK, EdgesInside, NetsOnly
  <2>2. HomesApart(d2)
    BY <1>3, <1>4 DEF Steady, GraphsOK, HomesApart
  <2>3. HomesKept(d2)
    <3>. SUFFICES ASSUME NEW h \in Graphs, NEW m \in d2.homes[h]
                  PROVE  d2.ref[m] # "absent" /\ (m \in d2.members[h] \/ d2.ref[m] = "done")
      BY DEF HomesKept
    <3>1. h # g /\ m \in d.homes[h]
      BY <1>3, <1>4
    <3>2. m \in Nodes /\ d.ref[m] # "absent" /\ (m \in d.members[h] \/ d.ref[m] = "done")
      BY <3>1 DEF Steady, GraphsOK, HomesKept, Dags
    <3>3. m \notin d.homes[g]
      BY <3>1 DEF Steady, GraphsOK, HomesApart
    <3>. QED BY <3>2, <3>3, <1>3, <1>4
  <2>4. WorkStands(d2) /\ WorkIsReady(d2)
    BY <1>6, <1>7 DEF Steady, GraphsOK, WorkStands, WorkIsReady
  <2>. QED BY <2>1, <2>2, <2>3, <2>4 DEF GraphsOK
<1>9. \A m \in Nodes : st[m] = "resolving" => d2.ref[m] = d.ref[m]
  <2>. SUFFICES ASSUME NEW m \in Nodes, st[m] = "resolving", m \in d.homes[g] PROVE FALSE
    BY <1>6
  <2>. QED BY DEF Steady, ExecutingOK
<1>10. QueueOK(d2, q) /\ TasksOK(d2, st, tk)
  BY <1>6 DEF Steady, QueueOK, TasksOK
<1>11. ExecutingOK(d2, st)
  BY <1>3, <1>4, <1>7, <1>9 DEF Steady, ExecutingOK
<1>12. SeenTo(d2, st, tk, w)
  BY <1>4, <1>9 DEF Steady, SeenTo, Due
<1>13. SeesAsIs(d2, q, w)
  BY <1>4, <1>6 DEF Steady, SeesAsIs
<1>14. DoneOK(d2, st)
  BY <1>4, <1>6 DEF DoneOK
<1>15. RanOK(d2, {})
  BY DEF RanOK
<1>. QED BY <1>4, <1>8, <1>10, <1>11, <1>12, <1>13, <1>14, <1>15 DEF Steady, d2

(* While it pops nothing and no failed run is ending, the driver may go    *)
(* anywhere but into a validation or a graph.                              *)
LEMMA ElsewhereSteady ==
  ASSUME NEW d, NEW st, NEW q, NEW tk, NEW w, NEW w2, NEW r, Steady(d, st, q, tk, w, r),
         w.at \notin {"pop", "popping"} /\ w.at \notin Ending,
         w2.at \notin {"validating", "popping"}
  PROVE  Steady(d, st, q, tk, w2, r)
  BY DEF Steady, SeenTo, SeesAsIs, Due

LEMMA EmptyTypes == EmptyDag \in Dags
  BY DEF EmptyDag, Dags, NodeStates

(* Nothing is recorded in a new machine.                                   *)
LEMMA EmptySteady ==
  ASSUME NEW st, NEW tk, NEW w, \A n \in Nodes : st[n] # "resolving" /\ tk[n] = "none",
         w.at \notin {"validating", "popping"}
  PROVE  Steady(EmptyDag, st, {}, tk, w, {}) /\ DoneOK(EmptyDag, st)
<1>1. /\ \A n \in Nodes : EmptyDag.ref[n] = "absent"
      /\ \A g \in Graphs : EmptyDag.members[g] = {} /\ EmptyDag.edges[g] = {} /\ EmptyDag.homes[g] = {}
  BY DEF EmptyDag
<1>2. GraphsOK(EmptyDag)
  BY <1>1 DEF GraphsOK, EdgesInside, NetsOnly, HomesApart, HomesKept, WorkStands, WorkIsReady
<1>. QED BY <1>1, <1>2 DEF Steady, QueueOK, TasksOK, ExecutingOK, SeenTo, RanOK, SeesAsIs, DoneOK

-----------------------------------------------------------------------------
(* The steps: what they do to the graphs and to those that stand in them.  *)

States == [Nodes -> {"unresolved", "resolving", "resolved"}]

LEMMA WorkFacts ==
  ASSUME PInv
  PROVE  /\ dag \in Dags /\ state \in States /\ queue \in SUBSET Nodes
         /\ drv.todo \in SUBSET Graphs /\ drv.node \in Graphs
         /\ Past \in SUBSET Nodes
         /\ shape.feeds \in SUBSET (Nodes \X Nodes) /\ shape.wires \in SUBSET (Nodes \X Nodes)
         /\ Steady(dag, state, queue, task, drv, Past)
         /\ cur # "error" => DoneOK(dag, state)
  BY DEF PInv, TypeOK, WorkOK, Past, WorkflowShapes, States

(* What a step leaves of the graphs, the nodes and the queue.              *)
WorkKept ==
  /\ dag' \in Dags /\ state' \in States /\ queue' \in SUBSET Nodes
  /\ WorkOK'

(* A step that makes nodes unresolved, before it does anything else.       *)
LEMMA UnresolvedWork ==
  ASSUME PInv, NEW S, state' = Unresolved(state, S)
  PROVE  /\ state' \in States /\ Steady(dag, state', queue, task, drv, Past)
         /\ cur # "error" => DoneOK(dag, state')
         /\ \A n \in Nodes : state'[n] = state[n] \/ state'[n] = "unresolved"
<1>1. state \in States /\ Steady(dag, state, queue, task, drv, Past)
  BY WorkFacts
<1>2. state' \in States /\ \A n \in Nodes : state'[n] = state[n] \/ state'[n] = "unresolved"
  BY <1>1 DEF Unresolved, States
<1>3. Steady(dag, state', queue, task, drv, Past)
  BY <1>1, <1>2 DEF Steady, TasksOK, ExecutingOK, SeenTo
<1>4. DoneOK(dag, state) => DoneOK(dag, state')
  BY <1>2 DEF DoneOK
<1>. QED BY <1>2, <1>3, <1>4, WorkFacts

LEMMA WorkFrom ==
  ASSUME shape' = shape, dag' \in Dags, state' \in States, queue' \in SUBSET Nodes,
         Steady(dag', state', queue', task', drv', Past'),
         cur' # "error" => DoneOK(dag', state')
  PROVE  WorkKept
<1>1. Steady(dag, state, queue, task, drv, Past)'
  BY DEF Steady, GraphsOK, EdgesInside, NetsOnly, HomesApart, HomesKept, WorkStands, WorkIsReady,
         QueueOK, TasksOK, ExecutingOK, SeenTo, RanOK, SeesAsIs, Stands, NothingBefore, Due
<1>2. cur' # "error" => DoneOK(dag, state)'
  BY DEF DoneOK
<1>. QED BY <1>1, <1>2 DEF WorkKept, WorkOK

(* The data connections a walk follows come from nodes that are not        *)
(* resolved, nor become so when others are made unresolved.                *)
LEMMA NeededFacts ==
  ASSUME shape.feeds \in SUBSET (Nodes \X Nodes), NEW st, NEW st2,
         \A n \in Nodes : st2[n] = st[n] \/ st2[n] = "unresolved"
  PROVE  /\ Needed(st) \in SUBSET (Nodes \X Nodes)
         /\ \A e \in Needed(st) : st2[e[1]] # "resolved"
  BY DEF Needed

LEMMA AddAndQueueSteady ==
  ASSUME shape.feeds \in SUBSET (Nodes \X Nodes), queue \in SUBSET Nodes,
         NEW d \in Dags, NEW st, NEW n \in Nodes, NEW g \in Graphs, NEW tk, NEW w,
         NEW r \in SUBSET Nodes, w.todo \in SUBSET Graphs, w.node \in Graphs,
         Steady(d, st, queue, tk, w, r), DoneOK(d, st), AddAndQueue(d, st, n, g)
  PROVE  /\ dag' \in Dags /\ queue' \in SUBSET Nodes
         /\ Steady(dag', st, queue', tk, w, r) /\ DoneOK(dag', st)
<1>. DEFINE S == NewNodes(d, Needed(st), n) \cup {n}
            d2 == Add(d, Needed(st), n, g)
<1>1. dag' = TryQueue(d2, shape, S) /\ queue' = queue \cup Queueable(d2, shape, S)
  BY DEF AddAndQueue
<1>2. Needed(st) \in SUBSET (Nodes \X Nodes) /\ \A e \in Needed(st) : st[e[1]] # "resolved"
  BY DEF Needed
<1>3. S \subseteq Nodes
  BY <1>2, NewNodesFresh
<1>4. d2 \in Dags /\ Steady(d2, st, queue, tk, w, r) /\ DoneOK(d2, st)
  BY <1>2, AddSteady
<1>. HIDE DEF S, d2
<1>. QED BY <1>1, <1>3, <1>4, TryQueueSteady

(* A record that differs in what no graph depends on.                      *)
LEMMA DeferredSteady ==
  ASSUME NEW d \in Dags, NEW X \in SUBSET Nodes, NEW st, NEW q, NEW tk, NEW w, NEW r,
         Steady(d, st, q, tk, w, r), DoneOK(d, st)
  PROVE  LET d2 == [d EXCEPT !.deferred = X]
         IN d2 \in Dags /\ Steady(d2, st, q, tk, w, r) /\ DoneOK(d2, st)
<1>. DEFINE d2 == [d EXCEPT !.deferred = X]
<1>1. /\ d2 \in Dags /\ d2.ref = d.ref /\ d2.nets = d.nets /\ d2.members = d.members
      /\ d2.edges = d.edges /\ d2.homes = d.homes
  BY DEF Dags
<1>. HIDE DEF d2
<1>2. Steady(d2, st, q, tk, w, r)
  BY <1>1 DEF Steady, GraphsOK, EdgesInside, NetsOnly, HomesApart, HomesKept, WorkStands, WorkIsReady,
              QueueOK, TasksOK, ExecutingOK, SeenTo, RanOK, SeesAsIs, Stands, NothingBefore, Due
<1>3. DoneOK(d2, st)
  BY <1>1 DEF DoneOK
<1>. QED BY <1>1, <1>2, <1>3 DEF d2

LEMMA StartFlowWork ==
  ASSUME PInv, NEW n \in Nodes, StartFlow(n)
  PROVE  WorkKept
<1>1. dag = EmptyDag /\ ~Running
  BY DEF StartFlow, NewMachine, PInv, DriverOK
<1>2. \A m \in Nodes : state[m] # "resolving"
  BY <1>1, WorkFacts DEF Steady, ExecutingOK, EmptyDag
<1>3. /\ shape' = shape /\ state' = state /\ queue' = {} /\ Past' = {}
      /\ \A m \in Nodes : task'[m] = "none"
      /\ dag' = Add(EmptyDag, Needed(state), n, n)
      /\ drv'.at = "seed" /\ drv'.todo \in SUBSET Graphs /\ drv'.node \in Graphs
  <2>1. drv' = [at |-> "seed", node |-> DefaultGraph, starts |-> {n}, leaves |-> {},
                todo |-> (Entries(shape) \cup Sinks(shape)) \ {n}]
    BY DEF StartFlow, Rest
  <2>2. Entries(shape) \cup Sinks(shape) \subseteq Nodes
    BY DEF PInv, TypeOK, WorkflowShapes, Entries, Sinks, Wired
  <2>3. drv'.at = "seed" /\ drv'.todo \in SUBSET Graphs /\ drv'.node \in Graphs
    BY <2>1, <2>2 DEF Graphs
  <2>4. ran' = {} /\ task' = [m \in Nodes |-> "none"] /\ shape' = shape /\ state' = state /\ queue' = {}
    BY DEF StartFlow, NewMachine
  <2>5. dag' = Add(EmptyDag, Needed(state), n, n)
    BY <1>1 DEF StartFlow
  <2>. QED BY <2>3, <2>4, <2>5 DEF Past
<1>4. Steady(EmptyDag, state, {}, task', drv', {}) /\ DoneOK(EmptyDag, state)
  BY <1>2, <1>3, EmptySteady
<1>5. Needed(state) \in SUBSET (Nodes \X Nodes) /\ \A e \in Needed(state) : state[e[1]] # "resolved"
  BY WorkFacts DEF Needed
<1>6. dag' \in Dags /\ Steady(dag', state, {}, task', drv', {}) /\ DoneOK(dag', state)
  BY <1>3, <1>4, <1>5, AddSteady, EmptyTypes DEF Graphs
<1>. QED BY <1>3, <1>6, WorkFrom, WorkFacts

LEMMA ResolveNodeWork ==
  ASSUME PInv, NEW n \in Nodes, ResolveNode(n)
  PROVE  WorkKept
<1>1. dag = EmptyDag /\ ~Running
  BY DEF ResolveNode, NewMachine, PInv, DriverOK
<1>2. \A m \in Nodes : state[m] # "resolving"
  BY <1>1, WorkFacts DEF Steady, ExecutingOK, EmptyDag
<1>3. /\ shape' = shape /\ queue' = {} /\ Past' = {}
      /\ \A m \in Nodes : task'[m] = "none"
      /\ drv'.at = "seed" /\ drv'.todo \in SUBSET Graphs /\ drv'.node \in Graphs
  <2>1. drv' = [at |-> "seed", node |-> DefaultGraph, starts |-> {n}, leaves |-> {}, todo |-> {}]
    BY DEF ResolveNode, Rest
  <2>2. drv'.at = "seed" /\ drv'.todo \in SUBSET Graphs /\ drv'.node \in Graphs
    BY <2>1 DEF Graphs
  <2>3. ran' = {} /\ task' = [m \in Nodes |-> "none"] /\ shape' = shape /\ queue' = {}
    BY DEF ResolveNode, NewMachine
  <2>. QED BY <2>2, <2>3 DEF Past
<1>4. state' \in States /\ \A m \in Nodes : state'[m] # "resolving"
  BY <1>2, WorkFacts DEF ResolveNode, Unresolved, States
<1>5. Steady(EmptyDag, state', {}, task', drv', {}) /\ DoneOK(EmptyDag, state')
  BY <1>3, <1>4, EmptySteady
<1>6. Needed(state') \in SUBSET (Nodes \X Nodes) /\ \A e \in Needed(state') : state'[e[1]] # "resolved"
  BY WorkFacts DEF Needed
<1>. DEFINE d1 == Add(EmptyDag, Needed(state'), n, DefaultGraph)
<1>7. d1 \in Dags /\ Steady(d1, state', {}, task', drv', {}) /\ DoneOK(d1, state')
  BY <1>3, <1>5, <1>6, AddSteady, EmptyTypes DEF Graphs
<1>8. dag' = Add(d1, Needed(state'), n, n)
  BY <1>1 DEF ResolveNode
<1>. HIDE DEF d1
<1>9. dag' \in Dags /\ Steady(dag', state', {}, task', drv', {}) /\ DoneOK(dag', state')
  BY <1>3, <1>6, <1>7, <1>8, AddSteady DEF Graphs
<1>. QED BY <1>3, <1>4, <1>9, WorkFrom

(* Seeding: what runs again is unresolved first.                           *)
LEMMA SeedWork ==
  ASSUME PInv, NEW n \in Nodes, SeedEntry(n) \/ SeedSink(n)
  PROVE  WorkKept
<1>1. /\ drv.at = "seed" /\ shape' = shape /\ queue' = queue /\ task' = task /\ Past' = Past
      /\ cur # "error" /\ state' = Unresolved(state, {n})
  <2>1. drv.at = "seed"
    BY DEF SeedEntry, SeedSink
  <2>2. cur # "error"
    BY <2>1 DEF PInv, DriverOK
  <2>3. UNCHANGED <<shape, machineVars, single, ran>>
    BY DEF SeedEntry, SeedSink
  <2>4. Past' = Past
    BY <2>3 DEF Past, Running, machineVars
  <2>. QED BY <2>1, <2>2, <2>3, <2>4 DEF SeedEntry, SeedSink, machineVars
<1>2. drv'.at = "seed" /\ drv'.todo \in SUBSET Graphs /\ drv'.node \in Graphs
  <2>1. \/ drv' = [drv EXCEPT !.todo = drv.todo \ {n}]
        \/ drv' = [drv EXCEPT !.todo = drv.todo \ {n}, !.starts = drv.starts \cup {n}]
    BY DEF SeedEntry, SeedSink
  <2>2. drv \in [at : Suspended \cup Holding, node : Graphs, todo : SUBSET Graphs,
                 leaves : SUBSET Nodes, starts : SUBSET Nodes]
    BY DEF PInv, TypeOK
  <2>. QED BY <1>1, <2>1, <2>2
<1>3. /\ state' \in States /\ Steady(dag, state', queue, task, drv, Past) /\ DoneOK(dag, state')
      /\ \A m \in Nodes : state'[m] = state[m] \/ state'[m] = "unresolved"
  BY <1>1, UnresolvedWork
<1>4. Steady(dag, state', queue, task, drv', Past)
  BY <1>1, <1>2, <1>3, ElsewhereSteady DEF Ending
<1>5. Needed(state) \in SUBSET (Nodes \X Nodes) /\ \A e \in Needed(state) : state'[e[1]] # "resolved"
  BY <1>3, WorkFacts, NeededFacts
<1>6. \/ dag' = dag
      \/ dag' = Add(dag, Needed(state), n, n)
      \/ dag' = [dag EXCEPT !.deferred = dag.deferred \cup {n}]
  BY DEF SeedEntry, SeedSink, Seeded
<1>7. dag' \in Dags /\ Steady(dag', state', queue, task, drv', Past) /\ DoneOK(dag', state')
  <2>1. CASE dag' = dag
    BY <2>1, <1>3, <1>4, WorkFacts
  <2>2. CASE dag' = Add(dag, Needed(state), n, n)
    BY <2>2, <1>2, <1>3, <1>4, <1>5, WorkFacts, AddSteady DEF Graphs
  <2>3. CASE dag' = [dag EXCEPT !.deferred = dag.deferred \cup {n}]
    <3>1. dag.deferred \cup {n} \in SUBSET Nodes
      BY WorkFacts DEF Dags
    <3>. QED BY <2>3, <3>1, <1>3, <1>4, WorkFacts, DeferredSteady
  <2>. QED BY <1>6, <2>1, <2>2, <2>3
<1>. QED BY <1>1, <1>3, <1>7, WorkFrom, WorkFacts

LEMMA EnterDagWork ==
  ASSUME PInv, EnterDag
  PROVE  WorkKept
<1>. DEFINE S == {n \in Nodes : dag.ref[n] = "waiting"}
<1>1. /\ drv.at = "seed" /\ shape' = shape /\ task' = task /\ cur' = cur
      /\ state' = Unresolved(state, drv.starts \ shape.locked)
      /\ dag' = TryQueue(dag, shape, S) /\ queue' = queue \cup Queueable(dag, shape, S)
      /\ drv' = [Rest EXCEPT !.at = "update"]
  BY DEF EnterDag, GoTo
<1>2. Past' = Past
  BY DEF EnterDag, Past, Running
<1>3. cur # "error"
  BY <1>1 DEF PInv, DriverOK
<1>4. drv'.at = "update" /\ drv'.todo \in SUBSET Graphs /\ drv'.node \in Graphs
  BY <1>1 DEF Rest, Graphs
<1>5. state' \in States /\ Steady(dag, state', queue, task, drv, Past) /\ DoneOK(dag, state')
  BY <1>1, <1>3, UnresolvedWork
<1>6. Steady(dag, state', queue, task, drv', Past)
  BY <1>1, <1>4, <1>5, ElsewhereSteady DEF Ending
<1>7. S \subseteq Nodes
  OBVIOUS
<1>. HIDE DEF S
<1>8. /\ dag' \in Dags /\ queue' \in SUBSET Nodes
      /\ Steady(dag', state', queue', task, drv', Past) /\ DoneOK(dag', state')
  <2>1. dag \in Dags /\ queue \in SUBSET Nodes /\ Past \in SUBSET Nodes
    BY WorkFacts
  <2>2. LET d2 == TryQueue(dag, shape, S)
            q2 == queue \cup Queueable(dag, shape, S)
        IN d2 \in Dags /\ q2 \subseteq Nodes /\ Steady(d2, state', q2, task, drv', Past)
           /\ DoneOK(d2, state')
    BY <1>4, <1>5, <1>6, <1>7, <2>1, TryQueueSteady
  <2>. QED BY <1>1, <2>2
<1>. QED BY <1>1, <1>2, <1>5, <1>8, WorkFrom

LEMMA SeedDeferredWork ==
  ASSUME PInv, NEW n \in Nodes, SeedDeferred(n)
  PROVE  WorkKept
<1>. DEFINE rest == [dag EXCEPT !.deferred = dag.deferred \ {n}]
<1>1. /\ drv.at = "sinks" /\ shape' = shape /\ task' = task /\ cur' = cur /\ state' = state
      /\ \/ dag' = rest /\ queue' = queue
         \/ AddAndQueue(rest, state, n, n)
  BY DEF SeedDeferred
<1>2. Past' = Past
  BY DEF SeedDeferred, Past, Running
<1>3. cur # "error"
  BY <1>1 DEF PInv, DriverOK
<1>4. drv'.at \in {"update", "sinks"} /\ drv'.todo \in SUBSET Graphs /\ drv'.node \in Graphs
  <2>1. \E label \in {"update", "sinks"} : drv' = [Rest EXCEPT !.at = label]
    BY DEF SeedDeferred, GoTo
  <2>. QED BY <2>1 DEF Rest, Graphs
<1>5. Steady(dag, state, queue, task, drv', Past) /\ DoneOK(dag, state)
  BY <1>1, <1>3, <1>4, WorkFacts, ElsewhereSteady DEF Ending
<1>6. rest \in Dags /\ Steady(rest, state, queue, task, drv', Past) /\ DoneOK(rest, state)
  <2>1. dag.deferred \ {n} \in SUBSET Nodes
    BY WorkFacts DEF Dags
  <2>. QED BY <2>1, <1>5, WorkFacts, DeferredSteady
<1>. HIDE DEF rest
<1>7. /\ dag' \in Dags /\ queue' \in SUBSET Nodes
      /\ Steady(dag', state, queue', task, drv', Past) /\ DoneOK(dag', state)
  <2>1. CASE dag' = rest /\ queue' = queue
    BY <2>1, <1>6, WorkFacts
  <2>2. CASE AddAndQueue(rest, state, n, n)
    BY <2>2, <1>4, <1>6, WorkFacts, AddAndQueueSteady DEF Graphs
  <2>. QED BY <1>1, <2>1, <2>2
<1>. QED BY <1>1, <1>2, <1>7, WorkFrom, WorkFacts

(* A joining node; Walk marks what it feeds as unresolved.                 *)
LEMMA JoinWork ==
  ASSUME PInv, NEW n \in Nodes, Join(n)
  PROVE  WorkKept
<1>1. /\ shape' = shape /\ task' = task /\ cur' = cur /\ drv' = drv /\ cur # "error"
      /\ \E S : state' = Unresolved(state, S)
      /\ \/ AddRaises(dag, n, n) /\ dag' = AddRaised(dag, n, n) /\ queue' = queue
         \/ AddAndQueue(dag, state', n, n)
  BY DEF Join
<1>2. Past' = Past
  BY DEF Join, Past, Running
<1>3. state' \in States /\ Steady(dag, state', queue, task, drv, Past) /\ DoneOK(dag, state')
  BY <1>1, UnresolvedWork
<1>4. /\ dag' \in Dags /\ queue' \in SUBSET Nodes
      /\ Steady(dag', state', queue', task, drv, Past) /\ DoneOK(dag', state')
  <2>1. CASE AddRaises(dag, n, n) /\ dag' = AddRaised(dag, n, n) /\ queue' = queue
    BY <2>1, <1>3, WorkFacts, AddRaisedSteady DEF Graphs
  <2>2. CASE AddAndQueue(dag, state', n, n)
    BY <2>2, <1>3, WorkFacts, AddAndQueueSteady DEF Graphs
  <2>. QED BY <1>1, <2>1, <2>2
<1>. QED BY <1>1, <1>2, <1>3, <1>4, WorkFrom

LEMMA ResolveInvalidWork ==
  ASSUME PInv, NEW n \in Nodes, ResolveInvalid(n)
  PROVE  WorkKept
<1>1. /\ shape' = shape /\ task' = task /\ cur' = cur /\ drv' = drv /\ dag' = dag /\ queue' = queue
      /\ \E S : state' = Unresolved(state, S)
  BY DEF ResolveInvalid, machineVars
<1>2. Past' = Past
  BY DEF ResolveInvalid, Past, Running, machineVars
<1>3. /\ state' \in States /\ Steady(dag, state', queue, task, drv, Past)
      /\ cur # "error" => DoneOK(dag, state')
  BY <1>1, UnresolvedWork
<1>. QED BY <1>1, <1>2, <1>3, WorkFrom, WorkFacts

(* Steps that move the driver and take nodes off the queue at most.        *)
LEMMA QuietWork ==
  ASSUME PInv, UNCHANGED <<shape, state, dag, task>>, queue' \subseteq queue, Past' = Past,
         SeenTo(dag, state, task, drv'), SeesAsIs(dag, queue', drv'),
         cur' # "error" => cur # "error"
  PROVE  WorkKept
<1>1. queue' \in SUBSET Nodes /\ QueueOK(dag, queue')
  BY WorkFacts DEF Steady, QueueOK
<1>2. Steady(dag, state, queue', task, drv', Past)
  BY <1>1, WorkFacts DEF Steady
<1>. QED BY <1>1, <1>2, WorkFrom, WorkFacts

LEMMA DriverSeenTo ==
  ASSUME PInv, drv.at \notin {"pop", "popping"}, drv.at \notin Ending, NEW w
  PROVE  SeenTo(dag, state, task, w) /\ \A n \in Nodes : state[n] = "resolving" => task[n] # "none"
  BY WorkFacts DEF Steady, SeenTo, Due

(* What stands in a graph with nothing before it is one of its leaves.     *)
LEMMA StandsAsLeaf ==
  ASSUME NEW d \in Dags, NEW n \in Nodes, Stands(d, n), NothingBefore(d, n)
  PROVE  n \in AllLeaves(d)
  BY DEF Stands, NothingBefore, AllLeaves, Leaves, Dags

LEMMA UpdateWork ==
  ASSUME PInv, Update
  PROVE  WorkKept
<1>1. drv.at = "update" /\ UNCHANGED <<shape, state, task, queue>> /\ cur # "error"
  BY DEF Update, PInv, DriverOK
<1>2. CASE UNCHANGED <<dag, cur, single>>
            /\ \E label \in {"idle", "sinks", "drain"} : drv' = [Rest EXCEPT !.at = label]
  <2>1. drv'.at \in {"idle", "sinks", "drain"}
    BY <1>2 DEF Rest
  <2>2. SeesAsIs(dag, queue', drv')
    BY <2>1 DEF SeesAsIs
  <2>3. SeenTo(dag, state, task, drv')
    BY <1>1, DriverSeenTo DEF Ending
  <2>4. Past' = Past
    BY <1>2 DEF Past, Running, Update
  <2>. QED BY <1>1, <1>2, <2>2, <2>3, <2>4, QuietWork
<1>3. CASE Canceled = AllLeaves(dag) /\ \E outcome : Complete(outcome)
  <2>1. \A n \in Nodes : dag.ref[n] \notin {"queued", "processing"}
    <3>. SUFFICES ASSUME NEW n \in Nodes, dag.ref[n] \in {"queued", "processing"} PROVE FALSE
      OBVIOUS
    <3>1. Stands(dag, n) /\ NothingBefore(dag, n)
      BY WorkFacts DEF Steady, GraphsOK, WorkStands, WorkIsReady
    <3>2. n \in Canceled
      BY <1>3, <3>1, StandsAsLeaf, WorkFacts
    <3>. QED BY <3>2 DEF Canceled
  <2>2. \A n \in Nodes : task[n] = "none"
    BY <2>1, WorkFacts DEF Steady, TasksOK
  <2>3. queue = {}
    BY <2>1, WorkFacts DEF Steady, QueueOK
  <2>4. \A n \in Nodes : state[n] # "resolving"
    BY <1>1, <2>2, DriverSeenTo DEF Ending
  <2>5. drv'.at = "idle" /\ Past' = {} /\ dag' = EmptyDag
    BY <1>3 DEF Complete, Rest, Past, Running
  <2>6. Steady(EmptyDag, state, {}, task, drv', {}) /\ DoneOK(EmptyDag, state)
    BY <2>2, <2>4, <2>5, EmptySteady
  <2>. QED BY <1>1, <2>3, <2>5, <2>6, EmptyTypes, WorkFrom, WorkFacts
<1>4. \/ /\ UNCHANGED <<dag, cur, single>>
         /\ \E label \in {"idle", "sinks", "drain"} : drv' = [Rest EXCEPT !.at = label]
      \/ Canceled = AllLeaves(dag) /\ \E outcome : Complete(outcome)
  <2>1. Rest = [Rest EXCEPT !.at = "idle"]
    BY DEF Rest
  <2>. QED BY <2>1, Zenon DEF Update, GoTo
<1>. QED BY <1>2, <1>3, <1>4

(* The driver's steps between updates that touch no graph.                 *)
LEMMA DrainWork ==
  ASSUME PInv,
         \/ \E n \in Nodes : Take(n) \/ CollectFails(n)
         \/ Wait \/ ValidationFails \/ Recheck
  PROVE  WorkKept
<1>1. /\ drv.at \in {"drain", "validating", "parked"} /\ cur # "error"
      /\ UNCHANGED <<shape, state, dag, task, cur, single, ran>> /\ queue' \subseteq queue
  <2>1. drv.at \in {"drain", "validating", "parked"}
    BY DEF Take, CollectFails, Wait, ValidationFails, Recheck
  <2>2. cur # "error"
    BY <2>1 DEF PInv, DriverOK
  <2>3. UNCHANGED <<shape, state, dag, task, cur, single, ran>>
    BY DEF Take, CollectFails, Wait, ValidationFails, Recheck, machineVars, Fail
  <2>4. queue' \subseteq queue
    BY DEF Take, CollectFails, Wait, ValidationFails, Recheck, machineVars
  <2>. QED BY <2>1, <2>2, <2>3, <2>4
<1>2. Past' = Past
  BY <1>1 DEF Past, Running
<1>3. SeenTo(dag, state, task, drv')
  BY <1>1, DriverSeenTo DEF Ending
<1>4. SeesAsIs(dag, queue', drv')
  <2>1. ASSUME NEW n \in Nodes, Take(n) PROVE SeesAsIs(dag, queue', drv')
    <3>1. drv'.at = "validating" /\ drv'.node = n /\ n \in queue /\ n \notin queue'
      BY <2>1 DEF Take, Rest
    <3>2. dag.ref[n] = "queued"
      BY <3>1, WorkFacts DEF Steady, QueueOK
    <3>. QED BY <3>1, <3>2 DEF SeesAsIs
  <2>2. CASE (\E n \in Nodes : CollectFails(n)) \/ Wait \/ ValidationFails \/ Recheck
    <3>1. \E label \in {"failing", "parked", "waiting", "pop"} : drv'.at = label
      BY <2>2 DEF CollectFails, Wait, ValidationFails, Recheck, Fail, GoTo, StartPop, Rest
    <3>. QED BY <3>1 DEF SeesAsIs
  <2>. QED BY <2>1, <2>2
<1>. QED BY <1>1, <1>2, <1>3, <1>4, QuietWork

(* A node that is due stays so when the driver turns to a graph, since it  *)
(* is a leaf of it, or comes to the next one.                              *)
LEMMA PopGraphWork ==
  ASSUME PInv, NEW g \in Graphs, PopGraph(g)
  PROVE  WorkKept
<1>1. /\ drv.at = "pop" /\ UNCHANGED <<shape, state, dag, machineVars, single, ran>>
      /\ drv' = [drv EXCEPT !.at = "popping", !.node = g, !.todo = drv.todo \ {g},
                            !.leaves = Leaves(dag, g)]
  BY DEF PopGraph
<1>2. Past' = Past
  BY <1>1 DEF Past, Running, machineVars
<1>3. drv'.at = "popping" /\ drv'.node = g /\ drv'.todo = drv.todo \ {g} /\ drv'.leaves = Leaves(dag, g)
  <2>1. drv \in [at : Suspended \cup Holding, node : Graphs, todo : SUBSET Graphs,
                 leaves : SUBSET Nodes, starts : SUBSET Nodes]
    BY DEF PInv, TypeOK
  <2>. QED BY <1>1, <2>1
<1>4. SeesAsIs(dag, queue', drv')
  BY <1>3 DEF SeesAsIs, Leaves
<1>5. SeenTo(dag, state, task, drv')
  <2>. SUFFICES ASSUME NEW n \in Nodes, state[n] = "resolving", task[n] = "none"
                PROVE  dag.ref[n] = "done" /\ Due(dag, drv', n)
    BY DEF SeenTo
  <2>1. dag.ref[n] = "done" /\ Due(dag, drv, n)
    BY <1>1, WorkFacts DEF Steady, SeenTo, Ending
  <2>2. PICK h \in drv.todo : n \in dag.members[h]
    BY <1>1, <2>1 DEF Due
  <2>3. NothingBefore(dag, n)
    BY WorkFacts DEF Steady, ExecutingOK
  <2>4. CASE h = g
    BY <1>3, <2>1, <2>2, <2>3, <2>4 DEF Leaves, NothingBefore, Due
  <2>5. CASE h # g
    BY <1>3, <2>1, <2>2, <2>5 DEF Due
  <2>. QED BY <2>1, <2>4, <2>5
<1>. QED BY <1>1, <1>2, <1>4, <1>5, QuietWork DEF machineVars

LEMMA PopEndsWork ==
  ASSUME PInv, PopEnds
  PROVE  WorkKept
<1>1. /\ drv.at = "pop" /\ drv.todo = {} /\ UNCHANGED <<shape, state, dag, machineVars, single, ran>>
      /\ drv'.at \in {"idle", "update"}
  BY DEF PopEnds, GoTo, Rest
<1>2. Past' = Past
  BY <1>1 DEF Past, Running, machineVars
<1>3. SeenTo(dag, state, task, drv')
  BY <1>1, WorkFacts DEF Steady, SeenTo, Due, Ending
<1>4. SeesAsIs(dag, queue', drv')
  BY <1>1 DEF SeesAsIs
<1>. QED BY <1>1, <1>2, <1>3, <1>4, QuietWork DEF machineVars

(* Steps of the requests and of the ending run that only move it.          *)
LEMMA AsideWork ==
  ASSUME PInv,
         \/ ErrorWaits \/ ErrorWakes \/ Pause \/ Continue \/ CancelRun \/ CancelRaises
         \/ \E n \in Nodes : OrphanEnds(n) \/ ValidatedLate(n)
         \/ UNCHANGED vars
  PROVE  WorkKept
<1>1. UNCHANGED <<shape, state, dag, task, queue, cur, single, ran>>
  BY DEF ErrorWaits, ErrorWakes, Pause, Continue, CancelRun, CancelRaises, OrphanEnds,
         ValidatedLate, vars, machineVars
<1>2. Past' = Past
  BY <1>1 DEF Past, Running
<1>3. \/ drv' = drv
      \/ drv.at \in Ending /\ drv'.at \in {"error", "reaping"}
      \/ drv.at = "idle" /\ drv'.at \in {"update", "error"}
  BY DEF ErrorWaits, ErrorWakes, Pause, Continue, CancelRun, CancelRaises, OrphanEnds,
         ValidatedLate, vars, GoTo, Rest, Ending
<1>4. SeenTo(dag, state, task, drv') /\ SeesAsIs(dag, queue, drv')
  <2>1. CASE drv' = drv
    BY <2>1, WorkFacts DEF Steady
  <2>2. CASE drv.at \in Ending /\ drv'.at \in {"error", "reaping"}
    BY <2>2 DEF SeenTo, SeesAsIs, Ending
  <2>3. CASE drv.at = "idle" /\ drv'.at \in {"update", "error"}
    <3>1. SeenTo(dag, state, task, drv')
      BY <2>3, DriverSeenTo DEF Ending
    <3>. QED BY <2>3, <3>1 DEF SeesAsIs
  <2>. QED BY <1>3, <2>1, <2>2, <2>3
<1>. QED BY <1>1, <1>2, <1>4, QuietWork

(* Steps that record the progress of nodes that were queued or executing.  *)
LEMMA ProgressKeeps ==
  ASSUME NEW d \in Dags, GraphsOK(d), NEW ref \in [Nodes -> NodeStates],
         \A n \in Nodes : \/ ref[n] = d.ref[n]
                          \/ /\ d.ref[n] \in {"queued", "processing"}
                             /\ ref[n] \in {"processing", "done", "errored", "canceled"}
  PROVE  LET d2 == [d EXCEPT !.ref = ref]
         IN /\ d2 \in Dags /\ GraphsOK(d2)
            /\ d2.ref = ref /\ d2.nets = d.nets /\ d2.members = d.members /\ d2.homes = d.homes
            /\ \A n \in Nodes : NothingBefore(d, n) <=> NothingBefore(d2, n)
            /\ \A n \in Nodes : Stands(d, n) <=> Stands(d2, n)
            /\ \A st : ExecutingOK(d, st) => ExecutingOK(d2, st)
            /\ \A r \in SUBSET Nodes : RanOK(d, r) => RanOK(d2, r)
<1>. DEFINE d2 == [d EXCEPT !.ref = ref]
<1>1. /\ d2 \in Dags /\ d2.ref = ref /\ d2.nets = d.nets /\ d2.members = d.members
      /\ d2.edges = d.edges /\ d2.homes = d.homes
  BY DEF Dags
<1>. HIDE DEF d2
<1>2. /\ \A n \in Nodes : NothingBefore(d, n) <=> NothingBefore(d2, n)
      /\ \A n \in Nodes : Stands(d, n) <=> Stands(d2, n)
  BY <1>1 DEF NothingBefore, Stands
<1>3. GraphsOK(d2)
  <2>1. EdgesInside(d2) /\ NetsOnly(d2) /\ HomesApart(d2)
    BY <1>1 DEF GraphsOK, EdgesInside, NetsOnly, HomesApart
  <2>2. HomesKept(d2)
    <3>. SUFFICES ASSUME NEW h \in Graphs, NEW m \in d2.homes[h]
                  PROVE  d2.ref[m] # "absent" /\ (m \in d2.members[h] \/ d2.ref[m] = "done")
      BY DEF HomesKept
    <3>1. m \in Nodes /\ d.ref[m] # "absent" /\ (m \in d.members[h] \/ d.ref[m] = "done")
      BY <1>1 DEF GraphsOK, HomesKept, Dags
    <3>. QED BY <3>1, <1>1
  <2>3. WorkStands(d2) /\ WorkIsReady(d2)
    BY <1>1, <1>2 DEF GraphsOK, WorkStands, WorkIsReady
  <2>. QED BY <2>1, <2>2, <2>3 DEF GraphsOK
<1>4. \A st : ExecutingOK(d, st) => ExecutingOK(d2, st)
  BY <1>1, <1>2 DEF ExecutingOK
<1>5. \A r \in SUBSET Nodes : RanOK(d, r) => RanOK(d2, r)
  BY <1>1 DEF RanOK
<1>. QED BY <1>1, <1>2, <1>3, <1>4, <1>5 DEF d2

LEMMA DispatchWork ==
  ASSUME PInv, Dispatch
  PROVE  WorkKept
<1>. DEFINE n == drv.node
            ref == [dag.ref EXCEPT ![n] = "processing"]
            between == Unresolved(state, Marked(state, Walk(n, swept)))
<1>1. /\ drv.at = "validating" /\ UNCHANGED <<shape, queue, cur, single>>
      /\ task' = [task EXCEPT ![n] = "running"] /\ ran' = ran \cup {n}
      /\ state' = [between EXCEPT ![n] = "resolving"]
      /\ drv'.at = "drain" /\ cur # "error"
  BY DEF Dispatch, GoTo, Rest, PInv, DriverOK
<1>2. dag' = [dag EXCEPT !.ref = ref]
  BY Zenon DEF Dispatch
<1>3. n \in Nodes /\ dag.ref[n] = "queued" /\ n \notin queue
  BY <1>1, WorkFacts DEF Steady, SeesAsIs
<1>4. /\ ref \in [Nodes -> NodeStates] /\ ref[n] = "processing"
      /\ \A m \in Nodes \ {n} : ref[m] = dag.ref[m]
  BY <1>3, WorkFacts DEF Dags, NodeStates
<1>5. /\ task'[n] = "running" /\ \A m \in Nodes \ {n} : task'[m] = task[m]
  BY <1>1, <1>3 DEF PInv, TypeOK
<1>6. /\ state' \in States /\ state'[n] = "resolving"
      /\ \A m \in Nodes \ {n} : state'[m] = state[m] \/ state'[m] = "unresolved"
  BY <1>1, <1>3, WorkFacts DEF Unresolved, States
<1>. HIDE DEF n, ref, between
<1>7. GraphsOK(dag)
  BY WorkFacts DEF Steady
<1>8. /\ dag' \in Dags /\ GraphsOK(dag') /\ dag'.ref = ref /\ dag'.members = dag.members
      /\ dag'.homes = dag.homes
      /\ \A m \in Nodes : NothingBefore(dag, m) <=> NothingBefore(dag', m)
      /\ \A m \in Nodes : Stands(dag, m) <=> Stands(dag', m)
      /\ \A r \in SUBSET Nodes : RanOK(dag, r) => RanOK(dag', r)
  BY <1>2, <1>3, <1>4, <1>7, WorkFacts, ProgressKeeps
<1>9. QueueOK(dag', queue)
  BY <1>3, <1>4, <1>8, WorkFacts DEF Steady, QueueOK
<1>10. TasksOK(dag', state', task')
  BY <1>4, <1>5, <1>6, <1>8, WorkFacts DEF Steady, TasksOK
<1>11. ExecutingOK(dag', state')
  <2>1. ASSUME NEW m \in Nodes \ {n}, state'[m] = "resolving"
        PROVE  /\ dag'.ref[m] \notin {"absent", "waiting", "queued"}
               /\ Stands(dag', m) /\ NothingBefore(dag', m)
               /\ \A g \in Graphs : m \in dag'.homes[g] => m \in dag'.members[g]
    BY <2>1, <1>4, <1>6, <1>8, WorkFacts DEF Steady, ExecutingOK
  <2>2. /\ dag'.ref[n] \notin {"absent", "waiting", "queued"}
        /\ Stands(dag', n) /\ NothingBefore(dag', n)
        /\ \A g \in Graphs : n \in dag'.homes[g] => n \in dag'.members[g]
    BY <1>3, <1>4, <1>7, <1>8 DEF GraphsOK, WorkStands, WorkIsReady, HomesKept
  <2>. QED BY <2>1, <2>2 DEF ExecutingOK
<1>12. SeenTo(dag', state', task', drv')
  BY <1>1, <1>5, <1>6, DriverSeenTo DEF SeenTo, Ending
<1>13. SeesAsIs(dag', queue, drv')
  BY <1>1 DEF SeesAsIs
<1>14. RanOK(dag', Past')
  <2>1. RanOK(dag', Past)
    BY <1>8, WorkFacts DEF Steady
  <2>2. Past' \subseteq Past \cup {n}
    BY <1>1 DEF Past, Running
  <2>. QED BY <2>1, <2>2, <1>4, <1>8 DEF RanOK
<1>15. DoneOK(dag', state')
  BY <1>1, <1>4, <1>6, <1>8, WorkFacts DEF DoneOK
<1>16. Steady(dag', state', queue', task', drv', Past')
  BY <1>1, <1>8, <1>9, <1>10, <1>11, <1>12, <1>13, <1>14 DEF Steady
<1>. QED BY <1>1, <1>6, <1>8, <1>15, <1>16, WorkFrom, WorkFacts

(* A failed task ends the update, the others stay in the task map.         *)
LEMMA WakeToFailureWork ==
  ASSUME PInv, NEW n \in Nodes, WakeToFailure(n)
  PROVE  WorkKept
<1>1. /\ drv.at = "waiting" /\ UNCHANGED <<shape, state, queue, cur, single, ran>>
      /\ task[n] # "none" /\ task' = [task EXCEPT ![n] = "none"]
      /\ drv'.at = "failing" /\ cur # "error"
  BY DEF WakeToFailure, Fail, GoTo, Rest, PInv, DriverOK
<1>2. PICK how \in {"errored", "canceled"} :
        dag' = [dag EXCEPT !.ref = [dag.ref EXCEPT ![n] = how]]
  BY Zenon DEF WakeToFailure
<1>. DEFINE ref == [dag.ref EXCEPT ![n] = how]
<1>3. dag.ref[n] = "processing"
  BY <1>1, WorkFacts DEF Steady, TasksOK
<1>4. /\ ref \in [Nodes -> NodeStates] /\ ref[n] = how
      /\ \A m \in Nodes \ {n} : ref[m] = dag.ref[m]
  BY WorkFacts DEF Dags, NodeStates
<1>5. task'[n] = "none" /\ \A m \in Nodes \ {n} : task'[m] = task[m]
  BY <1>1 DEF PInv, TypeOK
<1>. HIDE DEF ref
<1>6. dag' = [dag EXCEPT !.ref = ref] /\ GraphsOK(dag)
  BY <1>2, WorkFacts DEF Steady, ref
<1>7. /\ dag' \in Dags /\ GraphsOK(dag') /\ dag'.ref = ref /\ dag'.members = dag.members
      /\ ExecutingOK(dag, state) => ExecutingOK(dag', state)
      /\ \A r \in SUBSET Nodes : RanOK(dag, r) => RanOK(dag', r)
  BY <1>3, <1>4, <1>6, WorkFacts, ProgressKeeps
<1>8. Past' = Past
  BY <1>1 DEF Past, Running
<1>9. QueueOK(dag', queue) /\ TasksOK(dag', state, task')
  BY <1>3, <1>4, <1>5, <1>7, WorkFacts DEF Steady, QueueOK, TasksOK
<1>10. ExecutingOK(dag', state) /\ RanOK(dag', Past)
  BY <1>7, WorkFacts DEF Steady
<1>11. SeenTo(dag', state, task', drv') /\ SeesAsIs(dag', queue, drv')
  BY <1>1 DEF SeenTo, SeesAsIs, Ending
<1>12. DoneOK(dag', state)
  BY <1>1, <1>4, <1>7, WorkFacts DEF DoneOK
<1>13. Steady(dag', state', queue', task', drv', Past')
  BY <1>1, <1>7, <1>8, <1>9, <1>10, <1>11 DEF Steady
<1>. QED BY <1>1, <1>7, <1>12, <1>13, WorkFrom, WorkFacts

(* What finished is done and due in every graph it stands in.              *)
LEMMA WakeWork ==
  ASSUME PInv, Wake
  PROVE  WorkKept
<1>. DEFINE ref == [m \in Nodes |-> IF m \in Finished THEN "done" ELSE dag.ref[m]]
<1>1. /\ drv.at = "waiting" /\ UNCHANGED <<shape, state, queue, cur, single, ran>>
      /\ task' = [m \in Nodes |-> IF m \in Finished THEN "none" ELSE task[m]]
      /\ drv'.at = "pop" /\ drv'.todo = dag.nets /\ cur # "error"
  BY DEF Wake, StartPop, Rest, PInv, DriverOK
<1>2. dag' = [dag EXCEPT !.ref = ref]
  BY Zenon DEF Wake
<1>3. \A m \in Finished : m \in Nodes /\ dag.ref[m] = "processing" /\ state[m] # "resolved"
  BY WorkFacts DEF Steady, TasksOK, Finished, Ended
<1>4. /\ ref \in [Nodes -> NodeStates]
      /\ \A m \in Nodes : ref[m] = IF m \in Finished THEN "done" ELSE dag.ref[m]
  BY WorkFacts DEF Dags, NodeStates
<1>. HIDE DEF ref
<1>5. GraphsOK(dag)
  BY WorkFacts DEF Steady
<1>6. /\ dag' \in Dags /\ GraphsOK(dag') /\ dag'.ref = ref /\ dag'.members = dag.members
      /\ ExecutingOK(dag, state) => ExecutingOK(dag', state)
      /\ \A r \in SUBSET Nodes : RanOK(dag, r) => RanOK(dag', r)
  BY SMTT(60), <1>2, <1>3, <1>4, <1>5, WorkFacts, ProgressKeeps
<1>7. Past' = Past
  BY <1>1 DEF Past, Running
<1>8. QueueOK(dag', queue)
  BY <1>3, <1>4, <1>6, WorkFacts DEF Steady, QueueOK
<1>9. TasksOK(dag', state, task')
  BY <1>1, <1>4, <1>6, WorkFacts DEF Steady, TasksOK
<1>10. ExecutingOK(dag', state) /\ RanOK(dag', Past)
  BY <1>6, WorkFacts DEF Steady
<1>11. SeenTo(dag', state, task', drv')
  <2>. SUFFICES ASSUME NEW m \in Nodes, state[m] = "resolving", task'[m] = "none"
                PROVE  dag'.ref[m] = "done" /\ Due(dag', drv', m)
    BY DEF SeenTo
  <2>1. task[m] # "none"
    BY <1>1, DriverSeenTo DEF Ending
  <2>2. m \in Finished
    BY <2>1, <1>1
  <2>3. Stands(dag, m)
    BY WorkFacts DEF Steady, ExecutingOK
  <2>. QED BY <2>2, <2>3, <1>1, <1>4, <1>6 DEF Due, Stands
<1>12. SeesAsIs(dag', queue, drv')
  BY <1>1 DEF SeesAsIs
<1>13. DoneOK(dag', state)
  BY <1>1, <1>3, <1>4, <1>6, WorkFacts DEF DoneOK
<1>14. Steady(dag', state', queue', task', drv', Past')
  BY <1>1, <1>6, <1>7, <1>8, <1>9, <1>10, <1>11, <1>12 DEF Steady
<1>. QED BY <1>1, <1>6, <1>13, <1>14, WorkFrom, WorkFacts

(* What is due stays due when no leaf is done.                             *)
LEMMA LeaveGraphWork ==
  ASSUME PInv, LeaveGraph
  PROVE  WorkKept
<1>. DEFINE S == Leaves(dag, drv.node)
<1>1. /\ drv.at = "popping" /\ UNCHANGED <<shape, state, task, cur, single, ran>>
      /\ \A n \in drv.leaves : ~IsDone(n)
      /\ dag' = TryQueue(dag, shape, S) /\ queue' = queue \cup Queueable(dag, shape, S)
      /\ cur # "error"
  BY DEF LeaveGraph, PInv, DriverOK
<1>2. drv'.at = "pop" /\ drv'.todo = drv.todo /\ drv'.node \in Graphs
  BY DEF LeaveGraph, Rest, Graphs
<1>3. S \subseteq Nodes
  BY WorkFacts DEF Leaves, Dags
<1>4. SeenTo(dag, state, task, drv')
  <2>. SUFFICES ASSUME NEW n \in Nodes, state[n] = "resolving", task[n] = "none"
                PROVE  dag.ref[n] = "done" /\ Due(dag, drv', n)
    BY DEF SeenTo
  <2>1. dag.ref[n] = "done" /\ Due(dag, drv, n)
    BY <1>1, WorkFacts DEF Steady, SeenTo, Ending
  <2>2. n \notin drv.leaves
    BY <1>1, <2>1 DEF IsDone, Recorded
  <2>. QED BY <1>1, <1>2, <2>1, <2>2 DEF Due
<1>5. Steady(dag, state, queue, task, drv', Past) /\ DoneOK(dag, state)
  BY <1>1, <1>2, <1>4, WorkFacts DEF Steady, SeesAsIs
<1>. HIDE DEF S
<1>6. LET d2 == TryQueue(dag, shape, S)
          q2 == queue \cup Queueable(dag, shape, S)
      IN d2 \in Dags /\ q2 \subseteq Nodes /\ Steady(d2, state, q2, task, drv', Past)
         /\ DoneOK(d2, state)
  <2>1. /\ dag \in Dags /\ queue \in SUBSET Nodes /\ Past \in SUBSET Nodes
        /\ drv'.todo \in SUBSET Graphs
    BY <1>2, WorkFacts
  <2>. QED BY <1>2, <1>3, <1>5, <2>1, TryQueueSteady
<1>7. Past' = Past
  BY <1>1 DEF Past, Running
<1>. QED BY <1>1, <1>6, <1>7, WorkFrom, WorkFacts

(* A finished leaf leaves every graph; then control goes on from it.       *)
LEMMA AdvanceWork ==
  ASSUME shape.feeds \in SUBSET (Nodes \X Nodes), shape.wires \in SUBSET (Nodes \X Nodes),
         queue \in SUBSET Nodes, NEW d \in Dags, NEW st \in States, NEW n \in Nodes, NEW g \in Graphs,
         NEW w, w.todo \in SUBSET Graphs, w.node \in Graphs, Past \in SUBSET Nodes,
         Steady(d, st, queue \ {n}, task, w, Past), DoneOK(d, st), Advance(d, st, n, g)
  PROVE  /\ dag' \in Dags /\ state' \in States /\ queue' \in SUBSET Nodes
         /\ Steady(dag', state', queue', task, w, Past) /\ DoneOK(dag', state')
<1>1. CASE single /\ d.members[g] = {} /\ dag' = CleanUp(d, g) /\ state' = st /\ queue' = queue \ {n}
  <2>1. Past = {}
    BY <1>1 DEF Past
  <2>. QED BY <1>1, <2>1, CleanUpSteady
<1>2. CASE dag' = d /\ state' = st /\ queue' = queue \ {n}
  BY <1>2
<1>3. ASSUME NEW e \in shape.wires,
             state' = Unresolved(st, {e[2]} \ shape.locked),
             dag' = TryQueue(Add(d, Needed(state'), e[2], g), shape, NewNodes(d, Needed(state'), e[2]) \cup {e[2]}),
             queue' = (queue \ {n}) \cup Queueable(Add(d, Needed(state'), e[2], g), shape,
                                                   NewNodes(d, Needed(state'), e[2]) \cup {e[2]})
      PROVE  /\ dag' \in Dags /\ state' \in States /\ queue' \in SUBSET Nodes
             /\ Steady(dag', state', queue', task, w, Past) /\ DoneOK(dag', state')
  <2>. DEFINE next == e[2]
              S == NewNodes(d, Needed(state'), next) \cup {next}
              d2 == Add(d, Needed(state'), next, g)
              q == queue \ {n}
  <2>1. next \in Nodes /\ q \in SUBSET Nodes
    OBVIOUS
  <2>2. state' \in States /\ \A m \in Nodes : state'[m] = st[m] \/ state'[m] = "unresolved"
    BY <1>3 DEF Unresolved, States
  <2>3. Steady(d, state', q, task, w, Past) /\ DoneOK(d, state')
    BY <2>2 DEF Steady, TasksOK, ExecutingOK, SeenTo, DoneOK
  <2>4. Needed(state') \in SUBSET (Nodes \X Nodes) /\ \A f \in Needed(state') : state'[f[1]] # "resolved"
    BY DEF Needed
  <2>5. S \subseteq Nodes
    BY <2>1, <2>4, NewNodesFresh
  <2>6. dag' = TryQueue(d2, shape, S) /\ queue' = q \cup Queueable(d2, shape, S)
    BY <1>3
  <2>. HIDE DEF next, S, q
  <2>7. d2 \in Dags /\ Steady(d2, state', q, task, w, Past) /\ DoneOK(d2, state')
    BY <2>1, <2>3, <2>4, AddSteady
  <2>. HIDE DEF d2
  <2>8. /\ dag' \in Dags /\ queue' \in SUBSET Nodes
        /\ Steady(dag', state', queue', task, w, Past) /\ DoneOK(dag', state')
    BY <2>1, <2>5, <2>6, <2>7, TryQueueSteady
  <2>. QED BY <2>2, <2>8
<1>4. \/ single /\ d.members[g] = {} /\ dag' = CleanUp(d, g) /\ state' = st /\ queue' = queue \ {n}
      \/ dag' = d /\ state' = st /\ queue' = queue \ {n}
      \/ \E e \in shape.wires :
           /\ state' = Unresolved(st, {e[2]} \ shape.locked)
           /\ dag' = TryQueue(Add(d, Needed(state'), e[2], g), shape, NewNodes(d, Needed(state'), e[2]) \cup {e[2]})
           /\ queue' = (queue \ {n}) \cup Queueable(Add(d, Needed(state'), e[2], g), shape,
                                                    NewNodes(d, Needed(state'), e[2]) \cup {e[2]})
  BY Zenon DEF Advance, ControlEnds, ControlGoesOn
<1>. QED BY <1>1, <1>2, <1>3, <1>4

LEMMA PopNodeWork ==
  ASSUME PInv, NEW n \in Nodes, PopNode(n)
  PROVE  WorkKept
<1>. DEFINE d == Dropped(dag, n)
            st == [state EXCEPT ![n] = "resolved"]
<1>1. /\ drv.at = "popping" /\ n \in drv.leaves /\ IsDone(n) /\ cur # "error"
      /\ UNCHANGED <<shape, task, cur, single, ran>>
      /\ drv' = [drv EXCEPT !.leaves = drv.leaves \ {n}]
      /\ \/ state[n] = "resolved" /\ dag' = d /\ queue' = queue \ {n} /\ state' = state
         \/ Advance(d, st, n, drv.node)
  BY DEF PopNode, Dropped, PInv, DriverOK
<1>2. /\ drv'.at = "popping" /\ drv'.todo = drv.todo /\ drv'.node = drv.node
      /\ drv'.leaves = drv.leaves \ {n}
  <2>1. drv \in [at : Suspended \cup Holding, node : Graphs, todo : SUBSET Graphs,
                 leaves : SUBSET Nodes, starts : SUBSET Nodes]
    BY DEF PInv, TypeOK
  <2>. QED BY <1>1, <2>1
<1>3. dag.ref[n] = "done" \/ (n \in shape.locked /\ dag.ref[n] # "absent")
  BY <1>1 DEF IsDone, Recorded
<1>4. /\ state \in [Nodes -> {"unresolved", "resolving", "resolved"}]
      /\ Steady(dag, state, queue, task, drv, Past) /\ DoneOK(dag, state)
  BY <1>1, WorkFacts DEF States
<1>5. d \in Dags /\ Steady(d, st, queue \ {n}, task, drv', Past) /\ DoneOK(d, st)
  <2>1. /\ dag \in Dags /\ queue \in SUBSET Nodes /\ Past \in SUBSET Nodes
        /\ drv.todo \in SUBSET Graphs /\ drv.node \in Graphs
    BY WorkFacts
  <2>. QED BY <1>1, <1>2, <1>3, <1>4, <2>1, DropSteady
<1>6. st \in States
  BY WorkFacts DEF States
<1>7. /\ dag' \in Dags /\ state' \in States /\ queue' \in SUBSET Nodes
      /\ Steady(dag', state', queue', task, drv', Past) /\ DoneOK(dag', state')
  <2>1. CASE state[n] = "resolved" /\ dag' = d /\ queue' = queue \ {n} /\ state' = state
    <3>1. st = state
      BY <2>1, WorkFacts DEF States
    <3>2. queue \ {n} \in SUBSET Nodes
      BY WorkFacts
    <3>. HIDE DEF d, st
    <3>. QED BY <2>1, <3>1, <3>2, <1>5, <1>6
  <2>2. CASE Advance(d, st, n, drv.node)
    <3>. HIDE DEF d, st
    <3>. QED BY <2>2, <1>2, <1>5, <1>6, AdvanceWork, WorkFacts
  <2>. QED BY <1>1, <2>1, <2>2
<1>8. Past' = Past
  BY <1>1 DEF Past, Running
<1>. QED BY <1>1, <1>7, <1>8, WorkFrom

-----------------------------------------------------------------------------
(* Failures, cancellations and what ends in its own time.                   *)

LEMMA EnterErrorWork ==
  ASSUME PInv, EnterError
  PROVE  WorkKept
<1>. DEFINE ref == [m \in Nodes |-> IF dag.ref[m] = "queued" THEN "canceled" ELSE dag.ref[m]]
<1>1. /\ drv.at = "failing" /\ UNCHANGED <<shape, state, single, ran>> /\ cur' = "error"
      /\ queue' = {m \in queue : dag.ref[m] # "queued"}
      /\ task' = [m \in Nodes |-> IF m \in ToCancel THEN "cancelling" ELSE task[m]]
      /\ drv'.at = "error"
  BY DEF EnterError, GoTo, Rest
<1>2. dag' = [dag EXCEPT !.ref = ref]
  BY Zenon DEF EnterError
<1>3. /\ ref \in [Nodes -> NodeStates]
      /\ \A m \in Nodes : ref[m] = IF dag.ref[m] = "queued" THEN "canceled" ELSE dag.ref[m]
  BY WorkFacts DEF Dags, NodeStates
<1>. HIDE DEF ref
<1>4. GraphsOK(dag)
  BY WorkFacts DEF Steady
<1>5. /\ dag' \in Dags /\ GraphsOK(dag') /\ dag'.ref = ref
      /\ ExecutingOK(dag, state) => ExecutingOK(dag', state)
      /\ \A r \in SUBSET Nodes : RanOK(dag, r) => RanOK(dag', r)
  BY <1>2, <1>3, <1>4, WorkFacts, ProgressKeeps
<1>6. Running
  BY <1>1 DEF PInv, DriverOK
<1>7. Past' = Past
  BY <1>1, <1>6 DEF Past, Running
<1>8. queue' = {}
  BY <1>1, WorkFacts DEF Steady, QueueOK
<1>9. TasksOK(dag', state, task')
  BY <1>1, <1>3, <1>5, WorkFacts DEF Steady, TasksOK, ToCancel, EveryRunning
<1>10. ExecutingOK(dag', state) /\ RanOK(dag', Past)
  BY <1>5, WorkFacts DEF Steady
<1>11. SeenTo(dag', state, task', drv') /\ SeesAsIs(dag', {}, drv') /\ QueueOK(dag', {})
  BY <1>1 DEF SeenTo, SeesAsIs, Ending, QueueOK
<1>12. Steady(dag', state', queue', task', drv', Past')
  BY <1>1, <1>5, <1>7, <1>8, <1>9, <1>10, <1>11 DEF Steady
<1>. QED BY <1>1, <1>5, <1>8, <1>12, WorkFrom, WorkFacts

(* A run that is torn down gives back what was executing.                  *)
LEMMA TornDownWork ==
  ASSUME PInv, shape' = shape, state' \in States, dag' = EmptyDag, queue' = {}, drv'.at = "idle",
         \A n \in Nodes : task'[n] = "none" /\ state'[n] # "resolving",
         cur' \notin {"dag", "error"}
  PROVE  WorkKept
<1>1. Past' = {}
  BY DEF Past, Running
<1>2. Steady(EmptyDag, state', {}, task', drv', {}) /\ DoneOK(EmptyDag, state')
  BY EmptySteady
<1>. QED BY <1>1, <1>2, EmptyTypes, WorkFrom

LEMMA GivenBackRests ==
  ASSUME NEW st \in States, \A n \in Nodes : st[n] = "resolving" => n \in Recorded(dag)
  PROVE  GivenBack(st) \in States /\ \A n \in Nodes : GivenBack(st)[n] # "resolving"
  BY DEF GivenBack, Unresolved, States

LEMMA ErrorReapsWork ==
  ASSUME PInv, ErrorReaps
  PROVE  WorkKept
<1>. DEFINE after == [m \in Nodes |-> IF m \in Finished /\ task[m] = "ok" THEN "resolved" ELSE state[m]]
            ref == [m \in Nodes |-> IF m \in Finished THEN Reaped(m) ELSE dag.ref[m]]
<1>1. /\ drv.at = "error" /\ cur = "error" /\ queue = {} /\ UNCHANGED <<shape, queue, ran>>
      /\ task' = [m \in Nodes |-> IF m \in Finished THEN "none" ELSE task[m]]
  BY DEF ErrorReaps, PInv, DriverOK
<1>2. /\ after \in States
      /\ \A m \in Nodes : after[m] = IF m \in Finished /\ task[m] = "ok" THEN "resolved" ELSE state[m]
  BY WorkFacts DEF States
<1>3. \A m \in Nodes : after[m] = "resolving" => m \in Recorded(dag)
  BY <1>2, WorkFacts DEF Steady, ExecutingOK, Recorded
<1>4. CASE /\ Mapped \subseteq Finished /\ state' = GivenBack(after)
           /\ \E outcome : Complete(outcome)
  <2>. HIDE DEF after
  <2>1. state' \in States /\ \A m \in Nodes : state'[m] # "resolving"
    BY <1>2, <1>3, <1>4, GivenBackRests
  <2>2. \A m \in Nodes : task'[m] = "none"
    BY <1>1, <1>4 DEF Mapped
  <2>3. dag' = EmptyDag /\ drv'.at = "idle" /\ cur' = "complete"
    BY <1>4 DEF Complete, Rest
  <2>. QED BY <1>1, <2>1, <2>2, <2>3, TornDownWork
<1>5. CASE /\ state' = after /\ dag' = [dag EXCEPT !.ref = ref] /\ UNCHANGED <<cur, single>>
           /\ drv'.at = "error"
  <2>1. \A m \in Finished : m \in Nodes /\ dag.ref[m] = "processing"
    BY WorkFacts DEF Steady, TasksOK, Finished, Ended
  <2>2. \A m \in Finished : Reaped(m) \in {"done", "errored", "canceled"}
    BY DEF Reaped, Finished, Ended
  <2>3. /\ ref \in [Nodes -> NodeStates]
        /\ \A m \in Nodes : ref[m] = IF m \in Finished THEN Reaped(m) ELSE dag.ref[m]
    BY <2>2, WorkFacts DEF Dags, NodeStates
  <2>. HIDE DEF ref, after
  <2>4. GraphsOK(dag)
    BY WorkFacts DEF Steady
  <2>5. /\ dag' \in Dags /\ GraphsOK(dag') /\ dag'.ref = ref
        /\ ExecutingOK(dag, state) => ExecutingOK(dag', state)
        /\ \A r \in SUBSET Nodes : RanOK(dag, r) => RanOK(dag', r)
    <3>1. \A n \in Nodes : \/ ref[n] = dag.ref[n]
                          \/ /\ dag.ref[n] \in {"queued", "processing"}
                             /\ ref[n] \in {"processing", "done", "errored", "canceled"}
      BY <2>1, <2>2, <2>3
    <3>2. dag \in Dags /\ state \in States
      BY WorkFacts
    <3>. QED BY SMTT(60), <1>5, <2>3, <2>4, <3>1, <3>2, ProgressKeeps
  <2>6. TasksOK(dag', state', task')
    BY <1>1, <1>2, <1>5, <2>3, <2>5, WorkFacts DEF Steady, TasksOK
  <2>7. ExecutingOK(dag', state')
    <3>1. ExecutingOK(dag', state)
      BY <2>5, WorkFacts DEF Steady
    <3>. QED BY <3>1, <1>2, <1>5 DEF ExecutingOK
  <2>8. RanOK(dag', Past')
    <3>1. Past' = Past
      BY <1>1, <1>5 DEF Past, Running
    <3>. QED BY <3>1, <2>5, WorkFacts DEF Steady
  <2>9. SeenTo(dag', state', task', drv') /\ SeesAsIs(dag', {}, drv') /\ QueueOK(dag', {})
    BY <1>5 DEF SeenTo, SeesAsIs, Ending, QueueOK
  <2>10. Steady(dag', state', queue', task', drv', Past')
    BY <1>1, <2>5, <2>6, <2>7, <2>8, <2>9 DEF Steady
  <2>. QED BY <1>1, <1>2, <1>5, <2>5, <2>10, WorkFrom, WorkFacts
<1>. QED BY <1>4, <1>5 DEF ErrorReaps, GoTo, Rest

(* Tasks that change but stay in the task map.                             *)
LEMMA TasksMoveWork ==
  ASSUME PInv,
         \/ \E n \in Nodes : TaskEnds(n)
         \/ CancelTasks /\ Mapped # {}
  PROVE  WorkKept
<1>1. UNCHANGED <<shape, state, dag, queue, cur, single, drv, ran>>
  BY DEF TaskEnds, CancelTasks
<1>2. \A m \in Nodes : task'[m] = "none" <=> task[m] = "none"
  BY DEF TaskEnds, CancelTasks, PInv, TypeOK, Live, Ended
<1>3. Past' = Past
  BY <1>1 DEF Past, Running
<1>4. Steady(dag, state, queue, task', drv, Past)
  BY <1>2, WorkFacts DEF Steady, TasksOK, SeenTo
<1>. QED BY <1>1, <1>3, <1>4, WorkFrom, WorkFacts

LEMMA ResetWork ==
  ASSUME PInv, Reset
  PROVE  WorkKept
<1>1. \A n \in Nodes : state[n] = "resolving" => n \in Recorded(dag)
  BY WorkFacts DEF Steady, ExecutingOK, Recorded
<1>2. state' \in States /\ \A n \in Nodes : state'[n] # "resolving"
  BY <1>1, GivenBackRests, WorkFacts DEF Reset
<1>3. /\ \A n \in Nodes : task'[n] = "none"
      /\ shape' = shape /\ dag' = EmptyDag /\ queue' = {} /\ cur' = "none" /\ drv'.at = "idle"
  BY DEF Reset, Rest
<1>. QED BY <1>2, <1>3, TornDownWork

LEMMA CancellerWork ==
  ASSUME PInv, Canceller
  PROVE  WorkKept
<1>1. CASE Reset
  BY <1>1, ResetWork
<1>2. CASE CancelTasks /\ Mapped # {}
  BY <1>2, TasksMoveWork
<1>3. CASE CancelRaises
  BY <1>3, AsideWork
<1>4. Reset \/ (CancelTasks /\ Mapped # {}) \/ CancelRaises
  BY Zenon DEF Canceller, CancelTasks, CancelEnds
<1>. QED BY <1>1, <1>2, <1>3, <1>4

LEMMA StepWork ==
  ASSUME MachineAssumption, PInv, [Next]_vars
  PROVE  WorkKept
<1>1. CASE \E n \in Nodes : SeedEntry(n) \/ SeedSink(n) \/ SeedDeferred(n)
  BY <1>1, SeedWork, SeedDeferredWork
<1>2. CASE EnterDag \/ Update \/ Dispatch \/ Wake \/ LeaveGraph \/ PopEnds
  BY <1>2, EnterDagWork, UpdateWork, DispatchWork, WakeWork, LeaveGraphWork, PopEndsWork
<1>3. CASE \E n \in Nodes : Take(n) \/ CollectFails(n) \/ WakeToFailure(n) \/ PopNode(n)
  BY <1>3, DrainWork, WakeToFailureWork, PopNodeWork
<1>4. CASE Wait \/ ValidationFails \/ Recheck
  BY <1>4, DrainWork
<1>5. CASE \E g \in Graphs : PopGraph(g)
  BY <1>5, PopGraphWork
<1>6. CASE EnterError \/ ErrorReaps
  BY <1>6, EnterErrorWork, ErrorReapsWork
<1>7. CASE \/ ErrorWaits \/ ErrorWakes \/ Pause \/ Continue \/ CancelRun
           \/ \E n \in Nodes : OrphanEnds(n) \/ ValidatedLate(n)
           \/ UNCHANGED vars
  BY <1>7, AsideWork
<1>8. CASE \E n \in Nodes : StartFlow(n) \/ TaskEnds(n)
  BY <1>8, StartFlowWork, TasksMoveWork
<1>9. CASE \E n \in Requests : ResolveNode(n) \/ Join(n) \/ ResolveInvalid(n)
  <2>1. Requests \subseteq Nodes
    BY DEF MachineAssumption
  <2>. QED BY <1>9, <2>1, ResolveNodeWork, JoinWork, ResolveInvalidWork
<1>10. CASE Canceller
  BY <1>10, CancellerWork
<1>. QED BY <1>1, <1>2, <1>3, <1>4, <1>5, <1>6, <1>7, <1>8, <1>9, <1>10 DEF Next, Driver

-----------------------------------------------------------------------------
(* The machine's state, the slots and the types.                            *)

LEMMA StepDriver ==
  ASSUME MachineAssumption, PInv, WorkKept, [Next]_vars
  PROVE  DriverOK'
<1>. USE DEF DriverOK, Running, Ending
<1>0. DriverOK
  BY DEF PInv
<1>1. CASE \E n \in Nodes : SeedEntry(n) \/ SeedSink(n)
  <2>1. drv.at = "seed" /\ UNCHANGED machineVars
    BY <1>1 DEF SeedEntry, SeedSink
  <2>2. drv'.at = "seed"
    <3>1. drv \in [at : Suspended \cup Holding, node : Graphs, todo : SUBSET Graphs,
                   leaves : SUBSET Nodes, starts : SUBSET Nodes]
      BY DEF PInv, TypeOK
    <3>. QED BY <1>1, <2>1, <3>1 DEF SeedEntry, SeedSink
  <2>. QED BY <1>0, <2>1, <2>2 DEF machineVars
<1>2. CASE \E n \in Nodes : SeedDeferred(n)
  BY <1>0, <1>2 DEF SeedDeferred, GoTo, Rest
<1>3. CASE EnterDag
  BY <1>0, <1>3 DEF EnterDag, GoTo, Rest
<1>4. CASE Update
  <2>1. drv.at = "update" /\ queue' = queue /\ failing' = failing
    BY <1>4 DEF Update
  <2>2. CASE cur' = cur /\ drv'.at \in {"idle", "sinks", "drain"}
    BY <1>0, <2>1, <2>2
  <2>3. CASE cur' = "complete" /\ dag' = EmptyDag /\ drv'.at = "idle"
    <3>1. queue' = {}
      <4>1. \A n \in queue' : EmptyDag.ref[n] = "queued"
        BY <2>3 DEF WorkKept, WorkOK, Steady, QueueOK
      <4>. QED BY <4>1 DEF EmptyDag, WorkKept
    <3>. QED BY <2>3, <3>1
  <2>. QED BY <1>4, <2>2, <2>3 DEF Update, GoTo, Rest, Complete
<1>5. CASE Wait \/ ValidationFails \/ Recheck \/ \E n \in Nodes : Take(n) \/ CollectFails(n)
  <2>1. /\ drv.at \in {"drain", "validating", "parked"} /\ cur' = cur
        /\ drv'.at \in {"validating", "failing", "parked", "waiting", "pop"}
    BY <1>5 DEF Wait, ValidationFails, Recheck, Take, CollectFails, Fail, GoTo, StartPop, Rest, machineVars
  <2>2. failing' = failing \/ drv'.at = "failing"
    BY <1>5 DEF Wait, ValidationFails, Recheck, Take, CollectFails, Fail, GoTo, Rest, machineVars
  <2>. QED BY <1>0, <2>1, <2>2
<1>6. CASE Dispatch \/ Wake \/ LeaveGraph \/ PopEnds \/ \E n \in Nodes : WakeToFailure(n)
  <2>1. /\ drv.at \in {"validating", "waiting", "popping", "pop"} /\ cur' = cur
        /\ drv'.at \in {"drain", "pop", "idle", "update", "failing"}
    BY <1>6 DEF Dispatch, Wake, LeaveGraph, PopEnds, WakeToFailure, Fail, GoTo, StartPop, Rest, machineVars
  <2>2. failing' = failing \/ drv'.at = "failing"
    BY <1>6 DEF Dispatch, Wake, LeaveGraph, PopEnds, WakeToFailure, Fail, GoTo, Rest, machineVars
  <2>. QED BY <1>0, <2>1, <2>2
<1>7. CASE (\E n \in Nodes : PopNode(n)) \/ \E g \in Graphs : PopGraph(g)
  <2>1. drv \in [at : Suspended \cup Holding, node : Graphs, todo : SUBSET Graphs,
                 leaves : SUBSET Nodes, starts : SUBSET Nodes]
    BY DEF PInv, TypeOK
  <2>2. drv.at \in {"pop", "popping"} /\ drv'.at = "popping" /\ UNCHANGED <<cur, failing>>
    BY <1>7, <2>1 DEF PopNode, PopGraph, machineVars
  <2>. QED BY <1>0, <2>2
<1>8. CASE EnterError
  <2>1. queue' = {}
    BY <1>8, WorkFacts DEF EnterError, Steady, QueueOK
  <2>. QED BY <1>0, <1>8, <2>1 DEF EnterError, GoTo, Rest
<1>9. CASE ErrorReaps
  BY <1>0, <1>9 DEF ErrorReaps, Complete, GoTo, Rest
<1>10. CASE ErrorWaits \/ ErrorWakes
  BY <1>0, <1>10 DEF ErrorWaits, ErrorWakes, GoTo, Rest, machineVars
<1>11. CASE \E n \in Nodes : StartFlow(n) \/ ResolveNode(n)
  <2>1. cur' = "dag" /\ failing' = FALSE /\ drv'.at = "seed"
    BY <1>11 DEF StartFlow, ResolveNode, NewMachine, Rest
  <2>. QED BY <2>1
<1>12. CASE \E n \in Nodes : TaskEnds(n) \/ OrphanEnds(n) \/ ValidatedLate(n)
  BY <1>0, <1>12 DEF TaskEnds, OrphanEnds, ValidatedLate, machineVars
<1>13. CASE \E n \in Nodes : Join(n) \/ ResolveInvalid(n)
  BY <1>0, <1>13 DEF Join, ResolveInvalid, machineVars
<1>14. CASE Pause \/ CancelRun \/ UNCHANGED vars
  BY <1>0, <1>14 DEF Pause, CancelRun, vars, machineVars
<1>15. CASE Continue
  BY <1>0, <1>15 DEF Continue, GoTo, Rest
<1>16. CASE Canceller
  <2>1. CASE Reset
    BY <2>1 DEF Reset, Rest
  <2>2. CASE UNCHANGED <<dag, queue, cur, failing, drv>>
    BY <1>0, <2>2
  <2>. QED BY <1>16, <2>1, <2>2 DEF Canceller, CancelTasks, CancelRaises, CancelEnds, machineVars
<1>17. Requests \subseteq Nodes
  BY DEF MachineAssumption
<1>. QED BY <1>1, <1>2, <1>3, <1>4, <1>5, <1>6, <1>7, <1>8, <1>9, <1>10, <1>11, <1>12, <1>13,
            <1>14, <1>15, <1>16, <1>17 DEF Next, Driver

SlotsKept == count' \in 0..Capacity /\ SlotsBalance'

LEMMA MappedFinite ==
  ASSUME GraphsAssumption, NEW M \in SUBSET Nodes
  PROVE  IsFiniteSet(M) /\ Cardinality(M) \in Nat
  BY FS_Subset, FS_CardinalityType DEF GraphsAssumption

LEMMA SlotsFacts ==
  ASSUME GraphsAssumption, MachineAssumption, PInv
  PROVE  /\ count \in 0..Capacity /\ Capacity \in Nat
         /\ Mapped \in SUBSET Nodes /\ Cardinality(Mapped) \in Nat
         /\ drv.at = "validating" => count = Cardinality(Mapped) + 1
         /\ drv.at # "validating" => count = Cardinality(Mapped)
<1>1. Mapped \in SUBSET Nodes
  BY DEF Mapped
<1>2. Cardinality(Mapped) \in Nat
  BY <1>1, MappedFinite
<1>. QED BY <1>1, <1>2 DEF PInv, TypeOK, SlotsBalance, MachineAssumption

(* A slot is counted for the node to be validated, kept when it is         *)
(* dispatched and given back when it is not.                               *)
LEMMA StartSlots ==
  ASSUME GraphsAssumption, MachineAssumption, PInv,
         Dispatch \/ ValidationFails \/ \E n \in Nodes : Take(n)
  PROVE  SlotsKept
<1>1. CASE \E n \in Nodes : Take(n)
  <2>1. /\ drv.at = "drain" /\ count < Capacity /\ count' = count + 1 /\ task' = task
        /\ drv'.at = "validating"
    BY <1>1 DEF Take, Room, Rest
  <2>2. Mapped' = Mapped
    BY <2>1 DEF Mapped
  <2>. QED BY <2>1, <2>2, SlotsFacts DEF SlotsKept, SlotsBalance
<1>2. CASE Dispatch
  <2>. DEFINE n == drv.node
  <2>1. /\ drv.at = "validating" /\ count' = count /\ task' = [task EXCEPT ![n] = "running"]
        /\ drv'.at = "drain"
    BY <1>2 DEF Dispatch, GoTo, Rest
  <2>2. n \in Nodes /\ dag.ref[n] = "queued"
    BY <2>1, WorkFacts DEF Steady, SeesAsIs
  <2>3. task[n] = "none"
    BY <2>2, WorkFacts DEF Steady, TasksOK
  <2>4. Mapped' = Mapped \cup {n} /\ n \notin Mapped
    BY <2>1, <2>2, <2>3 DEF Mapped, PInv, TypeOK
  <2>5. Cardinality(Mapped') = Cardinality(Mapped) + 1
    BY <2>4, SlotsFacts, MappedFinite, FS_AddElement
  <2>. QED BY <2>1, <2>5, SlotsFacts DEF SlotsKept, SlotsBalance
<1>3. CASE ValidationFails
  <2>1. drv.at = "validating" /\ count' = count - 1 /\ task' = task /\ drv'.at = "failing"
    BY <1>3 DEF ValidationFails, Fail, GoTo, Rest
  <2>2. Mapped' = Mapped
    BY <2>1 DEF Mapped
  <2>. QED BY <2>1, <2>2, SlotsFacts DEF SlotsKept, SlotsBalance
<1>. QED BY <1>1, <1>2, <1>3

(* A slot is given back with the task that is taken.                       *)
LEMMA EndSlots ==
  ASSUME GraphsAssumption, MachineAssumption, PInv,
         Wake \/ ErrorReaps \/ \E n \in Nodes : WakeToFailure(n)
  PROVE  SlotsKept
<1>1. ASSUME NEW n \in Nodes, WakeToFailure(n) PROVE SlotsKept
  <2>1. /\ drv.at = "waiting" /\ count' = count - 1 /\ task' = [task EXCEPT ![n] = "none"]
        /\ drv'.at = "failing" /\ task[n] # "none"
    BY <1>1 DEF WakeToFailure, Fail, GoTo, Rest
  <2>2. Mapped' = Mapped \ {n} /\ n \in Mapped
    BY <2>1 DEF Mapped, PInv, TypeOK
  <2>3. Cardinality(Mapped') = Cardinality(Mapped) - 1
    BY <2>2, SlotsFacts, MappedFinite, FS_RemoveElement
  <2>4. Cardinality(Mapped') \in Nat
    BY <2>2, SlotsFacts, MappedFinite
  <2>. QED BY <2>1, <2>3, <2>4, SlotsFacts DEF SlotsKept, SlotsBalance
<1>2. CASE Wake \/ ErrorReaps
  <2>1. /\ drv.at \in {"waiting", "error"} /\ count' = count - Cardinality(Finished)
        /\ task' = [n \in Nodes |-> IF n \in Finished THEN "none" ELSE task[n]]
        /\ drv'.at \in {"pop", "error", "idle"}
    <3>1. CASE Wake
      BY <3>1 DEF Wake, StartPop, Rest
    <3>2. CASE ErrorReaps
      <4>1. drv'.at \in {"error", "idle"}
        BY <3>2 DEF ErrorReaps, Complete, GoTo, Rest
      <4>. QED BY <3>2, <4>1 DEF ErrorReaps
    <3>. QED BY <1>2, <3>1, <3>2
  <2>2. Mapped' = Mapped \ Finished
    BY <2>1 DEF Mapped
  <2>3. Finished \in SUBSET Nodes /\ Mapped \cap Finished = Finished
    BY DEF Mapped, Finished, Ended
  <2>4. /\ Cardinality(Mapped') = Cardinality(Mapped) - Cardinality(Finished)
        /\ Cardinality(Mapped') \in Nat /\ Cardinality(Finished) \in Nat
    BY <2>2, <2>3, SlotsFacts, MappedFinite, FS_Difference
  <2>. QED BY <2>1, <2>4, SlotsFacts DEF SlotsKept, SlotsBalance
<1>. QED BY <1>1, <1>2

(* A new machine and one that is torn down hold nothing.                   *)
LEMMA NoSlots ==
  ASSUME MachineAssumption, count' = 0, task' = [n \in Nodes |-> "none"], drv'.at # "validating"
  PROVE  SlotsKept
<1>1. Mapped' = {}
  BY DEF Mapped
<1>. QED BY <1>1, FS_EmptySet DEF SlotsKept, SlotsBalance, MachineAssumption

(* Every other step keeps the tasks there are and starts no validation.    *)
LEMMA SameSlots ==
  ASSUME PInv, count' = count, \A n \in Nodes : task'[n] = "none" <=> task[n] = "none",
         drv'.at = "validating" <=> drv.at = "validating"
  PROVE  SlotsKept
<1>1. Mapped' = Mapped
  BY DEF Mapped
<1>. QED BY <1>1 DEF SlotsKept, SlotsBalance, PInv, TypeOK

LEMMA DriverSlots ==
  ASSUME GraphsAssumption, MachineAssumption, PInv, Driver
  PROVE  SlotsKept
<1>1. CASE Dispatch \/ ValidationFails \/ \E n \in Nodes : Take(n)
  BY <1>1, StartSlots
<1>2. CASE Wake \/ ErrorReaps \/ \E n \in Nodes : WakeToFailure(n)
  BY <1>2, EndSlots
<1>3. CASE \E n \in Nodes : SeedEntry(n) \/ SeedSink(n) \/ PopNode(n)
  <2>1. drv \in [at : Suspended \cup Holding, node : Graphs, todo : SUBSET Graphs,
                 leaves : SUBSET Nodes, starts : SUBSET Nodes]
    BY DEF PInv, TypeOK
  <2>2. count' = count /\ task' = task
    BY <1>3 DEF SeedEntry, SeedSink, PopNode, machineVars
  <2>3. drv.at # "validating" /\ drv'.at = drv.at
    BY <1>3, <2>1 DEF SeedEntry, SeedSink, PopNode
  <2>. QED BY <2>2, <2>3, SameSlots
<1>4. CASE \E g \in Graphs : PopGraph(g)
  <2>1. drv \in [at : Suspended \cup Holding, node : Graphs, todo : SUBSET Graphs,
                 leaves : SUBSET Nodes, starts : SUBSET Nodes]
    BY DEF PInv, TypeOK
  <2>2. count' = count /\ task' = task /\ drv.at = "pop" /\ drv'.at = "popping"
    BY <1>4, <2>1 DEF PopGraph, machineVars
  <2>. QED BY <2>2, SameSlots
<1>5. CASE EnterError
  <2>1. count' = count /\ drv.at = "failing" /\ drv'.at = "error"
    BY <1>5 DEF EnterError, GoTo, Rest
  <2>2. \A n \in Nodes : task'[n] = "none" <=> task[n] = "none"
    BY <1>5 DEF EnterError, ToCancel, EveryRunning
  <2>. QED BY <2>1, <2>2, SameSlots
<1>6. CASE \/ EnterDag \/ Update \/ Wait \/ Recheck \/ LeaveGraph \/ PopEnds \/ ErrorWaits \/ ErrorWakes
           \/ \E n \in Nodes : SeedDeferred(n) \/ CollectFails(n)
  <2>1. count' = count /\ task' = task
    BY <1>6 DEF EnterDag, Update, Wait, Recheck, LeaveGraph, PopEnds, ErrorWaits, ErrorWakes,
                SeedDeferred, CollectFails, machineVars
  <2>2. drv.at # "validating"
    BY <1>6 DEF EnterDag, Update, Wait, Recheck, LeaveGraph, PopEnds, ErrorWaits, ErrorWakes,
                SeedDeferred, CollectFails
  <2>3. drv'.at # "validating"
    <3>1. CASE Update
      BY <3>1 DEF Update, Complete, GoTo, Rest
    <3>2. CASE Recheck \/ LeaveGraph
      BY <3>2 DEF Recheck, LeaveGraph, StartPop, Rest
    <3>3. CASE EnterDag \/ Wait \/ PopEnds \/ ErrorWaits \/ ErrorWakes
      BY <3>3 DEF EnterDag, Wait, PopEnds, ErrorWaits, ErrorWakes, GoTo, Rest
    <3>4. CASE \E n \in Nodes : SeedDeferred(n) \/ CollectFails(n)
      BY <3>4 DEF SeedDeferred, CollectFails, Fail, GoTo, Rest
    <3>. QED BY <1>6, <3>1, <3>2, <3>3, <3>4
  <2>. QED BY <2>1, <2>2, <2>3, SameSlots
<1>. QED BY <1>1, <1>2, <1>3, <1>4, <1>5, <1>6 DEF Driver

LEMMA StepSlots ==
  ASSUME GraphsAssumption, MachineAssumption, PInv, [Next]_vars
  PROVE  SlotsKept
<1>1. CASE Driver
  BY <1>1, DriverSlots
<1>2. CASE \E n \in Nodes : StartFlow(n) \/ ResolveNode(n)
  <2>1. count' = 0 /\ task' = [n \in Nodes |-> "none"] /\ drv'.at = "seed"
    BY <1>2 DEF StartFlow, ResolveNode, NewMachine, Rest
  <2>. QED BY <2>1, NoSlots
<1>3. CASE Canceller
  <2>1. CASE Reset
    BY <2>1, NoSlots DEF Reset, Rest
  <2>2. CASE CancelTasks /\ Mapped # {}
    <3>1. count' = count /\ drv' = drv
      BY <2>2 DEF CancelTasks
    <3>2. \A n \in Nodes : task'[n] = "none" <=> task[n] = "none"
      BY <2>2 DEF CancelTasks
    <3>. QED BY <3>1, <3>2, SameSlots
  <2>3. CASE CancelRaises
    BY <2>3, SameSlots DEF CancelRaises, machineVars
  <2>4. Reset \/ (CancelTasks /\ Mapped # {}) \/ CancelRaises
    BY <1>3, Zenon DEF Canceller, CancelTasks, CancelEnds
  <2>. QED BY <2>1, <2>2, <2>3, <2>4
<1>4. CASE \E n \in Nodes : TaskEnds(n)
  <2>1. count' = count /\ drv' = drv
    BY <1>4 DEF TaskEnds
  <2>2. \A n \in Nodes : task'[n] = "none" <=> task[n] = "none"
    BY <1>4 DEF TaskEnds, PInv, TypeOK, Live, Ended
  <2>. QED BY <2>1, <2>2, SameSlots
<1>5. CASE \/ \E n \in Nodes : OrphanEnds(n) \/ ValidatedLate(n) \/ Join(n) \/ ResolveInvalid(n)
           \/ Pause \/ CancelRun \/ UNCHANGED vars
  <2>1. count' = count /\ drv' = drv /\ task' = task
    BY <1>5 DEF OrphanEnds, ValidatedLate, Join, ResolveInvalid, Pause, CancelRun, vars, machineVars
  <2>. QED BY <2>1, SameSlots
<1>6. CASE Continue
  <2>1. count' = count /\ task' = task
    BY <1>6 DEF Continue
  <2>2. drv' = drv \/ (drv.at = "idle" /\ drv'.at \in {"update", "error"})
    BY <1>6 DEF Continue, GoTo, Rest
  <2>. QED BY <2>1, <2>2, SameSlots
<1>7. Requests \subseteq Nodes
  BY DEF MachineAssumption
<1>. QED BY <1>1, <1>2, <1>3, <1>4, <1>5, <1>6, <1>7 DEF Next

Drivers == [at : Suspended \cup Holding, node : Graphs, todo : SUBSET Graphs,
            leaves : SUBSET Nodes, starts : SUBSET Nodes]
Cancellers == [at : {"none", "asking", "gathering"}, nodes : SUBSET Nodes]

(* The rest of TypeOK, which no step's work on the graphs touches.         *)
TaskTypes == task \in [Nodes -> {"none"} \cup Live \cup Ended]
MachineTypes ==
  /\ newWork \in BOOLEAN /\ failing \in BOOLEAN /\ paused \in BOOLEAN /\ single \in BOOLEAN
  /\ cur \in {"none", "dag", "error", "complete"}
  /\ wfs \in {"no_error", "complete", "errored", "canceled"}
SetTypes ==
  /\ swept \subseteq Nodes /\ orphans \subseteq Nodes /\ late \subseteq Nodes
  /\ ran \subseteq Nodes /\ refused \subseteq Nodes /\ outdated \subseteq Nodes
DriverTypes == drv \in Drivers /\ cancel \in Cancellers

LEMMA TypeParts ==
  PInv => TaskTypes /\ MachineTypes /\ SetTypes /\ DriverTypes /\ shape \in WorkflowShapes
  BY DEF PInv, TypeOK, TaskTypes, MachineTypes, SetTypes, DriverTypes, Drivers, Cancellers

LEMMA GoToTypes ==
  ASSUME NEW label \in Suspended \cup Holding, GoTo(label)
  PROVE  drv' \in Drivers
  BY DEF GoTo, Rest, Drivers, Graphs

LEMMA StepTasks ==
  ASSUME PInv, [Next]_vars
  PROVE  TaskTypes'
<1>. USE DEF TaskTypes, Live, Ended
<1>1. TaskTypes
  BY TypeParts
<1>2. CASE \/ task' = task
           \/ task' = [n \in Nodes |-> "none"]
           \/ task' = [n \in Nodes |-> IF n \in Finished THEN "none" ELSE task[n]]
           \/ task' = [n \in Nodes |-> IF n \in ToCancel THEN "cancelling" ELSE task[n]]
           \/ task' = [n \in Nodes |-> IF task[n] = "running" THEN "cancelling" ELSE task[n]]
           \/ \E n \in Graphs, to \in {"none", "running", "ok", "failed", "cancelled"} :
                task' = [task EXCEPT ![n] = to]
  BY <1>1, <1>2
<1>3. CASE Driver
  <2>1. CASE Dispatch
    BY <1>2, <2>1, TypeParts DEF Dispatch, DriverTypes, Drivers
  <2>2. CASE \E n \in Nodes : WakeToFailure(n)
    BY <1>2, <2>2 DEF WakeToFailure, Graphs
  <2>3. CASE Wake \/ ErrorReaps \/ EnterError
    BY <1>2, <2>3 DEF Wake, ErrorReaps, EnterError
  <2>4. CASE \/ EnterDag \/ Update \/ Wait \/ ValidationFails \/ Recheck \/ LeaveGraph \/ PopEnds
             \/ ErrorWaits \/ ErrorWakes
             \/ \E n \in Nodes : SeedEntry(n) \/ SeedSink(n) \/ SeedDeferred(n) \/ Take(n)
                                   \/ CollectFails(n) \/ PopNode(n)
             \/ \E g \in Graphs : PopGraph(g)
    <3>1. task' = task
      BY <2>4 DEF EnterDag, Update, Wait, ValidationFails, Recheck, LeaveGraph, PopEnds, ErrorWaits,
                  ErrorWakes, SeedEntry, SeedSink, SeedDeferred, Take, CollectFails, PopNode,
                  PopGraph, machineVars
    <3>. QED BY <1>2, <3>1
  <2>. QED BY <1>3, <2>1, <2>2, <2>3, <2>4 DEF Driver
<1>4. CASE (\E n \in Nodes : StartFlow(n) \/ TaskEnds(n)) \/ (\E n \in Requests : ResolveNode(n))
  BY <1>2, <1>4 DEF StartFlow, ResolveNode, NewMachine, TaskEnds, Graphs
<1>5. CASE Canceller
  BY <1>2, <1>5 DEF Canceller, CancelTasks, CancelRaises, CancelEnds, Reset, machineVars
<1>6. CASE \/ \E n \in Nodes : OrphanEnds(n) \/ ValidatedLate(n)
           \/ \E n \in Requests : Join(n) \/ ResolveInvalid(n)
           \/ Pause \/ Continue \/ CancelRun \/ UNCHANGED vars
  BY <1>2, <1>6 DEF OrphanEnds, ValidatedLate, Join, ResolveInvalid, Pause, Continue, CancelRun,
                    vars, machineVars
<1>. QED BY <1>3, <1>4, <1>5, <1>6 DEF Next

LEMMA StepMachine ==
  ASSUME PInv, [Next]_vars
  PROVE  MachineTypes'
<1>1. MachineTypes
  BY Zenon, TypeParts
<1>. USE DEF MachineTypes
<1>2. CASE \E n \in Nodes : SeedEntry(n) \/ SeedSink(n) \/ SeedDeferred(n) \/ Take(n) \/ PopNode(n)
  BY <1>1, <1>2 DEF SeedEntry, SeedSink, SeedDeferred, Take, PopNode, machineVars
<1>3. CASE \E n \in Nodes : CollectFails(n) \/ WakeToFailure(n)
  <2>1. CASE \E n \in Nodes : CollectFails(n)
    BY ZenonT(60), <1>1, <2>1 DEF CollectFails, Fail
  <2>2. CASE \E n \in Nodes : WakeToFailure(n)
    <3>1. /\ (failing' = TRUE /\ wfs' = "errored") \/ UNCHANGED <<wfs, failing>>
          /\ UNCHANGED <<newWork, cur, paused, single>>
      BY ZenonT(60), <2>2 DEF WakeToFailure, Fail
    <3>. QED BY ZenonT(60), <1>1, <3>1
  <2>. QED BY <1>3, <2>1, <2>2
<1>4. CASE EnterDag \/ Wait \/ Recheck \/ LeaveGraph \/ PopEnds \/ \E g \in Graphs : PopGraph(g)
  <2>1. UNCHANGED <<newWork, cur, wfs, failing, paused, single>>
    BY ZenonT(60), <1>4 DEF EnterDag, Wait, Recheck, LeaveGraph, PopEnds, PopGraph, machineVars
  <2>. QED BY Zenon, <1>1, <2>1
<1>5. CASE Update \/ ErrorReaps
  BY <1>1, <1>5 DEF Update, ErrorReaps, Complete
<1>6. CASE Dispatch \/ ValidationFails \/ Wake \/ EnterError \/ ErrorWaits \/ ErrorWakes
  BY <1>1, <1>6 DEF Dispatch, ValidationFails, Wake, EnterError, ErrorWaits, ErrorWakes, Fail, machineVars
<1>7. CASE (\E n \in Nodes : StartFlow(n)) \/ \E n \in Requests : ResolveNode(n)
  BY <1>1, <1>7 DEF StartFlow, ResolveNode, NewMachine
<1>8. CASE Canceller
  BY <1>1, <1>8 DEF Canceller, CancelTasks, CancelRaises, CancelEnds, Reset, machineVars
<1>9. CASE \/ \E n \in Nodes : TaskEnds(n) \/ OrphanEnds(n) \/ ValidatedLate(n)
           \/ \E n \in Requests : ResolveInvalid(n)
           \/ CancelRun \/ UNCHANGED vars
  BY <1>1, <1>9 DEF TaskEnds, OrphanEnds, ValidatedLate, ResolveInvalid, CancelRun, vars, machineVars
<1>10. CASE (\E n \in Requests : Join(n)) \/ Pause \/ Continue
  <2>1. CASE \E n \in Requests : Join(n)
    <3>1. newWork' \in {newWork, TRUE} /\ UNCHANGED <<cur, wfs, failing, paused, single>>
      BY ZenonT(60), <2>1 DEF Join
    <3>. QED BY <1>1, <3>1
  <2>2. CASE Pause \/ Continue
    BY ZenonT(60), <1>1, <2>2 DEF Pause, Continue
  <2>. QED BY <1>10, <2>1, <2>2
<1>. QED BY <1>2, <1>3, <1>4, <1>5, <1>6, <1>7, <1>8, <1>9, <1>10 DEF Next, Driver

LEMMA StepSets ==
  ASSUME MachineAssumption, PInv, [Next]_vars
  PROVE  SetTypes'
<1>. USE DEF SetTypes
<1>1. SetTypes /\ Requests \subseteq Nodes
  BY TypeParts DEF MachineAssumption
<1>2. CASE \E n \in Nodes : SeedEntry(n) \/ SeedSink(n) \/ SeedDeferred(n) \/ Take(n) \/ PopNode(n)
  BY <1>1, <1>2 DEF SeedEntry, SeedSink, SeedDeferred, Take, PopNode, machineVars
<1>3. CASE \E n \in Nodes : CollectFails(n) \/ WakeToFailure(n)
  BY <1>1, <1>3 DEF CollectFails, WakeToFailure
<1>4. CASE EnterDag \/ Update \/ Wait \/ Recheck \/ LeaveGraph \/ PopEnds \/ \E g \in Graphs : PopGraph(g)
  BY <1>1, <1>4 DEF EnterDag, Update, Wait, Recheck, LeaveGraph, PopEnds, PopGraph, machineVars
<1>5. CASE Dispatch
  <2>1. drv.node \in Nodes
    BY <1>5, WorkFacts DEF Dispatch, Steady, SeesAsIs
  <2>2. Walk(drv.node, swept) \subseteq Nodes /\ Reach(Flowing, {drv.node}) \subseteq Nodes
    BY DEF Walk, Reach
  <2>3. /\ swept' = swept \cup Walk(drv.node, swept) /\ ran' = ran \cup {drv.node}
        /\ outdated' = outdated \cup (Reach(Flowing, {drv.node}) \ {drv.node})
        /\ UNCHANGED <<orphans, late, refused>>
    BY <1>5 DEF Dispatch
  <2>. QED BY <1>1, <2>1, <2>2, <2>3
<1>6. CASE ValidationFails \/ Wake \/ EnterError \/ ErrorWaits \/ ErrorWakes \/ ErrorReaps
  BY <1>1, <1>6 DEF ValidationFails, Wake, EnterError, ErrorWaits, ErrorWakes, ErrorReaps, machineVars
<1>7. CASE (\E n \in Nodes : StartFlow(n)) \/ \E n \in Requests : ResolveNode(n)
  BY <1>1, <1>7 DEF StartFlow, ResolveNode, NewMachine
<1>8. CASE Reset
  <2>1. drv.at = "validating" => drv.node \in Nodes
    BY WorkFacts DEF Steady, SeesAsIs
  <2>. QED BY <1>1, <1>8, <2>1 DEF Reset
<1>9. CASE Canceller /\ ~Reset
  BY <1>1, <1>9 DEF Canceller, CancelTasks, CancelRaises, CancelEnds, machineVars
<1>10. CASE \E n \in Requests : Join(n)
  <2>1. PICK n \in Nodes : Join(n)
    BY <1>1, <1>10
  <2>2. refused' = refused \cup {n} \/ refused' = refused \ {n}
    BY <2>1 DEF Join
  <2>3. UNCHANGED <<swept, orphans, late, ran, outdated>>
    BY <2>1 DEF Join
  <2>. QED BY <1>1, <2>2, <2>3
<1>11. CASE \/ \E n \in Nodes : TaskEnds(n) \/ OrphanEnds(n) \/ ValidatedLate(n)
            \/ \E n \in Requests : ResolveInvalid(n)
            \/ Pause \/ Continue \/ CancelRun \/ UNCHANGED vars
  <2>1. CASE Pause \/ Continue \/ CancelRun \/ UNCHANGED vars
    BY <1>1, <2>1 DEF Pause, Continue, CancelRun, vars, machineVars
  <2>2. CASE \E n \in Nodes : TaskEnds(n) \/ OrphanEnds(n) \/ ValidatedLate(n)
    BY <1>1, <2>2 DEF TaskEnds, OrphanEnds, ValidatedLate, machineVars
  <2>3. CASE \E n \in Requests : ResolveInvalid(n)
    BY <1>1, <2>3 DEF ResolveInvalid, machineVars
  <2>. QED BY <1>11, <2>1, <2>2, <2>3
<1>. QED BY <1>2, <1>3, <1>4, <1>5, <1>6, <1>7, <1>8, <1>9, <1>10, <1>11 DEF Next, Driver

LEMMA StepDriverTypes ==
  ASSUME MachineAssumption, PInv, [Next]_vars
  PROVE  DriverTypes'
<1>1. drv \in Drivers /\ cancel \in Cancellers /\ shape \in WorkflowShapes
  BY TypeParts DEF DriverTypes
<1>2. Rest \in Drivers
  BY DEF Rest, Drivers, Graphs, Suspended
<1>3. cancel' \in Cancellers
  <2>1. CASE cancel' \in {cancel, NoCancel, [NoCancel EXCEPT !.at = "asking"]}
    BY <1>1, <2>1 DEF NoCancel, Cancellers
  <2>2. CASE CancelTasks /\ Mapped # {}
    BY <2>2 DEF CancelTasks, Cancellers, Mapped
  <2>3. CASE CancelRun \/ (Canceller /\ ~(CancelTasks /\ Mapped # {}))
    BY <2>1, <2>3 DEF CancelRun, Canceller, CancelTasks, CancelRaises, CancelEnds, Reset
  <2>4. CASE Driver
    <3>1. cancel' = cancel
      BY <2>4 DEF Driver, SeedEntry, SeedSink, SeedDeferred, EnterDag, Update, Take, CollectFails,
                  WakeToFailure, PopNode, Wait, Dispatch, ValidationFails, Wake, Recheck, PopGraph,
                  LeaveGraph, PopEnds, EnterError, ErrorWaits, ErrorWakes, ErrorReaps
    <3>. QED BY <2>1, <3>1
  <2>5. CASE \/ \E n \in Nodes : StartFlow(n) \/ TaskEnds(n) \/ OrphanEnds(n) \/ ValidatedLate(n)
             \/ \E n \in Requests : ResolveNode(n) \/ Join(n) \/ ResolveInvalid(n)
             \/ Pause \/ Continue \/ UNCHANGED vars
    <3>1. cancel' = cancel
      BY <2>5 DEF StartFlow, TaskEnds, OrphanEnds, ValidatedLate, ResolveNode, Join, ResolveInvalid,
                  Pause, Continue, NewMachine, vars
    <3>. QED BY <2>1, <3>1
  <2>. QED BY <2>2, <2>3, <2>4, <2>5 DEF Next
<1>4. drv' \in Drivers
  <2>1. CASE drv' \in {drv, Rest} \/ \E label \in Suspended \cup Holding : GoTo(label)
    BY <1>1, <1>2, <2>1, GoToTypes
  <2>2. CASE (\E n \in Nodes : StartFlow(n)) \/ \E n \in Requests : ResolveNode(n)
    <3>1. Entries(shape) \cup Sinks(shape) \subseteq Nodes
      BY <1>1 DEF WorkflowShapes, Entries, Sinks, Wired
    <3>2. PICK n \in Nodes, todo \in SUBSET Nodes :
            drv' = [at |-> "seed", node |-> DefaultGraph, todo |-> todo, leaves |-> {}, starts |-> {n}]
      BY <2>2, <3>1 DEF StartFlow, ResolveNode, Rest, MachineAssumption
    <3>3. {n} \in SUBSET Nodes /\ todo \in SUBSET Graphs
      BY DEF Graphs
    <3>. QED BY <3>2, <3>3 DEF Drivers, Graphs, Holding
  <2>3. CASE \E n \in Nodes : SeedEntry(n) \/ SeedSink(n) \/ PopNode(n)
    <3>1. PICK n \in Nodes : SeedEntry(n) \/ SeedSink(n) \/ PopNode(n)
      BY <2>3
    <3>2. \/ drv' = [drv EXCEPT !.todo = drv.todo \ {n}]
          \/ drv' = [drv EXCEPT !.todo = drv.todo \ {n}, !.starts = drv.starts \cup {n}]
          \/ drv' = [drv EXCEPT !.leaves = drv.leaves \ {n}]
      BY <3>1 DEF SeedEntry, SeedSink, PopNode
    <3>3. drv.todo \ {n} \in SUBSET Graphs
      BY <1>1 DEF Drivers
    <3>4. drv.starts \cup {n} \in SUBSET Nodes /\ drv.leaves \ {n} \in SUBSET Nodes
      BY <1>1 DEF Drivers
    <3>. QED BY <1>1, <3>2, <3>3, <3>4 DEF Drivers
  <2>4. CASE \E g \in Graphs : PopGraph(g)
    <3>1. PICK g \in Graphs : drv' = [drv EXCEPT !.at = "popping", !.node = g, !.todo = drv.todo \ {g},
                                                 !.leaves = Leaves(dag, g)]
      BY <2>4 DEF PopGraph
    <3>2. Leaves(dag, g) \subseteq Nodes
      BY WorkFacts DEF Leaves, Dags
    <3>. QED BY <1>1, <3>1, <3>2 DEF Drivers, Holding
  <2>5. CASE Wake \/ Recheck \/ LeaveGraph
    <3>1. \E todo \in SUBSET Graphs :
            drv' = [at |-> "pop", node |-> DefaultGraph, todo |-> todo, leaves |-> {}, starts |-> {}]
      BY <1>1, <2>5, WorkFacts DEF Wake, Recheck, LeaveGraph, StartPop, Rest, Drivers, Dags
    <3>. QED BY <3>1 DEF Drivers, Graphs, Holding
  <2>6. CASE \E n \in Nodes : Take(n)
    <3>1. PICK n \in Nodes : drv' = [at |-> "validating", node |-> n, todo |-> {}, leaves |-> {}, starts |-> {}]
      BY <2>6 DEF Take, Rest
    <3>. QED BY <3>1 DEF Drivers, Graphs, Suspended
  <2>7. CASE \/ EnterDag \/ Update \/ Wait \/ Dispatch \/ ValidationFails \/ PopEnds
             \/ EnterError \/ ErrorWaits \/ ErrorWakes \/ ErrorReaps
             \/ \E n \in Nodes : SeedDeferred(n) \/ CollectFails(n) \/ WakeToFailure(n)
    <3>1. drv' = Rest \/ \E label \in {"update", "sinks", "drain", "parked", "waiting", "failing",
                                        "idle", "error", "reaping"} : GoTo(label)
      <4>1. CASE Update \/ ErrorReaps
        BY <4>1 DEF Update, ErrorReaps, Complete
      <4>2. CASE EnterDag \/ Wait \/ Dispatch \/ PopEnds \/ EnterError \/ ErrorWaits \/ ErrorWakes
        BY <4>2 DEF EnterDag, Wait, Dispatch, PopEnds, EnterError, ErrorWaits, ErrorWakes
      <4>3. CASE ValidationFails \/ \E n \in Nodes : SeedDeferred(n) \/ CollectFails(n) \/ WakeToFailure(n)
        BY <4>3 DEF ValidationFails, SeedDeferred, CollectFails, WakeToFailure, Fail
      <4>. QED BY <2>7, <4>1, <4>2, <4>3
    <3>. QED BY <2>1, <3>1 DEF Suspended, Holding
  <2>8. CASE Continue \/ Canceller
    BY <2>1, <2>8 DEF Continue, Canceller, CancelTasks, CancelRaises, CancelEnds, Reset, Suspended, Holding
  <2>9. CASE \/ \E n \in Nodes : TaskEnds(n) \/ OrphanEnds(n) \/ ValidatedLate(n)
             \/ \E n \in Requests : Join(n) \/ ResolveInvalid(n)
             \/ Pause \/ CancelRun \/ UNCHANGED vars
    <3>1. drv' = drv
      BY <2>9 DEF TaskEnds, OrphanEnds, ValidatedLate, Join, ResolveInvalid, Pause, CancelRun, vars
    <3>. QED BY <2>1, <3>1
  <2>. QED BY <2>2, <2>3, <2>4, <2>5, <2>6, <2>7, <2>8, <2>9 DEF Next, Driver
<1>. QED BY <1>3, <1>4 DEF DriverTypes

LEMMA StepShape ==
  ASSUME [Next]_vars
  PROVE  shape' = shape
<1>1. CASE Driver
  BY <1>1 DEF Driver, SeedEntry, SeedSink, SeedDeferred, EnterDag, Update, Take, CollectFails,
              WakeToFailure, PopNode, Wait, Dispatch, ValidationFails, Wake, Recheck, PopGraph,
              LeaveGraph, PopEnds, EnterError, ErrorWaits, ErrorWakes, ErrorReaps
<1>2. CASE Canceller
  BY <1>2 DEF Canceller, CancelTasks, CancelRaises, CancelEnds, Reset
<1>3. CASE \/ \E n \in Nodes : StartFlow(n) \/ TaskEnds(n) \/ OrphanEnds(n) \/ ValidatedLate(n)
           \/ \E n \in Requests : ResolveNode(n) \/ Join(n) \/ ResolveInvalid(n)
           \/ Pause \/ Continue \/ CancelRun \/ UNCHANGED vars
  BY <1>3 DEF StartFlow, TaskEnds, OrphanEnds, ValidatedLate, ResolveNode, Join, ResolveInvalid,
              Pause, Continue, CancelRun, NewMachine, vars
<1>. QED BY <1>1, <1>2, <1>3 DEF Next

-----------------------------------------------------------------------------
(* The invariant holds.                                                     *)

LEMMA InitPInv ==
  ASSUME GraphsAssumption, MachineAssumption, Init
  PROVE  PInv
<1>1. /\ dag = EmptyDag /\ queue = {} /\ task = [n \in Nodes |-> "none"] /\ count = 0
      /\ drv = Rest /\ cur = "none" /\ state \in [Nodes -> {"unresolved", "resolved"}]
  BY DEF Init
<1>2. drv.at = "idle"
  BY <1>1 DEF Rest
<1>3. Rest \in Drivers /\ NoCancel \in Cancellers
  BY DEF Rest, NoCancel, Drivers, Cancellers, Suspended, Graphs
<1>4. TypeOK
  <2>1. shape \in WorkflowShapes
    BY DEF Init, MachineAssumption
  <2>2. state \in [Nodes -> {"unresolved", "resolving", "resolved"}]
    BY <1>1
  <2>3. task \in [Nodes -> {"none"} \cup Live \cup Ended]
    BY <1>1
  <2>4. count \in 0 .. Capacity
    BY <1>1 DEF MachineAssumption
  <2>5. drv \in Drivers /\ cancel \in Cancellers
    BY <1>3 DEF Init
  <2>6. dag \in Dags
    BY <1>1, EmptyTypes
  <2>. QED BY <2>1, <2>2, <2>3, <2>4, <2>5, <2>6 DEF TypeOK, Init, Drivers, Cancellers
<1>5. SlotsBalance
  <2>1. Mapped = {}
    BY <1>1 DEF Mapped
  <2>. QED BY <1>1, <1>2, <2>1, FS_EmptySet DEF SlotsBalance
<1>6. DriverOK
  BY <1>1, <1>2 DEF DriverOK, Running
<1>7. WorkOK
  <2>1. \A n \in Nodes : state[n] # "resolving" /\ task[n] = "none"
    BY <1>1
  <2>2. Steady(EmptyDag, state, {}, task, drv, {}) /\ DoneOK(EmptyDag, state)
    BY <1>2, <2>1, EmptySteady
  <2>3. Past = {}
    BY <1>1 DEF Past, Running
  <2>. QED BY <1>1, <2>2, <2>3 DEF WorkOK
<1>. QED BY <1>4, <1>5, <1>6, <1>7 DEF PInv

LEMMA StepPInv ==
  ASSUME GraphsAssumption, MachineAssumption, PInv, [Next]_vars
  PROVE  PInv'
<1>1. WorkKept /\ SlotsKept
  BY StepWork, StepSlots
<1>2. TaskTypes' /\ MachineTypes' /\ SetTypes' /\ DriverTypes'
  BY StepTasks, StepMachine, StepSets, StepDriverTypes
<1>3. shape' \in WorkflowShapes
  BY StepShape, TypeParts
<1>4. TypeOK'
  BY <1>1, <1>2, <1>3
  DEF TypeOK, WorkKept, SlotsKept, TaskTypes, MachineTypes, SetTypes, DriverTypes, Drivers,
      Cancellers, States
<1>5. DriverOK'
  BY <1>1, StepDriver
<1>. QED BY <1>1, <1>4, <1>5 DEF PInv, WorkKept, SlotsKept

LEMMA Invariant ==
  ASSUME GraphsAssumption, MachineAssumption
  PROVE  Spec => []PInv
<1>1. Init => PInv
  BY InitPInv
<1>2. PInv /\ [Next]_vars => PInv'
  BY StepPInv
<1>. QED BY <1>1, <1>2, PTL DEF Spec

(* A task is started by the dispatch of the node the driver validated, and *)
(* by nothing else.                                                        *)
LEMMA StartsInDispatch ==
  ASSUME PInv, [Next]_vars, NEW n \in Nodes, Starts(n)
  PROVE  Dispatch /\ n = drv.node
<1>1. TaskTypes /\ task[n] = "none" /\ task'[n] = "running"
  BY TypeParts DEF Starts
<1>2. CASE \/ task' = task
           \/ task' = [m \in Nodes |-> "none"]
           \/ task' = [m \in Nodes |-> IF m \in Finished THEN "none" ELSE task[m]]
           \/ task' = [m \in Nodes |-> IF m \in ToCancel THEN "cancelling" ELSE task[m]]
           \/ task' = [m \in Nodes |-> IF task[m] = "running" THEN "cancelling" ELSE task[m]]
           \/ \E m \in Nodes, to \in {"none", "ok", "failed", "cancelled"} :
                task' = [task EXCEPT ![m] = to]
  BY <1>1, <1>2 DEF TaskTypes
<1>3. CASE Driver
  <2>1. CASE Dispatch
    <3>1. task' = [task EXCEPT ![drv.node] = "running"]
      BY <2>1 DEF Dispatch
    <3>2. n = drv.node
      BY <1>1, <3>1 DEF TaskTypes
    <3>. QED BY <2>1, <3>2
  <2>2. CASE (\E m \in Nodes : WakeToFailure(m)) \/ Wake \/ ErrorReaps \/ EnterError
    BY <1>2, <2>2 DEF WakeToFailure, Wake, ErrorReaps, EnterError
  <2>3. CASE \/ EnterDag \/ Update \/ Wait \/ ValidationFails \/ Recheck \/ LeaveGraph \/ PopEnds
             \/ ErrorWaits \/ ErrorWakes
             \/ \E m \in Nodes : SeedEntry(m) \/ SeedSink(m) \/ SeedDeferred(m) \/ Take(m)
                                   \/ CollectFails(m) \/ PopNode(m)
             \/ \E g \in Graphs : PopGraph(g)
    <3>1. task' = task
      BY <2>3 DEF EnterDag, Update, Wait, ValidationFails, Recheck, LeaveGraph, PopEnds, ErrorWaits,
                  ErrorWakes, SeedEntry, SeedSink, SeedDeferred, Take, CollectFails, PopNode,
                  PopGraph, machineVars
    <3>. QED BY <1>2, <3>1
  <2>. QED BY <1>3, <2>1, <2>2, <2>3 DEF Driver
<1>4. CASE (\E m \in Nodes : StartFlow(m)) \/ (\E m \in Requests : ResolveNode(m))
  BY <1>2, <1>4 DEF StartFlow, ResolveNode, NewMachine
<1>5. CASE \E m \in Nodes : TaskEnds(m)
  <2>1. PICK m \in Nodes, end \in Ended : task' = [task EXCEPT ![m] = end]
    BY <1>5 DEF TaskEnds, Ended
  <2>. QED BY <1>2, <2>1 DEF Ended
<1>6. CASE Canceller
  BY <1>2, <1>6 DEF Canceller, CancelTasks, CancelRaises, CancelEnds, Reset, machineVars
<1>7. CASE \/ \E m \in Nodes : OrphanEnds(m) \/ ValidatedLate(m)
           \/ \E m \in Requests : Join(m) \/ ResolveInvalid(m)
           \/ Pause \/ Continue \/ CancelRun \/ UNCHANGED vars
  BY <1>2, <1>7 DEF OrphanEnds, ValidatedLate, Join, ResolveInvalid, Pause, Continue, CancelRun,
                    vars, machineVars
<1>. QED BY <1>3, <1>4, <1>5, <1>6, <1>7 DEF Next

-----------------------------------------------------------------------------
(* The theorems.                                                            *)

(* Types are correct; no more slots are ever taken than there are          *)
(* (running_tasks_count stays within max_nodes_in_parallel).               *)
THEOREM TypeCorrect ==
  ASSUME GraphsAssumption, MachineAssumption
  PROVE  Spec => []TypeOK
<1>1. PInv => TypeOK
  BY DEF PInv
<1>. QED BY <1>1, Invariant, PTL

(* running_tasks_count is always the tasks the machine holds and the node  *)
(* it is about to start, whatever fails, is cancelled or is reset.         *)
THEOREM SlotsBalanced ==
  ASSUME GraphsAssumption, MachineAssumption
  PROVE  Spec => []SlotsBalance
<1>1. PInv => SlotsBalance
  BY DEF PInv
<1>. QED BY <1>1, Invariant, PTL

(* However a run ends (completed, failed, cancelled or torn down), it      *)
(* leaves no task, no slot taken and no node that shows as executing.      *)
THEOREM RunsEndClean ==
  ASSUME GraphsAssumption, MachineAssumption
  PROVE  Spec => []EndsClean
<1>1. ASSUME PInv, ~Running
      PROVE  Mapped = {} /\ count = 0 /\ \A n \in Nodes : state[n] # "resolving"
  <2>1. dag = EmptyDag /\ drv.at = "idle"
    BY <1>1 DEF PInv, DriverOK
  <2>2. \A n \in Nodes : dag.ref[n] = "absent"
    BY <2>1 DEF EmptyDag
  <2>3. Mapped = {} /\ \A n \in Nodes : state[n] # "resolving"
    BY <1>1, <2>2 DEF PInv, WorkOK, Steady, TasksOK, ExecutingOK, Mapped
  <2>4. count = 0
    BY <1>1, <2>1, <2>3, FS_EmptySet DEF PInv, SlotsBalance
  <2>. QED BY <2>3, <2>4
<1>2. PInv => EndsClean
  BY <1>1 DEF EndsClean
<1>. QED BY <1>2, Invariant, PTL

(* No finished node is handed to handle_done_nodes again while the driver  *)
(* pops the graphs it stands in.                                           *)
THEOREM CompletedOnce ==
  ASSUME GraphsAssumption, MachineAssumption
  PROVE  Spec => []NoDuplicateCompletion
<1>1. ASSUME PInv, drv.at = "popping", NEW n \in drv.leaves \ shape.locked, IsDone(n)
      PROVE  state[n] # "resolved"
  <2>1. n \in Nodes /\ dag.ref[n] = "done"
    BY <1>1 DEF IsDone, Recorded
  <2>2. drv.node \in Graphs /\ n \in dag.members[drv.node]
    BY <1>1, WorkFacts DEF Steady, SeesAsIs
  <2>3. DoneOK(dag, state)
    BY <1>1 DEF PInv, DriverOK, WorkOK
  <2>. QED BY <1>1, <2>1, <2>2, <2>3 DEF DoneOK
<1>2. PInv => NoDuplicateCompletion
  BY <1>1 DEF NoDuplicateCompletion
<1>. QED BY <1>2, Invariant, PTL

(* A run of a flow starts no node twice, in whichever graphs it stands and *)
(* however often control or data reaches it.                               *)
THEOREM RunsNothingTwice ==
  ASSUME GraphsAssumption, MachineAssumption
  PROVE  Spec => OncePerRun
<1>1. ASSUME PInv, [Next]_vars, NEW n \in Nodes, Starts(n), FlowRun
      PROVE  n \notin ran
  <2>1. drv.at = "validating" /\ n = drv.node
    BY <1>1, StartsInDispatch DEF Dispatch
  <2>2. Running
    BY <1>1, <2>1 DEF PInv, DriverOK
  <2>3. Past = ran
    BY <1>1, <2>2 DEF Past, FlowRun
  <2>4. dag.ref[n] = "queued"
    BY <1>1, <2>1, WorkFacts DEF Steady, SeesAsIs
  <2>. QED BY <1>1, <2>3, <2>4, WorkFacts DEF Steady, RanOK
<1>2. PInv /\ [Next]_vars => [\A n \in Nodes : Starts(n) /\ FlowRun => n \notin ran]_vars
  BY <1>1
<1>. QED BY <1>2, Invariant, PTL DEF Spec, OncePerRun

(* Once a node has failed nothing starts any more, and none of the nodes   *)
(* that run beside it is cancelled unless the run is.                      *)
THEOREM FailureStopsStarts ==
  ASSUME GraphsAssumption, MachineAssumption
  PROVE  Spec => FailureSparesRunning
<1>1. ASSUME PInv, [Next]_vars, failing, cancel = NoCancel, NEW n \in Nodes
      PROVE  ~Starts(n)
  <2>1. SUFFICES ASSUME Starts(n) PROVE FALSE
    OBVIOUS
  <2>2. drv.at = "validating"
    BY <1>1, <2>1, StartsInDispatch DEF Dispatch
  <2>. QED BY <1>1, <2>2 DEF PInv, DriverOK, Ending
<1>2. ASSUME PInv, [Next]_vars, failing, cancel = NoCancel, NEW n \in Nodes, task[n] = "running"
      PROVE  task'[n] # "cancelling"
  <2>1. TaskTypes
    BY <1>2, TypeParts
  <2>2. CASE \/ task' = task
             \/ task' = [m \in Nodes |-> "none"]
             \/ task' = [m \in Nodes |-> IF m \in Finished THEN "none" ELSE task[m]]
             \/ \E m \in Graphs, to \in {"none", "running", "ok", "failed", "cancelled"} :
                  task' = [task EXCEPT ![m] = to]
    BY <1>2, <2>1, <2>2 DEF TaskTypes
  <2>3. CASE Driver
    <3>1. CASE Dispatch
      BY <2>2, <3>1, <1>2, TypeParts DEF Dispatch, DriverTypes, Drivers
    <3>2. CASE EnterError
      BY <1>2, <3>2 DEF EnterError, ToCancel
    <3>3. CASE (\E m \in Nodes : WakeToFailure(m)) \/ Wake \/ ErrorReaps
      BY <2>2, <3>3 DEF WakeToFailure, Wake, ErrorReaps, Graphs
    <3>4. CASE \/ EnterDag \/ Update \/ Wait \/ ValidationFails \/ Recheck \/ LeaveGraph \/ PopEnds
               \/ ErrorWaits \/ ErrorWakes
               \/ \E m \in Nodes : SeedEntry(m) \/ SeedSink(m) \/ SeedDeferred(m) \/ Take(m)
                                     \/ CollectFails(m) \/ PopNode(m)
               \/ \E g \in Graphs : PopGraph(g)
      <4>1. task' = task
        BY <3>4 DEF EnterDag, Update, Wait, ValidationFails, Recheck, LeaveGraph, PopEnds, ErrorWaits,
                    ErrorWakes, SeedEntry, SeedSink, SeedDeferred, Take, CollectFails, PopNode,
                    PopGraph, machineVars
      <4>. QED BY <2>2, <4>1
    <3>. QED BY <2>3, <3>1, <3>2, <3>3, <3>4 DEF Driver
  <2>4. CASE Canceller
    BY <1>2, <2>2, <2>4 DEF Canceller, CancelTasks, CancelRaises, CancelEnds, Reset, NoCancel, machineVars
  <2>5. CASE (\E m \in Nodes : StartFlow(m) \/ TaskEnds(m)) \/ (\E m \in Requests : ResolveNode(m))
    BY <2>2, <2>5 DEF StartFlow, ResolveNode, NewMachine, TaskEnds, Graphs, Ended
  <2>6. CASE \/ \E m \in Nodes : OrphanEnds(m) \/ ValidatedLate(m)
             \/ \E m \in Requests : Join(m) \/ ResolveInvalid(m)
             \/ Pause \/ Continue \/ CancelRun \/ UNCHANGED vars
    BY <2>2, <2>6 DEF OrphanEnds, ValidatedLate, Join, ResolveInvalid, Pause, Continue, CancelRun,
                      vars, machineVars
  <2>. QED BY <1>2, <2>3, <2>4, <2>5, <2>6 DEF Next
<1>3. PInv /\ [Next]_vars =>
        [failing /\ cancel = NoCancel =>
           \A n \in Nodes : ~Starts(n) /\ (task[n] = "running" => task'[n] # "cancelling")]_vars
  BY <1>1, <1>2
<1>. QED BY <1>3, Invariant, PTL DEF Spec, FailureSparesRunning
===============================================================================
