----------------------------- MODULE DagBuilder -----------------------------
(***************************************************************************)
(* The dependency graphs of a run (dag_builder.py, directed_graph.py) as   *)
(* operators on one record.  A run has a graph per start node, named after *)
(* it; a node is recorded once, whichever graph it was added to, and may   *)
(* stand in the graphs of other nodes that need its value.                 *)
(*                                                                         *)
(* A workflow is a record: feeds, the data connections <<from, to>>;       *)
(* wires, the control connections; locked, the nodes that do not execute;  *)
(* starts, its StartNodes.                                                 *)
(***************************************************************************)
EXTENDS FiniteSets

CONSTANTS
  Nodes,        \* the nodes of the workflow
  DefaultGraph  \* the graph add_node_with_dependencies uses when given no name

ASSUME GraphsAssumption == IsFiniteSet(Nodes) /\ DefaultGraph \notin Nodes

Graphs == Nodes \cup {DefaultGraph}
NodeStates == {"absent", "waiting", "queued", "processing", "done", "canceled", "errored"}

WorkflowShapes ==
  [feeds : SUBSET (Nodes \X Nodes), wires : SUBSET (Nodes \X Nodes),
   locked : SUBSET Nodes, starts : SUBSET Nodes]

(* ref: DagNode.node_state, "absent" outside node_to_reference;            *)
(* dataOnly: the nodes added only to feed another; nets: the names graphs  *)
(* has; members and edges: each graph; known and homes: the keys and       *)
(* values of graph_to_nodes; deferred: deferred_data_sinks.                *)
Dags ==
  [ref : [Nodes -> NodeStates], dataOnly : SUBSET Nodes, nets : SUBSET Graphs,
   members : [Graphs -> SUBSET Nodes], edges : [Graphs -> SUBSET (Nodes \X Nodes)],
   known : SUBSET Graphs, homes : [Graphs -> SUBSET Nodes], deferred : SUBSET Nodes]

EmptyDag ==
  [ref |-> [n \in Nodes |-> "absent"], dataOnly |-> {}, nets |-> {},
   members |-> [g \in Graphs |-> {}], edges |-> [g \in Graphs |-> {}],
   known |-> {}, homes |-> [g \in Graphs |-> {}], deferred |-> {}]

(* The nodes a walk along the arcs of R reaches from the nodes in from.    *)
Reach(R, from) ==
  {n \in Nodes : \A S \in SUBSET Nodes :
     (from \subseteq S /\ \A e \in R : e[1] \in S => e[2] \in S) => n \in S}

(* classify_nodes_for_dag_in: where control begins, and the nodes control  *)
(* never reaches whose value nobody reads.  A run of the flow is seeded    *)
(* with both.                                                              *)
Wired(w) == {n \in Nodes : \E e \in w.wires : n \in {e[1], e[2]}}
Entries(w) == w.starts \cup (Wired(w) \ {e[2] : e \in w.wires})
Sinks(w) == Nodes \ (w.starts \cup Wired(w) \cup {e[1] : e \in w.feeds})

Recorded(dag) == {n \in Nodes : dag.ref[n] # "absent"}
Leaves(dag, g) == {n \in dag.members[g] : \A m \in Nodes : <<m, n>> \notin dag.edges[g]}
AllLeaves(dag) == UNION {Leaves(dag, g) : g \in dag.nets}

-----------------------------------------------------------------------------
(* add_node_with_dependencies(n, g), where needed is the set of data       *)
(* connections whose source is not RESOLVED.  The walk goes upstream from  *)
(* n through nodes not yet recorded; it stops at a recorded one but still  *)
(* draws the edge from it.  As the root, n may advance control.            *)
NewNodes(dag, needed, n) ==
  IF n \in Recorded(dag) THEN {}
  ELSE Reach({<<e[2], e[1]>> : e \in {f \in needed : f[1] \notin Recorded(dag)}}, {n})

(* A broken variant: no edge is drawn from a node recorded before. *)
AddApart(dag, needed, n, g) ==
  LET new == NewNodes(dag, needed, n)
      arcs == {e \in needed : {e[1], e[2]} \subseteq new}
  IN [dag EXCEPT !.ref = [m \in Nodes |-> IF m \in new THEN "waiting" ELSE @[m]],
                 !.dataOnly = (@ \cup new) \ {n},
                 !.nets = @ \cup {g},
                 !.members[g] = @ \cup new,
                 !.edges[g] = @ \cup arcs,
                 !.known = IF g \in dag.nets THEN @ ELSE @ \cup {g},
                 !.homes[g] = @ \cup new]

Add(dag, needed, n, g) ==
  LET new == NewNodes(dag, needed, n)
      arcs == {e \in needed : e[2] \in new}
  IN [dag EXCEPT !.ref = [m \in Nodes |-> IF m \in new THEN "waiting" ELSE @[m]],
                 !.dataOnly = (@ \cup new) \ {n},
                 !.nets = @ \cup {g},
                 !.members[g] = @ \cup new \cup {e[1] : e \in arcs},
                 !.edges[g] = @ \cup arcs,
                 !.known = IF g \in dag.nets THEN @ ELSE @ \cup {g},
                 !.homes[g] = @ \cup new]

(* A graph kept in graphs after graph_to_nodes dropped it: adding n to it  *)
(* raises a KeyError once n is recorded and in the graph, before the walk. *)
AddRaises(dag, n, g) == g \in dag.nets \ dag.known /\ n \notin Recorded(dag)

AddRaised(dag, n, g) ==
  [dag EXCEPT !.ref[n] = "waiting", !.dataOnly = @ \ {n}, !.members[g] = @ \cup {n}]

-----------------------------------------------------------------------------
(* Whether a graph with work left can still carry control to n.            *)
MayStillReach(dag, w, n) ==
  \E g \in dag.nets : \E r \in dag.members[g] \ {n} :
     /\ r \in Recorded(dag)
     /\ \A m \in Nodes : <<r, m>> \notin dag.edges[g]
     /\ n \in Reach(w.wires, {e[2] : e \in {f \in w.wires : f[1] = r}})

(* A broken variant: edges into the node are not looked at. *)
CanQueueEarly(dag, w, n) == (\A e \in w.wires : e[2] # n) \/ ~MayStillReach(dag, w, n)

(* can_queue_control_node: nothing the node needs is left in any graph     *)
(* and, once there are several graphs, no graph with work left can still   *)
(* carry control to it.                                                    *)
CanQueue(dag, w, n) ==
  /\ \A g \in dag.nets : n \in dag.members[g] => n \in Leaves(dag, g)
  /\ \/ Cardinality(dag.nets) = 1
     \/ \A e \in w.wires : e[2] # n
     \/ ~MayStillReach(dag, w, n)

(* A broken variant: a node is queued whatever its state. *)
QueueableAgain(dag, w, S) == {n \in S \ w.locked : CanQueue(dag, w, n)}

(* ExecuteDagState._try_queue_waiting_node on every node of S: a locked    *)
(* node is done at once, a waiting one is queued if it can be.             *)
Queueable(dag, w, S) ==
  {n \in S \ w.locked : dag.ref[n] = "waiting" /\ CanQueue(dag, w, n)}

TryQueue(dag, w, S) ==
  [dag EXCEPT !.ref = [n \in Nodes |->
     IF n \in S \cap w.locked \cap Recorded(dag) THEN "done"
     ELSE IF n \in Queueable(dag, w, S) THEN "queued" ELSE @[n]]]

(* A broken variant: it leaves one graph only. *)
ReleaseFromOne(dag, n) ==
  LET g == CHOOSE h \in dag.nets : n \in dag.members[h]
  IN [dag EXCEPT !.members[g] = @ \ {n},
                 !.edges[g] = {e \in @ : n \notin {e[1], e[2]}}]

(* ExecuteDagState._release_from_all_networks: a finished node leaves      *)
(* every graph it stands in.                                               *)
Release(dag, n) ==
  [dag EXCEPT !.members = [g \in Graphs |-> @[g] \ {n}],
              !.edges = [g \in Graphs |-> {e \in @[g] : n \notin {e[1], e[2]}}]]

(* cleanup_empty_graph_nodes: the nodes that were added to g are forgotten *)
(* and so is g's entry in graph_to_nodes.  The graph itself stays.         *)
CleanUp(dag, g) ==
  [dag EXCEPT !.ref = [n \in Nodes |-> IF n \in dag.homes[g] THEN "absent" ELSE @[n]],
              !.dataOnly = @ \ dag.homes[g],
              !.known = @ \ {g},
              !.homes[g] = {}]
=============================================================================
