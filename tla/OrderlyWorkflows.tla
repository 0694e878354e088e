-------------------------- MODULE OrderlyWorkflows --------------------------
(***************************************************************************)
(* The workflows in which control and data agree, so that no node starts   *)
(* on a value that is about to change.  The engine runs any workflow and   *)
(* does not check this of it.                                              *)
(***************************************************************************)
EXTENDS DagBuilder

(* The nodes the arcs of R lead to from n.                                 *)
After(R, n) == Reach(R, {e[2] : e \in {f \in R : f[1] = n}})

(* The nodes control reaches in a run of the flow.                         *)
Controlled(w) == Reach(w.wires, Entries(w))

NoCycle(R) ==
  \A S \in SUBSET Nodes : S # {} => \E n \in S : \A m \in S : <<m, n>> \notin R

(* Control neither branches nor meets: it goes along lines of nodes.       *)
Straight(w) ==
  /\ \A e, f \in w.wires : e[1] = f[1] \/ e[2] = f[2] => e = f
  /\ \A e \in w.wires : e[2] \notin w.starts

(* Control reaches a node before any node of the control path that its     *)
(* value goes to.                                                          *)
InOrder(w) ==
  \A m, n \in Controlled(w) : n \in After(w.feeds, m) => n \in After(w.wires, m)

(* The nodes that feed nobody and control does not come to, and all whose  *)
(* value goes into one of them; those of them that read the value of x.    *)
ToSinks(w) == {n \in Nodes : ({n} \cup After(w.feeds, n)) \cap Sinks(w) # {}}
Leading(w, x) == {y \in ToSinks(w) : <<x, y>> \in w.feeds}

(* What control may not come to, since it may end before, goes into sinks  *)
(* by one reader, or by the sinks themselves: the one reader brings it     *)
(* with it into the graph of its sink, a second one might not.             *)
Tied(w) ==
  \A x \in Controlled(w) \ Entries(w) :
    \A y, z \in Leading(w, x) : y = z \/ y \in Sinks(w)

InLine(w) ==
  /\ Straight(w) /\ InOrder(w) /\ Tied(w)
  /\ NoCycle(w.feeds)
  /\ \A e \in w.feeds : e[2] \notin w.locked

(* The nodes of S feed nobody, and a locked node that reads a value feeds  *)
(* only nodes that feed nobody.                                            *)
Apart(w, S) ==
  /\ \A e \in w.feeds : e[1] \notin S
  /\ \A e, f, g \in w.feeds : e[2] = f[1] /\ f[2] = g[1] => e[2] \notin w.locked
=============================================================================
