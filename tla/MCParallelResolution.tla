------------------------ MODULE MCParallelResolution ------------------------
(***************************************************************************)
(* Instances of ParallelResolution for TLC: the workflows a run may be of. *)
(***************************************************************************)
EXTENDS ParallelResolution, OrderlyWorkflows

CONSTANTS a, b, c, d

Plain == [feeds |-> {}, wires |-> {}, locked |-> {}, starts |-> {}]

(* Every workflow of three nodes without cycles that is in order, none or  *)
(* one of them locked; a, b, c is an order of the data connections.        *)
ThreeNodes ==
  {w \in {[Plain EXCEPT !.wires = R, !.feeds = F, !.locked = L] :
            R \in {Q \in SUBSET ({a, b, c} \X {a, b, c}) : NoCycle(Q)},
            F \in SUBSET {<<a, b>>, <<a, c>>, <<b, c>>},
            L \in {{}, {a}, {b}, {c}}} : InOrder(w)}

(* A chain that feeds a sink, two chains that meet, two sinks with a       *)
(* supplier in common.                                                     *)
Samples == {[Plain EXCEPT !.wires = {<<a, b>>}, !.feeds = {<<a, c>>}],
            [Plain EXCEPT !.wires = {<<a, c>>, <<b, c>>}],
            [Plain EXCEPT !.feeds = {<<a, b>>, <<a, c>>}]}

(* b and c have a in common, directly or through d, which may be locked.   *)
Suppliers ==
  {[Plain EXCEPT !.feeds = F, !.locked = L] :
     F \in {{<<a, b>>, <<a, c>>}, {<<a, d>>, <<d, b>>, <<a, c>>}, {<<a, d>>, <<d, b>>, <<d, c>>}},
     L \in {{}, {d}}}

Unconnected == {Plain}

(* The instances hold what the theorems of ParallelResolutionInputsProofs  *)
(* are about: lines of three nodes, and of two with a sink, with every     *)
(* data connection and with a locked node at their head, and the requests  *)
(* of Suppliers.                                                           *)
ASSUME LinesAmongThree ==
  Nodes = {a, b, c} =>
    \A L \in {{}, {a}}, k \in {1, 2} : \E w \in ThreeNodes :
      /\ InLine(w) /\ w.locked = L
      /\ Cardinality(w.wires) = k /\ Cardinality(w.feeds) = 3

ASSUME SuppliersApart == \A w \in Suppliers : Apart(w, {b, c})
=============================================================================
