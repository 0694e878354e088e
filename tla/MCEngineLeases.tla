--------------------------- MODULE MCEngineLeases ---------------------------
(***************************************************************************)
(* Instances of EngineLeases for TLC: engine a has a run of two nodes and  *)
(* two leases for it, engine b a node that runs on its own.                *)
(***************************************************************************)
EXTENDS EngineLeases, TLC

CONSTANTS a, b, r, a1, a2, b1, x, y, z

MCHomeOf ==
  [i \in Nodes \cup Leases |-> IF i \in {a1, a2, x, y} THEN a ELSE b]
Bound(offers, faults, withdrawals) ==
  [offers |-> offers, faults |-> faults, withdrawals |-> withdrawals]
NoFaults == [e \in Engines |-> Bound(0, 0, 0)]
AllFaults == [e \in Engines |-> IF e = a THEN Bound(1, 1, 1) ELSE Bound(0, 0, 0)]

LosesNothing == [e \in Engines |-> {}]
LosesSome == [e \in Engines |-> IF e = a THEN {"release"} ELSE {"acquire"}]

MCRunOf == [n \in Nodes |-> IF n \in {a1, a2} THEN r ELSE None]
=============================================================================
