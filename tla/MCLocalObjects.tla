--------------------------- MODULE MCLocalObjects ---------------------------
(***************************************************************************)
(* Instances of LocalObjects for TLC: two nodes of two libraries in one    *)
(* workflow each, one with two outputs, one that puts under a key; every   *)
(* object has a hook, and one may be put again after its last entry went.  *)
(***************************************************************************)
EXTENDS LocalObjects

CONSTANTS m, n, u, v

Apart == [k \in Nodes |-> k]
Split == ({m} \X Slots) \cup {<<n, None>>}
TwoForU == [w \in Values |-> IF w = u THEN 2 ELSE 1]
AllHooked == Nodes \X (Slots \cup {None})
=============================================================================
