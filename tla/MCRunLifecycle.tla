--------------------------- MODULE MCRunLifecycle ---------------------------
(***************************************************************************)
(* Instances of RunLifecycle for TLC.  Symmetry of machine slots and       *)
(* cancels is sound where no liveness property is checked.                 *)
(***************************************************************************)
EXTENDS RunLifecycle, TLC

CONSTANTS r1, r2, r3, f1, f2

MCFlowOf == [r \in Runs |-> IF r = r1 THEN f1 ELSE f2]
OneFlowOf == [r \in Runs |-> f1]
Slots == {p @@ q : p \in Permutations(MachineIds), q \in Permutations(Cancels)}
=============================================================================
