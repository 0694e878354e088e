------------------------------ MODULE RunQueue ------------------------------
(***************************************************************************)
(* The runs waiting to start, first submitted first (run_queue.py,         *)
(* RunQueue).  A line is a function whose domain is the set of waiting     *)
(* runs and whose value at a run is the set of runs still ahead of it: the *)
(* list of the code, without positions that shift when a run in the middle *)
(* is taken out.                                                           *)
(***************************************************************************)

EmptyLine == [r \in {} |-> {}]

Lines(Runs) == UNION {[W -> SUBSET Runs] : W \in SUBSET Runs}

(* enqueue: every run waiting now is ahead of the new one. *)
Enqueue(l, run) ==
  [r \in DOMAIN l \cup {run} |-> IF r = run THEN DOMAIN l \ {run} ELSE l[r]]

(* pop_next takes the run nobody is ahead of. *)
Heads(l) == {r \in DOMAIN l : l[r] = {}}

(* remove: the rest keep their order. *)
Remove(l, S) == [r \in DOMAIN l \ S |-> l[r] \ S]

(* Any two waiting runs are ordered, and nothing that left is still ahead. *)
IsLine(l) ==
  /\ \A r \in DOMAIN l : l[r] \subseteq DOMAIN l \ {r}
  /\ \A r, q \in DOMAIN l : r # q => (r \in l[q] <=> q \notin l[r])
  /\ \A r, q \in DOMAIN l : q \in l[r] => l[q] \subseteq l[r]
=============================================================================
