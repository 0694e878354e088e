------------------------------ MODULE Evaluation ------------------------------
(***************************************************************************)
(* What a run of a workflow promises, without graphs, queues or slots: it  *)
(* evaluates the workflow in the order of the data.  Each node starts at   *)
(* most once, on inputs that are current, before anything that depends on  *)
(* it; a result that is in stays current; a run that completes left        *)
(* nothing out.  A run may also stop anywhere.  The module                 *)
(* ParallelResolution implements this (ControlFlowMachine.start_flow).     *)
(***************************************************************************)
CONSTANTS
  Nodes

VARIABLES
  flow,     \* the workflow: feeds, wires, locked and starts, as in DagBuilder
  current,  \* the nodes whose value is current
  started,  \* the nodes the run has started
  busy,     \* those of them whose result is not in
  stage     \* "off", "going" or "failed"

evalVars == <<flow, current, started, busy, stage>>

EvalInit ==
  /\ flow \in [feeds : SUBSET (Nodes \X Nodes), wires : SUBSET (Nodes \X Nodes),
              locked : SUBSET Nodes, starts : SUBSET Nodes]
  /\ current \subseteq Nodes
  /\ started = {} /\ busy = {}
  /\ stage = "off"

(* The nodes a run is asked for: control begins with them, or it does not  *)
(* come to them and no other node reads their value.                       *)
AskedFor(w) ==
  w.starts \cup {n \in Nodes : /\ \A e \in w.wires : e[2] # n
                               /\ \/ \E e \in w.wires : e[1] = n
                                  \/ \A e \in w.feeds : e[1] # n}

HasInputs(n) == \A e \in flow.feeds : e[2] = n => e[1] \in current \cup flow.locked

Begin ==
  /\ stage = "off" /\ stage' = "going"
  /\ started' = {}
  /\ UNCHANGED <<flow, current, busy>>

(* A node starts; what depends on it, below, has yet to be evaluated.      *)
Start(n) ==
  /\ stage = "going"
  /\ n \notin started \cup flow.locked /\ HasInputs(n)
  /\ started' = started \cup {n} /\ busy' = busy \cup {n}
  /\ \E below \in SUBSET (Nodes \ started') :
       /\ \A e \in flow.feeds :
            e[1] \in below \cup {n} /\ e[2] \notin flow.locked => e[2] \in below
       /\ current' = current \ (below \cup {n})
  /\ UNCHANGED <<flow, stage>>

End(n) ==
  /\ n \in busy
  /\ busy' = busy \ {n}
  /\ UNCHANGED <<flow, current, started, stage>>

(* Nodes whose value may become current: what they read is.  A locked node *)
(* keeps the value it has.                                                 *)
CanSettle(S) ==
  /\ S \subseteq (started \ busy) \cup flow.locked
  /\ \A n \in S \ flow.locked : HasInputs(n)

(* Results are in and others are to be evaluated anew: next is current.    *)
Settle(next) ==
  /\ stage # "off"
  /\ current' = next
  /\ CanSettle(next \ current)
  /\ (current \ next) \cap started = {}
  /\ UNCHANGED <<flow, started, busy, stage>>

Fail ==
  /\ stage = "going" /\ stage' = "failed"
  /\ UNCHANGED <<flow, current, started, busy>>

(* Everything asked for is evaluated, and what was evaluated is current.   *)
Complete ==
  /\ stage = "going" /\ stage' = "off"
  /\ busy = {} /\ started \subseteq current
  /\ AskedFor(flow) \subseteq started \cup flow.locked
  /\ UNCHANGED <<flow, current, started, busy>>

(* The run fails or is cancelled: nodes that are busy are given up, and    *)
(* the last results may be in.                                             *)
Stop(S) ==
  /\ stage # "off" /\ stage' = "off"
  /\ current' = current \cup S /\ CanSettle(S)
  /\ busy' = {}
  /\ UNCHANGED <<flow, started>>

EvalNext ==
  \/ Begin \/ Fail \/ Complete
  \/ \E n \in Nodes : Start(n) \/ End(n)
  \/ \E S \in SUBSET Nodes : Settle(S) \/ Stop(S)

EvalSpec == EvalInit /\ [][EvalNext]_evalVars
=============================================================================
