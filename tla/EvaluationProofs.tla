--------------------------- MODULE EvaluationProofs ---------------------------
(***************************************************************************)
(* ParallelResolution implements Evaluation: every step of a run of an     *)
(* orderly flow is a step of the evaluation, or changes nothing of it.     *)
(***************************************************************************)
EXTENDS ParallelResolutionInputsProofs

(* What is assumed of the workflows: runs are of whole flows, orderly.     *)
OrderlyFlows == OrderlyRuns /\ FlowRuns

(* A node that has a task is one the run has started.                      *)
TaskRan == \A n \in Nodes : task[n] # "none" => n \in ran

EInv == PInv /\ FInv /\ TaskRan

(* What a step of the machine is to the evaluation.                        *)
Evaluates == Eval!EvalNext \/ UNCHANGED Eval!evalVars

-----------------------------------------------------------------------------
(* What is known of a run of the flow.                                     *)

(* No request for a single node is ever made, and what ran is recorded     *)
(* beyond queued.                                                          *)
LEMMA FlowFacts ==
  ASSUME OrderlyFlows, EInv
  PROVE  /\ ShapeOK /\ InLine(shape) /\ ~single /\ FlowRuns /\ Requests = {}
         /\ dag \in Dags /\ state \in States /\ ran \subseteq Nodes /\ TaskTypes
         /\ FreshOK(dag, state, drv, outdated)
         /\ Running => RanOK(dag, ran)
         /\ cur = "dag" => Running /\ FlowOK(dag, state, drv, ran)
<1>1. /\ ShapeOK /\ ModeOK /\ FlowRuns /\ Requests = {} /\ dag \in Dags /\ state \in States
      /\ FreshOK(dag, state, drv, outdated) /\ (cur = "dag" => FlowOK(dag, state, drv, ran))
  BY FreshFacts DEF OrderlyFlows, EInv
<1>2. ran \subseteq Nodes /\ TaskTypes
  BY TypeParts DEF EInv, PInv, TypeOK
<1>3. Running => RanOK(dag, ran)
  BY <1>1, WorkFacts DEF EInv, Steady, Past, ModeOK
<1>. QED BY <1>1, <1>2, <1>3 DEF ShapeOK, ModeOK, Running

(* No task is left when no run goes on.                                    *)
LEMMA NothingBusy ==
  ASSUME PInv, ~Running
  PROVE  \A n \in Nodes : task[n] = "none"
<1>1. dag = EmptyDag
  BY DEF PInv, DriverOK
<1>2. \A n \in Nodes : dag.ref[n] = "absent"
  BY <1>1 DEF EmptyDag
<1>. QED BY <1>2, WorkFacts DEF Steady, TasksOK

(* A failure is seen to before the driver goes on.                         *)
LEMMA GoesWell ==
  ASSUME PInv, drv.at \notin {"idle", "error", "reaping", "failing"}
  PROVE  Running /\ cur = "dag" /\ ~failing /\ Stage = "going"
<1>1. cur = "dag" /\ Running
  BY InDag DEF Running
<1>. QED BY <1>1 DEF PInv, DriverOK, Ending, Stage

(* A node that executed, or is to be handled as done, has its inputs.      *)
LEMMA InputsIn ==
  ASSUME OrderlyFlows, EInv, NEW n \in Recorded(dag), n \notin shape.locked, dag.ref[n] # "waiting"
  PROVE  Eval!HasInputs(n)
<1>1. Ready(dag, state) /\ ShapeOK
  BY FlowFacts DEF FreshOK, Values
<1>2. ASSUME NEW e \in shape.feeds, e[2] = n, e[1] \notin shape.locked
      PROVE  e[1] \in Current
  <2>1. e \in Carrying /\ e[1] \in Nodes
    BY <1>1, <1>2, ShapeFacts DEF Carrying
  <2>. QED BY <1>1, <1>2, <2>1 DEF Ready, Current
<1>. QED BY <1>2 DEF Eval!HasInputs

-----------------------------------------------------------------------------
(* Steps that are none of the evaluation, and those that only fail.        *)

(* Nothing changes of the values and of what executes.                     *)
LEMMA Stutters ==
  ASSUME UNCHANGED <<shape, state, ran, failing>>, Running' = Running, Busy' = Busy
  PROVE  Evaluates
<1>1. Current' = Current /\ Stage' = Stage
  BY DEF Current, Stage
<1>. QED BY <1>1 DEF Evaluates, Eval!evalVars

(* The driver's and the requests' steps around the nodes' execution.       *)
LEMMA AsideEvaluates ==
  ASSUME OrderlyFlows, EInv,
         \/ Wait \/ Recheck \/ PopEnds \/ ErrorWaits \/ ErrorWakes \/ LeaveGraph
         \/ Pause \/ Continue \/ CancelRun \/ CancelRaises
         \/ CancelTasks /\ Mapped # {}
         \/ \E g \in Graphs : PopGraph(g)
         \/ \E n \in Nodes : Take(n) \/ SeedDeferred(n) \/ OrphanEnds(n) \/ ValidatedLate(n)
         \/ Wake \/ EnterError
         \/ UNCHANGED vars
  PROVE  Evaluates
<1>1. CASE \/ Wait \/ Recheck \/ PopEnds \/ ErrorWaits \/ ErrorWakes \/ LeaveGraph
           \/ Pause \/ Continue \/ CancelRun \/ CancelRaises
           \/ \E g \in Graphs : PopGraph(g)
           \/ \E n \in Nodes : Take(n) \/ SeedDeferred(n) \/ OrphanEnds(n) \/ ValidatedLate(n)
           \/ UNCHANGED vars
  <2>1. UNCHANGED <<shape, state, ran, failing, cur, task>>
    BY <1>1 DEF Wait, Recheck, PopEnds, ErrorWaits, ErrorWakes, LeaveGraph, Pause, Continue,
                CancelRun, CancelRaises, PopGraph, Take, SeedDeferred, OrphanEnds, ValidatedLate,
                vars, machineVars
  <2>2. Running' = Running /\ Busy' = Busy
    BY <2>1 DEF Running, Busy
  <2>. QED BY <2>1, <2>2, Stutters
<1>2. CASE CancelTasks /\ Mapped # {}
  <2>1. /\ UNCHANGED <<shape, state, ran, failing, cur>>
        /\ task' = [n \in Nodes |-> IF task[n] = "running" THEN "cancelling" ELSE task[n]]
    BY <1>2 DEF CancelTasks
  <2>2. Running' = Running /\ Busy' = Busy
    BY <2>1 DEF Running, Busy, Live
  <2>. QED BY <2>1, <2>2, Stutters
<1>3. CASE Wake
  <2>1. /\ UNCHANGED <<shape, state, ran, failing, cur>>
        /\ task' = [n \in Nodes |-> IF n \in Finished THEN "none" ELSE task[n]]
    BY <1>3 DEF Wake
  <2>2. Running' = Running /\ Busy' = Busy
    BY <2>1 DEF Running, Busy, Live, Finished, Ended
  <2>. QED BY <2>1, <2>2, Stutters
<1>4. CASE EnterError
  <2>1. /\ UNCHANGED <<shape, state, ran, failing>> /\ drv.at = "failing" /\ cur' = "error"
        /\ task' = [n \in Nodes |-> IF n \in ToCancel THEN "cancelling" ELSE task[n]]
        /\ ToCancel \subseteq EveryRunning
    BY <1>4 DEF EnterError, ToCancel
  <2>2. Running /\ Running'
    BY <2>1, InDag DEF EInv, Running
  <2>3. Busy' = Busy
    BY <2>1 DEF Busy, Live, EveryRunning
  <2>. QED BY <2>1, <2>2, <2>3, Stutters
<1>. QED BY <1>1, <1>2, <1>3, <1>4

(* A node cannot be started, or fails.                                     *)
LEMMA FailEvaluates ==
  ASSUME OrderlyFlows, EInv, NEW n \in Nodes, CollectFails(n) \/ ValidationFails \/ WakeToFailure(n)
  PROVE  Evaluates
<1>1. /\ UNCHANGED <<shape, state, ran, cur>> /\ drv.at \in {"drain", "validating", "waiting"}
      /\ \/ task' = task
         \/ task' = [task EXCEPT ![n] = "none"] /\ task[n] \in {"failed", "cancelled"}
      /\ failing' = TRUE \/ failing' = failing
  BY DEF CollectFails, ValidationFails, WakeToFailure, Fail
<1>2. Busy' = Busy
  <2>1. TaskTypes
    BY FlowFacts
  <2>. QED BY <1>1, <2>1 DEF Busy, Live, TaskTypes
<1>3. Running /\ ~failing /\ Stage = "going" /\ Running' = Running
  BY <1>1, GoesWell DEF EInv, Running
<1>4. CASE failing' = failing
  BY <1>1, <1>2, <1>3, <1>4, Stutters
<1>5. CASE failing' = TRUE
  <2>1. Current' = Current /\ Stage' = "failed"
    BY <1>1, <1>3, <1>5 DEF Current, Stage
  <2>2. Eval!Fail
    BY <1>1, <1>2, <1>3, <2>1 DEF Eval!Fail
  <2>. QED BY <2>2 DEF Evaluates, Eval!EvalNext
<1>. QED BY <1>1, <1>4, <1>5

(* A node's execution ends.                                                *)
LEMMA TaskEndsEvaluates ==
  ASSUME OrderlyFlows, EInv, NEW n \in Nodes, TaskEnds(n)
  PROVE  Evaluates
<1>1. /\ UNCHANGED <<shape, state, ran, cur, failing>> /\ task[n] \in Live
      /\ \E end \in Ended : task' = [task EXCEPT ![n] = end]
  BY DEF TaskEnds, Ended
<1>2. n \in Busy /\ Busy' = Busy \ {n}
  <2>1. TaskTypes
    BY FlowFacts
  <2>. QED BY <1>1, <2>1 DEF Busy, Live, Ended, TaskTypes
<1>3. Current' = Current /\ Stage' = Stage
  BY <1>1 DEF Current, Stage, Running
<1>4. Eval!End(n)
  BY <1>1, <1>2, <1>3 DEF Eval!End
<1>. QED BY <1>4 DEF Evaluates, Eval!EvalNext

(* A run begins.                                                           *)
LEMMA StartFlowEvaluates ==
  ASSUME OrderlyFlows, EInv, NEW n \in Nodes, StartFlow(n)
  PROVE  Evaluates
<1>1. /\ UNCHANGED <<shape, state>> /\ ran' = {} /\ ~Running /\ Running' /\ failing' = FALSE
      /\ task' = [m \in Nodes |-> "none"]
  BY DEF StartFlow, NewMachine, Running
<1>2. Busy = {} /\ Busy' = {}
  BY <1>1, NothingBusy DEF EInv, Busy, Live
<1>3. Current' = Current /\ Stage = "off" /\ Stage' = "going"
  BY <1>1 DEF Current, Stage
<1>4. Eval!Begin
  BY <1>1, <1>2, <1>3 DEF Eval!Begin
<1>. QED BY <1>4 DEF Evaluates, Eval!EvalNext

-----------------------------------------------------------------------------
(* Steps that change values.                                               *)

(* What a step must show to settle values: what becomes current was        *)
(* evaluated or is locked, what no longer is has not started.              *)
LEMMA Settles ==
  ASSUME OrderlyFlows, EInv, UNCHANGED <<shape, ran, failing>>, Running, Running', Busy' = Busy,
         \A n \in Nodes : state'[n] = "resolved" /\ state[n] # "resolved" =>
           n \in shape.locked \/ (n \in ran /\ n \notin Busy /\ Eval!HasInputs(n)),
         \A n \in Nodes : state[n] = "resolved" /\ state'[n] # "resolved" => n \notin ran
  PROVE  Evaluates
<1>1. Stage' = Stage /\ Stage # "off"
  BY DEF Stage
<1>2. Eval!CanSettle(Current' \ Current)
  BY DEF Eval!CanSettle, Current
<1>3. (Current \ Current') \cap ran = {}
  BY DEF Current
<1>4. Eval!Settle(Current')
  BY <1>1, <1>2, <1>3 DEF Eval!Settle
<1>5. Current' \in SUBSET Nodes
  BY DEF Current
<1>. QED BY <1>4, <1>5 DEF Evaluates, Eval!EvalNext

(* Nothing has started while the run is seeded.                            *)
LEMMA SeedEvaluates ==
  ASSUME OrderlyFlows, EInv, (\E n \in Nodes : SeedEntry(n) \/ SeedSink(n)) \/ EnterDag
  PROVE  Evaluates
<1>1. /\ UNCHANGED <<shape, ran, failing, cur, task>> /\ drv.at = "seed"
      /\ \E S : state' = Unresolved(state, S)
  BY DEF SeedEntry, SeedSink, EnterDag, machineVars
<1>2. Running /\ cur = "dag" /\ Running' /\ Busy' = Busy
  BY <1>1, GoesWell DEF EInv, Running, Busy
<1>3. \A n \in Nodes : state'[n] = "resolved" => state[n] = "resolved"
  BY <1>1, FlowFacts DEF Unresolved, States
<1>4. ran = {}
  <2>1. \A n \in Nodes : dag.ref[n] \in {"absent", "waiting"}
    BY <1>1, <1>2, FlowFacts DEF FlowOK, SeedOK, SeedBut
  <2>. QED BY <1>2, <2>1, FlowFacts DEF RanOK
<1>. QED BY <1>1, <1>2, <1>3, <1>4, Settles

(* A node starts on current inputs, and what is below it has not started.  *)
LEMMA DispatchEvaluates ==
  ASSUME OrderlyFlows, EInv, Dispatch
  PROVE  Evaluates
<1>. DEFINE z == drv.node
            walk == Walk(z, swept)
            below == Downstream(z) \ {z}
<1>1. /\ PInv /\ FInv /\ OrderlyRuns
      /\ UNCHANGED <<shape, cur, failing>> /\ drv.at = "validating"
      /\ ran' = ran \cup {z} /\ task' = [task EXCEPT ![z] = "running"]
      /\ swept' = swept \cup walk
      /\ state' = [Unresolved(state, Marked(state, walk)) EXCEPT ![z] = "resolving"]
  BY DEF Dispatch, EInv, OrderlyFlows
<1>2. /\ cur = "dag" /\ z \in Nodes /\ dag.ref[z] = "queued" /\ z \notin shape.locked
      /\ state[z] # "resolved"
  BY <1>1, DispatchFacts
<1>3. Stage = "going" /\ Stage' = Stage
  BY <1>1, GoesWell DEF Stage, Running
<1>4. z \notin ran /\ Eval!HasInputs(z)
  <2>1. z \in Recorded(dag) /\ dag.ref[z] # "waiting"
    BY <1>2 DEF Recorded
  <2>2. z \notin ran
    BY <1>2, FlowFacts DEF RanOK
  <2>. QED BY <1>2, <2>1, <2>2, InputsIn
<1>5. Busy' = Busy \cup {z}
  BY <1>1, <1>2, FlowFacts DEF Busy, Live, TaskTypes
<1>6. /\ Downstream(z) \subseteq Nodes /\ z \in Downstream(z)
      /\ \A e \in Carrying : e[1] \in Downstream(z) => e[2] \in Downstream(z)
      /\ \A n \in Downstream(z) : n \notin shape.locked
  BY <1>2, FlowFacts, DownstreamFacts
<1>7. below \in SUBSET (Nodes \ ran')
  <2>. SUFFICES ASSUME NEW y \in below PROVE y \notin ran
    BY <1>1, <1>6
  <2>1. dag.ref[y] \in {"absent", "waiting"}
    BY <1>1, BelowWaits
  <2>. QED BY <1>2, <2>1, FlowFacts DEF RanOK
<1>8. ASSUME NEW e \in shape.feeds, e[1] \in below \cup {z}, e[2] \notin shape.locked
      PROVE  e[2] \in below
  <2>1. e \in Carrying /\ e[2] \in Downstream(z)
    BY <1>6, <1>8 DEF Carrying
  <2>2. /\ shape.feeds \in SUBSET (Nodes \X Nodes) /\ NoCycle(shape.feeds)
        /\ Carrying \subseteq shape.feeds
    BY FlowFacts, ShapeFacts DEF InLine
  <2>3. \A c \in shape.feeds : c[1] \in {z} \cup After(shape.feeds, z) => c[2] \in After(shape.feeds, z)
    BY <1>2, <2>2, AfterStep
  <2>4. Downstream(z) \subseteq {z} \cup After(shape.feeds, z)
    <3>1. Carrying \in SUBSET (Nodes \X Nodes) /\ Carrying \in SUBSET shape.feeds
      BY <2>2
    <3>2. Reach(Carrying, {z}) \subseteq {z} \cup After(Carrying, z)
      BY <1>2, <3>1, ReachIsAfter
    <3>3. After(Carrying, z) \subseteq After(shape.feeds, z)
      BY <1>2, <2>2, <3>1, AfterWider
    <3>. QED BY <3>2, <3>3 DEF Downstream
  <2>5. e[1] \in Downstream(z)
    BY <1>6, <1>8
  <2>6. e[2] \in After(shape.feeds, z)
    BY <2>3, <2>4, <2>5
  <2>7. e[2] # z
    BY <1>2, <2>2, <2>6, NoWayBack
  <2>. QED BY <2>1, <2>7
<1>9. Current' = Current \ (below \cup {z})
  <2>1. /\ SweptOK(state', swept') /\ z \in swept'
        /\ \A m \in Nodes : /\ state'[m] = "resolved" => state[m] = "resolved"
                            /\ state[m] = "resolved" /\ state'[m] # "resolved" =>
                                 m = z \/ m \in Marked(state, walk)
    <3>1. ShapeOK /\ state \in States /\ swept \subseteq Nodes /\ SweptOK(state, swept)
      BY <1>1, <1>2, FreshFacts
    <3>. DEFINE next == [Unresolved(state, Marked(state, Walk(z, swept))) EXCEPT ![z] = "resolving"]
    <3>2. /\ SweptOK(next, swept \cup Walk(z, swept)) /\ z \in swept \cup Walk(z, swept)
          /\ \A m \in Nodes : /\ next[m] = "resolved" => state[m] = "resolved"
                              /\ state[m] = "resolved" /\ next[m] # "resolved" =>
                                   m = z \/ m \in Marked(state, Walk(z, swept))
      BY <1>2, <3>1, SweepFacts
    <3>. QED BY <1>1, <3>2
  <2>2. \A m \in Marked(state, walk) : m \in Downstream(z)
    BY <1>2, FlowFacts, WalkFacts
  <2>3. Downstream(z) \subseteq swept'
    <3>1. swept' \cap Nodes \in SUBSET Nodes /\ {z} \subseteq swept' \cap Nodes
      BY <1>2, <2>1
    <3>2. \A e \in Carrying : e[1] \in Nodes /\ e[2] \in Nodes
      BY FlowFacts, ShapeFacts
    <3>3. \A e \in Carrying : e[1] \in swept' \cap Nodes => e[2] \in swept' \cap Nodes
      BY <2>1, <3>2 DEF SweptOK
    <3>4. Downstream(z) \subseteq swept' \cap Nodes
      BY <3>1, <3>3, ReachLeast DEF Downstream
    <3>. QED BY <3>4
  <2>4. \A m \in Downstream(z) : state'[m] # "resolved"
    BY <1>6, <2>1, <2>3 DEF SweptOK
  <2>. QED BY <1>6, <2>1, <2>2, <2>4 DEF Current
<1>. HIDE DEF below
<1>10. Eval!Start(z)
  BY <1>1, <1>2, <1>3, <1>4, <1>5, <1>7, <1>8, <1>9 DEF Eval!Start
<1>. QED BY <1>2, <1>10 DEF Evaluates, Eval!EvalNext

(* A node that is done is settled; where control goes on to has not        *)
(* started.                                                                *)
LEMMA PopNodeEvaluates ==
  ASSUME OrderlyFlows, EInv, NEW n \in Nodes, PopNode(n)
  PROVE  Evaluates
<1>. DEFINE freed == Dropped(dag, n)
            st == [state EXCEPT ![n] = "resolved"]
<1>1. /\ UNCHANGED <<shape, ran, failing, cur, task>> /\ drv.at = "popping" /\ IsDone(n)
      /\ OrderlyRuns /\ PInv /\ FInv /\ FlowRuns
  BY DEF PopNode, OrderlyFlows, EInv
<1>2. Running /\ cur = "dag" /\ Running' /\ Busy' = Busy
  BY <1>1, GoesWell DEF Running, Busy
<1>3. /\ n \in Recorded(dag) /\ (n \in shape.locked \/ dag.ref[n] = "done")
      /\ Advance(freed, st, n, drv.node) /\ st \in States
      /\ freed.dataOnly = dag.dataOnly /\ ~Over(dag, n)
  <2>1. n \in Recorded(dag) /\ (n \in shape.locked \/ dag.ref[n] = "done")
    BY <1>1 DEF IsDone
  <2>2. st \in States /\ Advance(freed, st, n, drv.node)
    BY <1>1, PopFacts
  <2>3. freed.dataOnly = dag.dataOnly /\ ~Over(dag, n)
    BY <1>1, PopFlow
  <2>. QED BY <2>1, <2>2, <2>3
<1>4. n \in shape.locked \/ (n \in ran /\ n \notin Busy /\ Eval!HasInputs(n))
  <2>. SUFFICES ASSUME n \notin shape.locked PROVE n \in ran /\ n \notin Busy /\ Eval!HasInputs(n)
    OBVIOUS
  <2>1. dag.ref[n] = "done" /\ n \in Recorded(dag)
    BY <1>3
  <2>2. n \in ran
    BY <1>2, <2>1, FlowFacts DEF FlowOK, RanDone
  <2>3. task[n] = "none"
    BY <1>1, <2>1, WorkFacts DEF Steady, TasksOK
  <2>. QED BY <2>1, <2>2, <2>3, InputsIn DEF Busy, Live
<1>. HIDE DEF freed
<1>5. \/ state' = st
      \/ /\ n \notin freed.dataOnly
         /\ \E e \in shape.wires : e[1] = n /\ state' = Unresolved(st, {e[2]} \ shape.locked)
  BY <1>3, FlowFacts, Zenon DEF Advance, ControlEnds, ControlGoesOn
<1>6. ASSUME NEW m \in Nodes, state[m] = "resolved", state'[m] # "resolved"
      PROVE  m \notin ran
  <2>1. st[m] = "resolved"
    BY <1>6, FlowFacts DEF States
  <2>2. PICK e \in shape.wires : /\ n \notin dag.dataOnly /\ e[1] = n
                                 /\ state' = Unresolved(st, {e[2]} \ shape.locked)
    BY <1>3, <1>5, <1>6, <2>1
  <2>3. m = e[2]
    BY <1>6, <2>1, <2>2 DEF Unresolved
  <2>4. /\ ShapeOK /\ FlowRuns /\ LineOK(dag, state)
    BY <1>2, FlowFacts DEF FlowOK
  <2>5. e[2] \notin Recorded(dag)
    BY <1>3, <2>2, <2>4, GoesOn
  <2>6. dag.ref[m] = "absent"
    BY <2>3, <2>5 DEF Recorded
  <2>. QED BY <1>2, <2>6, FlowFacts DEF RanOK
<1>7. \A m \in Nodes \ {n} : state'[m] = "resolved" => state[m] = "resolved"
  BY <1>5, FlowFacts DEF Unresolved, States
<1>. QED BY <1>1, <1>2, <1>4, <1>6, <1>7, Settles

-----------------------------------------------------------------------------
(* Steps that end a run.                                                   *)

(* What a step must show to stop a run: nothing is left executing, and     *)
(* what becomes current was evaluated.                                     *)
LEMMA Stops ==
  ASSUME EInv, UNCHANGED <<shape, ran>>, Running, ~Running', \A n \in Nodes : task'[n] \notin Live,
         \A n \in Nodes : state[n] = "resolved" => state'[n] = "resolved",
         \A n \in Nodes : state'[n] = "resolved" /\ state[n] # "resolved" =>
           n \in ran /\ n \notin Busy /\ Eval!HasInputs(n)
  PROVE  Evaluates
<1>. DEFINE S == Current' \ Current
<1>1. Stage # "off" /\ Stage' = "off"
  BY DEF Stage
<1>2. Busy' = {} /\ Current' = Current \cup S
  BY DEF Busy, Current
<1>3. Eval!CanSettle(S)
  BY DEF Eval!CanSettle, Current
<1>4. S \in SUBSET Nodes
  BY DEF Current
<1>. HIDE DEF S
<1>5. Eval!Stop(S)
  BY <1>1, <1>2, <1>3 DEF Eval!Stop
<1>. QED BY <1>4, <1>5 DEF Evaluates, Eval!EvalNext

(* A task that ended well leaves a value whose inputs are in.              *)
LEMMA PublishedFacts ==
  ASSUME OrderlyFlows, EInv, NEW n \in Nodes, task[n] = "ok"
  PROVE  n \in ran /\ n \notin Busy /\ Eval!HasInputs(n)
<1>1. dag.ref[n] = "processing"
  BY WorkFacts DEF EInv, Steady, TasksOK
<1>2. n \in Recorded(dag) /\ n \notin shape.locked
  BY <1>1, WorkFacts DEF EInv, Steady, GraphsOK, WorkIsReady, Recorded
<1>. QED BY <1>1, <1>2, InputsIn DEF EInv, TaskRan, Busy, Live

(* A run that failed, or is cancelled, sees to the tasks it has left.      *)
LEMMA ErrorReapsEvaluates ==
  ASSUME OrderlyFlows, EInv, ErrorReaps
  PROVE  Evaluates
<1>. DEFINE published == {n \in Finished : task[n] = "ok"}
            after == [n \in Nodes |-> IF n \in published THEN "resolved" ELSE state[n]]
<1>1. /\ UNCHANGED <<shape, ran, failing>> /\ drv.at = "error"
      /\ task' = [n \in Nodes |-> IF n \in Finished THEN "none" ELSE task[n]]
      /\ \/ Mapped \subseteq Finished /\ state' = GivenBack(after) /\ cur' = "complete"
         \/ state' = after /\ cur' = cur
  BY DEF ErrorReaps, Complete
<1>2. Running
  BY <1>1 DEF EInv, PInv, DriverOK, Running
<1>3. after \in States /\ \A m \in Nodes : after[m] = IF m \in published THEN "resolved" ELSE state[m]
  BY FlowFacts DEF States
<1>4. \A m \in Nodes : state'[m] = "resolved" <=> m \in published \/ state[m] = "resolved"
  BY <1>1, <1>3, GivenBackResolved
<1>5. \A m \in published : m \in ran /\ m \notin Busy /\ Eval!HasInputs(m)
  BY PublishedFacts DEF Finished
<1>. HIDE DEF published, after
<1>6. CASE Mapped \subseteq Finished /\ cur' = "complete"
  <2>1. \A n \in Nodes : task'[n] \notin Live
    BY <1>1, <1>6 DEF Mapped, Live
  <2>2. ~Running'
    BY <1>6 DEF Running
  <2>. QED BY <1>1, <1>2, <1>4, <1>5, <2>1, <2>2, Stops
<1>7. CASE cur' = cur
  <2>1. Running' /\ Busy' = Busy
    BY <1>1, <1>2, <1>7 DEF Running, Busy, Live, Finished, Ended
  <2>. QED BY <1>1, <1>2, <1>4, <1>5, <2>1, Settles
<1>. QED BY <1>1, <1>6, <1>7

(* A run is torn down, if there is one.                                    *)
LEMMA ResetEvaluates ==
  ASSUME OrderlyFlows, EInv, Reset
  PROVE  Evaluates
<1>1. /\ UNCHANGED <<shape, ran, failing>> /\ task' = [n \in Nodes |-> "none"]
      /\ state' = GivenBack(state) /\ ~Running'
  BY DEF Reset, Running
<1>2. \A n \in Nodes : task'[n] \notin Live
  BY <1>1 DEF Live
<1>3. \A m \in Nodes : state'[m] = "resolved" <=> state[m] = "resolved"
  BY <1>1, FlowFacts, GivenBackResolved
<1>4. CASE Running
  BY <1>1, <1>2, <1>3, <1>4, Stops
<1>5. CASE ~Running
  <2>1. Busy = {} /\ Busy' = {}
    BY <1>2, <1>5, NothingBusy DEF EInv, Busy, Live
  <2>2. Current' = Current /\ Stage = "off" /\ Stage' = "off"
    BY <1>1, <1>3, <1>5 DEF Current, Stage
  <2>. QED BY <1>1, <2>1, <2>2 DEF Evaluates, Eval!evalVars
<1>. QED BY <1>4, <1>5

(* What the run was asked for is what it was seeded with.                  *)
LEMMA AskedIsSeeded ==
  Eval!AskedFor(shape) = Entries(shape) \cup Sinks(shape)
  BY DEF Eval!AskedFor, Entries, Sinks, Wired

(* The run goes on, completes, or ends with only canceled nodes left.      *)
LEMMA UpdateEvaluates ==
  ASSUME GraphsAssumption, MachineAssumption, OrderlyFlows, EInv, Update
  PROVE  Evaluates
<1>1. UNCHANGED <<shape, state, task, ran, failing>> /\ drv.at = "update"
  BY DEF Update
<1>2. Running /\ cur = "dag" /\ ~failing /\ Stage = "going"
  BY <1>1, GoesWell DEF EInv
<1>3. CASE cur' = cur
  <2>1. Running' = Running /\ Busy' = Busy
    BY <1>1, <1>3 DEF Running, Busy
  <2>. QED BY <1>1, <2>1, Stutters
<1>4. CASE cur' # cur
  <2>1. cur' = "complete" /\ ~Running'
    BY <1>4 DEF Update, Complete, Running
  <2>2. [Next]_vars
    BY DEF Next, Driver
  <2>3. PInv'
    BY <2>2, StepPInv DEF EInv
  <2>4. \A n \in Nodes : task'[n] = "none"
    <3>1. (PInv /\ ~Running => \A n \in Nodes : task[n] = "none")'
      BY NothingBusy, PTL
    <3>. QED BY <2>1, <2>3, <3>1
  <2>5. CASE wfs' # "complete"
    BY <1>1, <1>2, <2>1, <2>4, Stops DEF Live
  <2>6. CASE wfs' = "complete"
    <3>1. Completing
      BY <1>2, <2>1, <2>6, FlowFacts DEF Completing, FlowRun
    <3>3. /\ Entries(shape) \cup Sinks(shape) \subseteq ran \cup shape.locked
          /\ \A n \in ran : state[n] = "resolved"
      BY <2>2, <3>1, CompletesWhole DEF OrderlyFlows, EInv
    <3>4. Current' = Current /\ Busy' = Busy /\ Busy = {} /\ Stage' = "off"
      BY <1>1, <2>1, <2>4 DEF Current, Busy, Live, Stage
    <3>5. ran \subseteq Current
      BY <3>3, FlowFacts DEF Current
    <3>6. Eval!Complete
      BY <1>1, <1>2, <3>3, <3>4, <3>5, AskedIsSeeded DEF Eval!Complete
    <3>. QED BY <3>6 DEF Evaluates, Eval!EvalNext
  <2>. QED BY <2>5, <2>6
<1>. QED BY <1>3, <1>4

-----------------------------------------------------------------------------
(* The refinement.                                                         *)

(* Every step of the machine is a step of the evaluation or none.          *)
LEMMA StepEvaluates ==
  ASSUME GraphsAssumption, MachineAssumption, OrderlyFlows, EInv, [Next]_vars
  PROVE  Evaluates
<1>1. CASE \/ Wait \/ Recheck \/ PopEnds \/ ErrorWaits \/ ErrorWakes \/ LeaveGraph
           \/ Pause \/ Continue \/ CancelRun
           \/ \E g \in Graphs : PopGraph(g)
           \/ \E n \in Nodes : Take(n) \/ SeedDeferred(n) \/ OrphanEnds(n) \/ ValidatedLate(n)
           \/ Wake \/ EnterError
           \/ UNCHANGED vars
  BY <1>1, AsideEvaluates
<1>2. CASE \/ ValidationFails
           \/ \E n \in Nodes : CollectFails(n) \/ WakeToFailure(n)
  <2>1. Nodes # {} \/ ~ValidationFails
    BY WorkFacts DEF ValidationFails, EInv, Steady, SeesAsIs
  <2>. QED BY <1>2, <2>1, FailEvaluates
<1>3. CASE \E n \in Nodes : TaskEnds(n) \/ StartFlow(n) \/ PopNode(n)
  BY <1>3, TaskEndsEvaluates, StartFlowEvaluates, PopNodeEvaluates
<1>4. CASE (\E n \in Nodes : SeedEntry(n) \/ SeedSink(n)) \/ EnterDag
  BY <1>4, SeedEvaluates
<1>5. CASE Dispatch \/ Update \/ ErrorReaps
  BY <1>5, DispatchEvaluates, UpdateEvaluates, ErrorReapsEvaluates
<1>6. CASE Canceller
  <2>1. Reset \/ (CancelTasks /\ Mapped # {}) \/ CancelRaises
    BY <1>6, Zenon DEF Canceller, CancelTasks, CancelEnds
  <2>. QED BY <2>1, ResetEvaluates, AsideEvaluates
<1>7. Requests = {}
  BY FlowFacts
<1>. QED BY <1>1, <1>2, <1>3, <1>4, <1>5, <1>6, <1>7 DEF Next, Driver

(* No task is held of a node the run has not started.                      *)
LEMMA StepTaskRan ==
  ASSUME EInv, [Next]_vars
  PROVE  TaskRan'
<1>. SUFFICES ASSUME NEW n \in Nodes, task'[n] # "none" PROVE n \in ran'
  BY DEF TaskRan
<1>1. TaskTypes /\ (task[n] # "none" => n \in ran)
  BY TypeParts DEF EInv, TaskRan
<1>2. CASE Dispatch
  <2>1. ran' = ran \cup {drv.node} /\ task' = [task EXCEPT ![drv.node] = "running"]
    BY <1>2 DEF Dispatch
  <2>. QED BY <1>1, <2>1 DEF TaskTypes
<1>3. CASE task' = [m \in Nodes |-> "none"]
  BY <1>3
<1>4. CASE /\ ran' = ran
           /\ \/ task' = task
              \/ task' = [m \in Nodes |-> IF m \in Finished THEN "none" ELSE task[m]]
              \/ task' = [m \in Nodes |-> IF m \in ToCancel THEN "cancelling" ELSE task[m]]
              \/ task' = [m \in Nodes |-> IF task[m] = "running" THEN "cancelling" ELSE task[m]]
              \/ \E m \in Nodes : \E to : /\ task' = [task EXCEPT ![m] = to]
                                          /\ task[m] # "none"
  <2>1. \A m \in ToCancel : task[m] # "none"
    BY DEF ToCancel, EveryRunning
  <2>. QED BY <1>1, <1>4, <2>1 DEF TaskTypes
<1>5. CASE Driver
  <2>1. CASE (\E m \in Nodes : WakeToFailure(m)) \/ Wake \/ ErrorReaps \/ EnterError
    BY <1>4, <2>1 DEF WakeToFailure, Wake, ErrorReaps, EnterError
  <2>2. CASE \/ EnterDag \/ Update \/ Wait \/ ValidationFails \/ Recheck \/ LeaveGraph \/ PopEnds
             \/ ErrorWaits \/ ErrorWakes
             \/ \E m \in Nodes : SeedEntry(m) \/ SeedSink(m) \/ SeedDeferred(m) \/ Take(m)
                                   \/ CollectFails(m) \/ PopNode(m)
             \/ \E g \in Graphs : PopGraph(g)
    <3>1. task' = task /\ ran' = ran
      BY <2>2 DEF EnterDag, Update, Wait, ValidationFails, Recheck, LeaveGraph, PopEnds, ErrorWaits,
                  ErrorWakes, SeedEntry, SeedSink, SeedDeferred, Take, CollectFails, PopNode,
                  PopGraph, machineVars
    <3>. QED BY <1>4, <3>1
  <2>. QED BY <1>2, <1>5, <2>1, <2>2 DEF Driver
<1>6. CASE (\E m \in Nodes : StartFlow(m)) \/ (\E m \in Requests : ResolveNode(m))
  BY <1>3, <1>6 DEF StartFlow, ResolveNode, NewMachine
<1>7. CASE \E m \in Nodes : TaskEnds(m)
  BY <1>4, <1>7 DEF TaskEnds, Live
<1>8. CASE Canceller
  BY <1>3, <1>4, <1>8 DEF Canceller, CancelTasks, CancelRaises, CancelEnds, Reset, machineVars
<1>9. CASE \/ \E m \in Nodes : OrphanEnds(m) \/ ValidatedLate(m)
           \/ \E m \in Requests : Join(m) \/ ResolveInvalid(m)
           \/ Pause \/ Continue \/ CancelRun \/ UNCHANGED vars
  BY <1>4, <1>9 DEF OrphanEnds, ValidatedLate, Join, ResolveInvalid, Pause, Continue, CancelRun,
                    vars, machineVars
<1>. QED BY <1>5, <1>6, <1>7, <1>8, <1>9 DEF Next

(* It starts as the evaluation does.                                       *)
LEMMA InitEvaluates ==
  ASSUME MachineAssumption, Init
  PROVE  Eval!EvalInit /\ TaskRan
<1>1. /\ shape \in WorkflowShapes /\ ran = {} /\ ~Running
      /\ task = [n \in Nodes |-> "none"]
  BY DEF Init, MachineAssumption, Running
<1>2. Busy = {} /\ Stage = "off" /\ Current \subseteq Nodes /\ TaskRan
  BY <1>1 DEF Busy, Live, Stage, Current, TaskRan
<1>. QED BY <1>1, <1>2 DEF Eval!EvalInit, WorkflowShapes

(* A run of an orderly flow evaluates the workflow in the order of its     *)
(* data: each node once, on values that are current and stay so, nothing   *)
(* it was asked for left out if it completes, no task held when it ends;   *)
(* whatever fails, is paused or is cancelled and wherever control ends,    *)
(* for workflows of any size.                                              *)
THEOREM EvaluationImplemented ==
  ASSUME GraphsAssumption, MachineAssumption, OrderlyFlows
  PROVE  Spec => ImplementsEvaluation
<1>1. Init => Eval!EvalInit /\ EInv
  BY InitEvaluates, InitPInv, InitFInv DEF OrderlyFlows, EInv
<1>2. EInv /\ [Next]_vars => EInv' /\ [Eval!EvalNext]_(Eval!evalVars)
  <2>. SUFFICES ASSUME EInv, [Next]_vars PROVE EInv' /\ [Eval!EvalNext]_(Eval!evalVars)
    OBVIOUS
  <2>1. PInv' /\ FInv'
    BY StepPInv, StepFresh DEF OrderlyFlows, EInv
  <2>2. Evaluates
    BY StepEvaluates
  <2>. QED BY <2>1, <2>2, StepTaskRan DEF EInv, Evaluates
<1>. QED BY <1>1, <1>2, PTL DEF Spec, ImplementsEvaluation, Eval!EvalSpec
=============================================================================
