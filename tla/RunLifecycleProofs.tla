------------------------- MODULE RunLifecycleProofs -------------------------
(***************************************************************************)
(* Theorems about RunLifecycle, for any runs, flows, machine slots and     *)
(* overlapping cancel requests.                                            *)
(***************************************************************************)
EXTENDS RunLifecycle, TLAPS

-----------------------------------------------------------------------------
(* The inductive invariant. *)

Active == {"scheduled", "validating", "driving", "abandoning"}

(* The queue's books, for given values of its variables: a line l, the run *)
(* ip in progress and whether its driver goes on (dv), the run states, the *)
(* drivers, how often each run ended and what it was answered.             *)
QueueTypes(l, ip, dv, st, dr, en, out) ==
  /\ l \in Lines(Runs)
  /\ ip \in Runs \cup {None}
  /\ dv \in BOOLEAN
  /\ st \in [Runs -> RunStates]
  /\ dr \in [Runs -> DriverStates]
  /\ en \in [Runs -> Nat]
  /\ out \in [Runs -> Outcomes]

RunBooks(r, l, ip, dv, st, dr, en, out) ==
  /\ dr[r] \in Active <=> dv /\ ip = r
  /\ r \in DOMAIN l => ip # r /\ en[r] = 0 /\ st[r] = "queued" /\ out[r] = "none"
  /\ ip = r => en[r] = 0 /\ (dv <=> out[r] = "none") /\ out[r] # "twice"
  /\ en[r] > 0 => en[r] = 1 /\ out[r] \notin {"none", "twice"}
  /\ st[r] = "new" => ip # r /\ en[r] = 0 /\ out[r] = "none"
  /\ st[r] # "new" => r \in DOMAIN l \/ ip = r \/ en[r] > 0

QueueOK(l, ip, dv, st, dr, en, out) ==
  /\ QueueTypes(l, ip, dv, st, dr, en, out)
  /\ \A r \in Runs : RunBooks(r, l, ip, dv, st, dr, en, out)

QueueInv == QueueOK(line, inProgress, driving, state, driver, ended, outcome)

(* Only the current machine's flow goes on, and a machine a run holds is   *)
(* advanced by that run's driver, which holds no other.                    *)
MachInv ==
  /\ \A id \in MachineIds : mach[id].state = "resolving" => id = machine
  /\ \A id \in MachineIds, r \in Runs : mach[id].holder = r => driver[r] = "driving"
  /\ \A id, other \in MachineIds, r \in Runs :
       mach[id].holder = r /\ mach[other].holder = r => id = other

RestTypes ==
  /\ cancelling \in BOOLEAN /\ queued \in BOOLEAN
  /\ machine \in MachineIds \cup {None}
  /\ mach \in [MachineIds -> Machines]
  /\ cancels \in [Cancels -> CancelStates \cup {NoCancel}]
  /\ deleted \in SUBSET Flows

IInv == RestTypes /\ QueueInv /\ MachInv /\ NoStuckRun

-----------------------------------------------------------------------------
(* Lines. *)

(* A line is a function from waiting runs to the runs ahead of them. *)
LEMMA LineFunction ==
  \A S, l : l \in Lines(S) <=> DOMAIN l \subseteq S /\ l \in [DOMAIN l -> SUBSET S]
  BY DEF Lines

(* Enqueueing a run and removing some leave a line. *)
LEMMA LineOps ==
  ASSUME NEW S, NEW l \in Lines(S)
  PROVE  /\ \A r \in S : Enqueue(l, r) \in Lines(S)
         /\ \A G : Remove(l, G) \in Lines(S)
         /\ Heads(l) \subseteq DOMAIN l
         /\ DOMAIN l \subseteq S
<1>1. DOMAIN l \subseteq S /\ l \in [DOMAIN l -> SUBSET S]
  BY LineFunction
<1>2. ASSUME NEW r \in S PROVE Enqueue(l, r) \in Lines(S)
  <2>1. DOMAIN Enqueue(l, r) \subseteq S
    BY <1>1 DEF Enqueue
  <2>2. Enqueue(l, r) \in [DOMAIN Enqueue(l, r) -> SUBSET S]
    BY <1>1 DEF Enqueue
  <2>. QED BY <2>1, <2>2, LineFunction
<1>3. ASSUME NEW G PROVE Remove(l, G) \in Lines(S)
  <2>1. DOMAIN Remove(l, G) \subseteq S
    BY <1>1 DEF Remove
  <2>2. Remove(l, G) \in [DOMAIN Remove(l, G) -> SUBSET S]
    BY <1>1 DEF Remove
  <2>. QED BY <2>1, <2>2, LineFunction
<1>. QED BY <1>1, <1>2, <1>3 DEF Heads

-----------------------------------------------------------------------------
(* The steps several handlers end with keep the books. *)

(* With no run in progress, starting the next one keeps the books. *)
LEMMA StartNextKeepsBooks ==
  ASSUME RunsAssumption,
         NEW l, NEW st, NEW dr, NEW en, NEW out,
         QueueOK(l, None, FALSE, st, dr, en, out),
         StartNextRunIfIdle(l, st, dr)
  PROVE  /\ QueueOK(line', inProgress', driving', state', driver', en, out)
         /\ inProgress' = None \/ driving'
         /\ \A r \in Runs : driver'[r] = dr[r] \/ driver'[r] = "scheduled"
<1>1. CASE cancelling \/ Heads(l) = {}
  BY <1>1 DEF StartNextRunIfIdle, QueueOK
<1>2. CASE ~(cancelling \/ Heads(l) = {})
  <2>1. PICK next \in Heads(l) :
          /\ inProgress' = next /\ driving' = TRUE
          /\ line' = Remove(l, {next})
          /\ state' = [st EXCEPT ![next] = "running"]
          /\ driver' = [dr EXCEPT ![next] = "scheduled"]
    BY <1>2 DEF StartNextRunIfIdle
  <2>2. l \in Lines(Runs) /\ next \in DOMAIN l /\ next \in Runs
    BY LineOps DEF QueueOK, QueueTypes
  <2>3. DOMAIN line' = DOMAIN l \ {next}
    BY <2>1 DEF Remove
  <2>4. QueueTypes(line', inProgress', driving', state', driver', en, out)
    BY <2>1, <2>2, LineOps DEF QueueOK, QueueTypes, RunStates, DriverStates
  <2>5. ASSUME NEW r \in Runs
        PROVE  RunBooks(r, line', inProgress', driving', state', driver', en, out)
    BY <2>1, <2>2, <2>3 DEF QueueOK, QueueTypes, RunBooks, Active, RunsAssumption
  <2>6. \A r \in Runs : driver'[r] = dr[r] \/ driver'[r] = "scheduled"
    BY <2>1 DEF QueueOK, QueueTypes
  <2>. QED BY <2>1, <2>4, <2>5, <2>6 DEF QueueOK
<1>. QED BY <1>1, <1>2

(* Ending the run in progress keeps the books, whatever state it ends in,  *)
(* if its request is answered and no driver goes on.                       *)
LEMMA FinishRunKeepsBooks ==
  ASSUME RunsAssumption,
         NEW run \in Runs, NEW l, NEW st, NEW dr, NEW en, NEW out,
         inProgress = run,
         QueueOK(l, run, FALSE, st, dr, en, out),
         FinishRun(run, l, st, dr, en)
  PROVE  /\ QueueOK(line', inProgress', driving', state', driver', ended', out)
         /\ inProgress' = None \/ driving'
         /\ \A r \in Runs : driver'[r] = dr[r] \/ driver'[r] = "scheduled"
<1>1. /\ ended' = [en EXCEPT ![run] = @ + 1]
      /\ StartNextRunIfIdle(l, st, dr)
  BY DEF FinishRun
<1>2. QueueOK(l, None, FALSE, st, dr, ended', out)
  <2>1. QueueTypes(l, None, FALSE, st, dr, ended', out)
    BY <1>1 DEF QueueOK, QueueTypes
  <2>2. ASSUME NEW r \in Runs PROVE RunBooks(r, l, None, FALSE, st, dr, ended', out)
    <3>1. RunBooks(r, l, run, FALSE, st, dr, en, out) /\ ended'[r] = IF r = run THEN en[r] + 1 ELSE en[r]
      BY <1>1 DEF QueueOK, QueueTypes
    <3>2. en[r] \in Nat /\ r # None /\ out[r] \in Outcomes
      BY DEF QueueOK, QueueTypes, RunsAssumption
    <3>. QED BY <3>1, <3>2 DEF RunBooks, Active, Outcomes
  <2>. QED BY <2>1, <2>2 DEF QueueOK
<1>. QED BY <1>1, <1>2, StartNextKeepsBooks

(* Ending a paused run that is over keeps the books, and no run is left in *)
(* progress with nothing that will end it.                                 *)
LEMMA FinishRunIfOverKeepsBooks ==
  ASSUME RunsAssumption,
         NEW mc, NEW cur, NEW l, NEW st, NEW en, NEW out,
         QueueOK(l, inProgress, driving, st, driver, en, out),
         FinishRunIfOver(mc, cur, l, st, en)
  PROVE  /\ QueueOK(line', inProgress', driving', state', driver', ended', out)
         /\ inProgress' # None /\ ~driving' => FlowRunning(mc, cur) \/ RunAdvancing(mc, cur)
         /\ \A r \in Runs : driver[r] \in Active => driver'[r] = driver[r]
<1>1. CASE inProgress = None \/ driving \/ RunAdvancing(mc, cur) \/ FlowRunning(mc, cur)
  BY <1>1 DEF FinishRunIfOver, QueueOK
<1>2. CASE ~(inProgress = None \/ driving \/ RunAdvancing(mc, cur) \/ FlowRunning(mc, cur))
  <2> DEFINE st2 == [st EXCEPT ![inProgress] = IF @ = "paused" THEN "finished" ELSE @]
  <2>1. inProgress \in Runs /\ driving = FALSE
    BY <1>2 DEF QueueOK, QueueTypes
  <2>2. FinishRun(inProgress, l, st2, driver, en)
    BY <1>2 DEF FinishRunIfOver
  <2>3. QueueOK(l, inProgress, FALSE, st2, driver, en, out)
    BY <2>1 DEF QueueOK, QueueTypes, RunBooks, RunStates
  <2>. HIDE DEF st2
  <2>4. \A r \in Runs : driver[r] \notin Active
    BY <2>1, <2>3 DEF QueueOK, RunBooks
  <2>. QED BY <2>1, <2>2, <2>3, <2>4, FinishRunKeepsBooks
<1>. QED BY <1>1, <1>2

(* A driver's request returning keeps the books: its run is paused while   *)
(* its flow goes on, and ends otherwise.                                   *)
LEMMA ReturnKeepsBooks ==
  ASSUME RunsAssumption, QueueInv,
         NEW run \in Runs, driver[run] \in Active,
         NEW result \in {"ok", "failed"}, NEW mc, NEW cur,
         Return(run, result, mc, cur)
  PROVE  /\ QueueInv'
         /\ inProgress' # None /\ ~driving' => FlowRunning(mc, cur)
         /\ \A r \in Runs : driver'[r] # "driving" /\ (r # run => driver[r] # "driving")
<1> DEFINE dr == [driver EXCEPT ![run] = "over"]
           st == [state EXCEPT ![run] = IF @ # "running" THEN @
                                        ELSE IF result = "ok" THEN "finished" ELSE "failed"]
<1>1. inProgress = run /\ driving /\ outcome[run] = "none"
  BY DEF QueueInv, QueueOK, RunBooks
<1>2. outcome' = [outcome EXCEPT ![run] = result]
  BY <1>1 DEF Return, Answer, QueueInv, QueueOK, QueueTypes
<1>3. dr \in [Runs -> DriverStates] /\ \A r \in Runs : dr[r] = IF r = run THEN "over" ELSE driver[r]
  BY DEF QueueInv, QueueOK, QueueTypes, DriverStates
<1>4. outcome' \in [Runs -> Outcomes] /\ \A r \in Runs : outcome'[r] = IF r = run THEN result ELSE outcome[r]
  BY <1>2 DEF QueueInv, QueueOK, QueueTypes, Outcomes
<1>5. \A s \in [Runs -> RunStates] :
        (\A r \in Runs : r # run => s[r] = state[r]) /\ s[run] # "new"
           => QueueOK(line, run, FALSE, s, dr, ended, outcome')
  <2> SUFFICES ASSUME NEW s \in [Runs -> RunStates],
                      \A r \in Runs : r # run => s[r] = state[r], s[run] # "new"
               PROVE  QueueOK(line, run, FALSE, s, dr, ended, outcome')
    OBVIOUS
  <2>1. QueueTypes(line, run, FALSE, s, dr, ended, outcome')
    BY <1>3, <1>4 DEF QueueInv, QueueOK, QueueTypes
  <2>2. ASSUME NEW r \in Runs PROVE RunBooks(r, line, run, FALSE, s, dr, ended, outcome')
    BY <1>1, <1>3, <1>4 DEF QueueInv, QueueOK, RunBooks, Active
  <2>. QED BY <2>1, <2>2 DEF QueueOK
<1>6. state[run] # "new" /\ \A r \in Runs : r # run => driver[r] \notin Active
  BY <1>1 DEF QueueInv, QueueOK, RunBooks
<1>7. CASE FlowRunning(mc, cur)
  <2>1. /\ state' = [state EXCEPT ![run] = "paused"]
        /\ driver' = dr /\ driving' = FALSE
        /\ UNCHANGED <<line, inProgress, ended>>
    BY <1>7 DEF Return
  <2>2. state' \in [Runs -> RunStates] /\ (\A r \in Runs : r # run => state'[r] = state[r])
        /\ state'[run] # "new"
    BY <2>1 DEF QueueInv, QueueOK, QueueTypes, RunStates
  <2>3. QueueOK(line, run, FALSE, state', dr, ended, outcome')
    BY <2>2, <1>5
  <2>4. QueueInv'
    BY <2>1, <2>3, <1>1 DEF QueueInv
  <2>. QED BY <2>1, <2>4, <1>3, <1>6, <1>7 DEF Active
<1>8. CASE ~FlowRunning(mc, cur)
  <2>1. FinishRun(run, line, st, dr, ended)
    BY <1>8 DEF Return
  <2>2. st \in [Runs -> RunStates] /\ (\A r \in Runs : r # run => st[r] = state[r]) /\ st[run] # "new"
    BY <1>6 DEF QueueInv, QueueOK, QueueTypes, RunStates
  <2>. HIDE DEF st, dr
  <2>3. QueueOK(line, run, FALSE, st, dr, ended, outcome')
    BY <2>2, <1>5
  <2>4. /\ QueueOK(line', inProgress', driving', state', driver', ended', outcome')
        /\ inProgress' = None \/ driving'
        /\ \A r \in Runs : driver'[r] = dr[r] \/ driver'[r] = "scheduled"
    BY <2>1, <2>3, <1>1, FinishRunKeepsBooks
  <2>. QED BY <2>4, <1>3, <1>6 DEF QueueInv, Active
<1>. QED BY <1>7, <1>8

(* Turning waiting runs away keeps the books. *)
LEMMA TurnAwayKeepsBooks ==
  ASSUME RunsAssumption, QueueInv, NEW gone \in SUBSET DOMAIN line, TurnAway(gone)
  PROVE  QueueOK(Remove(line, gone), inProgress, driving, TurnedAwayState(state, gone), driver,
                 TurnedAwayEnded(gone), outcome')
<1> DEFINE st == TurnedAwayState(state, gone)
           en == TurnedAwayEnded(gone)
<1>1. gone \subseteq Runs /\ DOMAIN Remove(line, gone) = DOMAIN line \ gone
  BY LineOps DEF Remove, QueueInv, QueueOK, QueueTypes
<1>2. QueueTypes(Remove(line, gone), inProgress, driving, st, driver, en, outcome')
  BY LineOps DEF QueueInv, QueueOK, QueueTypes, TurnAway, TurnedAwayState, TurnedAwayEnded,
                 RunStates, Outcomes
<1>3. \A r \in Runs :
        /\ st[r] = IF r \in gone THEN "cancelled" ELSE state[r]
        /\ en[r] = IF r \in gone THEN ended[r] + 1 ELSE ended[r]
        /\ outcome'[r] = IF r \notin gone THEN outcome[r]
                         ELSE IF outcome[r] = "none" THEN "refused" ELSE "twice"
        /\ ended[r] \in Nat
  BY DEF TurnAway, TurnedAwayState, TurnedAwayEnded, QueueInv, QueueOK, QueueTypes
<1>. HIDE DEF st, en
<1>4. ASSUME NEW r \in Runs
      PROVE  RunBooks(r, Remove(line, gone), inProgress, driving, st, driver, en, outcome')
  BY <1>1, <1>3 DEF QueueInv, QueueOK, RunBooks, Active
<1>. QED BY <1>2, <1>4 DEF QueueOK, st, en

(* Marking the run in progress cancelled keeps the books. *)
LEMMA MarkCancelledKeepsBooks ==
  ASSUME RunsAssumption, NEW l, NEW st, NEW en, NEW out,
         QueueOK(l, inProgress, driving, st, driver, en, out)
  PROVE  QueueOK(l, inProgress, driving, MarkCancelled(st), driver, en, out)
<1> DEFINE s == MarkCancelled(st)
<1>1. s \in [Runs -> RunStates] /\ \A r \in Runs : s[r] = IF r = inProgress THEN "cancelled" ELSE st[r]
  BY DEF MarkCancelled, QueueOK, QueueTypes, RunStates, RunsAssumption
<1>. HIDE DEF s
<1>2. QueueTypes(l, inProgress, driving, s, driver, en, out)
  BY <1>1 DEF QueueOK, QueueTypes
<1>3. ASSUME NEW r \in Runs PROVE RunBooks(r, l, inProgress, driving, s, driver, en, out)
  BY <1>1 DEF QueueOK, QueueTypes, RunBooks
<1>. QED BY <1>2, <1>3 DEF QueueOK, s

(* A step that leaves the machines alone keeps what holds of them, if no   *)
(* driver stops driving.                                                   *)
LEMMA MachInvKept ==
  ASSUME MachInv, UNCHANGED <<machine, mach>>,
         \A r \in Runs : driver[r] = "driving" => driver'[r] = "driving"
  PROVE  MachInv'
  BY DEF MachInv

-----------------------------------------------------------------------------
(* Every action keeps the invariant.  Submitting and withdrawing runs.     *)

LEMMA SubmitRunKeeps ==
  ASSUME RunsAssumption, IInv, NEW run \in Runs, SubmitRun(run)
  PROVE  IInv'
<1> DEFINE l == Enqueue(line, run)
           st == [state EXCEPT ![run] = "queued"]
<1>1. /\ state[run] = "new"
      /\ UNCHANGED <<cancelling, queued, outcome, ended, machine, mach, cancels, deleted>>
  BY DEF SubmitRun
<1>2. QueueOK(l, inProgress, driving, st, driver, ended, outcome)
  <2>1. QueueTypes(l, inProgress, driving, st, driver, ended, outcome)
    BY LineOps DEF IInv, QueueInv, QueueOK, QueueTypes, RunStates
  <2>2. DOMAIN l = DOMAIN line \cup {run}
        /\ \A r \in Runs : st[r] = IF r = run THEN "queued" ELSE state[r]
    BY DEF Enqueue, IInv, QueueInv, QueueOK, QueueTypes
  <2>. HIDE DEF l, st
  <2>3. ASSUME NEW r \in Runs
        PROVE  RunBooks(r, l, inProgress, driving, st, driver, ended, outcome)
    BY <1>1, <2>2 DEF IInv, QueueInv, QueueOK, RunBooks
  <2>. QED BY <2>1, <2>3 DEF QueueOK
<1>3. RestTypes'
  BY <1>1 DEF IInv, RestTypes
<1>4. CASE inProgress # None
  <2>1. line' = l /\ state' = st /\ UNCHANGED <<inProgress, driving, driver>>
    BY <1>4 DEF SubmitRun
  <2>2. QueueInv'
    BY <1>1, <1>2, <2>1 DEF QueueInv
  <2>3. MachInv' /\ NoStuckRun'
    BY <1>1, <2>1 DEF IInv, MachInv, NoStuckRun, FlowRunning, RunAdvancing
  <2>. QED BY <1>3, <2>2, <2>3 DEF IInv
<1>5. CASE inProgress = None
  <2>1. StartNextRunIfIdle(l, st, driver)
    BY <1>5 DEF SubmitRun
  <2>2. \A r \in Runs : driver[r] \notin Active
    BY <1>5 DEF IInv, QueueInv, QueueOK, RunBooks, RunsAssumption
  <2>3. QueueOK(l, None, FALSE, st, driver, ended, outcome)
    BY <1>2, <1>5, <2>2 DEF QueueOK, QueueTypes, RunBooks, RunsAssumption
  <2>. HIDE DEF l, st
  <2>4. QueueInv' /\ (inProgress' = None \/ driving')
    BY <1>1, <2>1, <2>3, StartNextKeepsBooks DEF QueueInv
  <2>5. MachInv' /\ NoStuckRun'
    BY <1>1, <2>2, <2>4, MachInvKept DEF IInv, NoStuckRun, Active
  <2>. QED BY <1>3, <2>4, <2>5 DEF IInv
<1>. QED BY <1>4, <1>5

LEMMA CancelWaitingRunKeeps ==
  ASSUME RunsAssumption, IInv, NEW run \in Runs, CancelWaitingRun(run)
  PROVE  IInv'
<1>1. /\ run \in DOMAIN line /\ TurnAway({run})
      /\ line' = Remove(line, {run}) /\ state' = TurnedAwayState(state, {run})
      /\ ended' = TurnedAwayEnded({run})
      /\ UNCHANGED <<inProgress, driving, driver, cancelling, queued, machine, mach, cancels, deleted>>
  BY DEF CancelWaitingRun
<1>2. QueueInv'
  BY <1>1, TurnAwayKeepsBooks DEF IInv, QueueInv
<1>3. RestTypes' /\ MachInv' /\ NoStuckRun'
  BY <1>1 DEF IInv, RestTypes, MachInv, NoStuckRun, FlowRunning, RunAdvancing
<1>. QED BY <1>2, <1>3 DEF IInv

-----------------------------------------------------------------------------
(* The driver. *)

(* A request that returns before its flow starts leaves the machines be.   *)
LEMMA EarlyReturnKeeps ==
  ASSUME RunsAssumption, IInv, NEW run \in Runs, driver[run] \in {"scheduled", "validating"},
         Return(run, "failed", mach, machine),
         UNCHANGED <<cancelling, queued, machine, mach, cancels, deleted>>
  PROVE  IInv'
<1>1. driver[run] \in Active
  BY DEF Active
<1>2. /\ QueueInv'
      /\ inProgress' # None /\ ~driving' => FlowRunning(mach, machine)
      /\ \A r \in Runs : driver'[r] # "driving" /\ (r # run => driver[r] # "driving")
  BY <1>1, ReturnKeepsBooks DEF IInv
<1>3. RestTypes' /\ NoStuckRun'
  BY <1>2 DEF IInv, RestTypes, NoStuckRun, FlowRunning
<1>4. MachInv'
  BY <1>2, MachInvKept DEF IInv
<1>. QED BY <1>2, <1>3, <1>4 DEF IInv

LEMMA DriveCancelledKeeps ==
  ASSUME RunsAssumption, IInv, NEW run \in Runs, DriveCancelled(run)
  PROVE  IInv'
<1> DEFINE dr == [driver EXCEPT ![run] = "over"]
<1>1. /\ driver[run] = "scheduled" /\ state[run] = "cancelled"
      /\ outcome' = Answer(outcome, run, "refused")
      /\ FinishRun(run, line, state, dr, ended)
      /\ UNCHANGED <<cancelling, queued, machine, mach, cancels, deleted>>
  BY DEF DriveCancelled
<1>2. /\ inProgress = run /\ driving /\ outcome[run] = "none"
      /\ \A r \in Runs : r # run => driver[r] \notin Active
  BY <1>1 DEF IInv, QueueInv, QueueOK, RunBooks, Active
<1>3. outcome' = [outcome EXCEPT ![run] = "refused"]
  BY <1>1, <1>2 DEF Answer, IInv, QueueInv, QueueOK, QueueTypes
<1>4. QueueOK(line, run, FALSE, state, dr, ended, outcome')
  <2>1. QueueTypes(line, run, FALSE, state, dr, ended, outcome')
    BY <1>3 DEF IInv, QueueInv, QueueOK, QueueTypes, DriverStates, Outcomes
  <2>2. \A r \in Runs : /\ dr[r] = IF r = run THEN "over" ELSE driver[r]
                        /\ outcome'[r] = IF r = run THEN "refused" ELSE outcome[r]
    BY <1>3 DEF IInv, QueueInv, QueueOK, QueueTypes
  <2>. HIDE DEF dr
  <2>3. ASSUME NEW r \in Runs PROVE RunBooks(r, line, run, FALSE, state, dr, ended, outcome')
    BY <1>2, <2>2 DEF IInv, QueueInv, QueueOK, RunBooks, Active
  <2>. QED BY <2>1, <2>3 DEF QueueOK
<1>5. \A r \in Runs : driver[r] # "driving"
  BY <1>1, <1>2 DEF Active
<1>. HIDE DEF dr
<1>6. QueueInv' /\ (inProgress' = None \/ driving')
  BY <1>1, <1>2, <1>4, FinishRunKeepsBooks DEF QueueInv
<1>7. RestTypes' /\ NoStuckRun'
  BY <1>1, <1>6 DEF IInv, RestTypes, NoStuckRun
<1>8. MachInv'
  BY <1>1, <1>5, MachInvKept DEF IInv
<1>. QED BY <1>6, <1>7, <1>8 DEF IInv

LEMMA DriveValidatesKeeps ==
  ASSUME RunsAssumption, IInv, NEW run \in Runs, DriveValidates(run)
  PROVE  IInv'
<1>1. /\ driver[run] = "scheduled" /\ driver' = [driver EXCEPT ![run] = "validating"]
      /\ queued' \in BOOLEAN
      /\ UNCHANGED <<line, inProgress, driving, state, ended, outcome, cancelling, machine, mach,
                     cancels, deleted>>
  BY DEF DriveValidates, IInv, RestTypes
<1>2. driver' \in [Runs -> DriverStates]
      /\ \A r \in Runs : driver'[r] = IF r = run THEN "validating" ELSE driver[r]
  BY <1>1 DEF IInv, QueueInv, QueueOK, QueueTypes, DriverStates
<1>3. QueueInv'
  <2>1. QueueTypes(line', inProgress', driving', state', driver', ended', outcome')
    BY <1>1, <1>2 DEF IInv, QueueInv, QueueOK, QueueTypes
  <2>2. ASSUME NEW r \in Runs
        PROVE  RunBooks(r, line', inProgress', driving', state', driver', ended', outcome')
    BY <1>1, <1>2 DEF IInv, QueueInv, QueueOK, RunBooks, Active
  <2>. QED BY <2>1, <2>2 DEF QueueInv, QueueOK
<1>4. RestTypes' /\ NoStuckRun'
  BY <1>1 DEF IInv, RestTypes, NoStuckRun, FlowRunning, RunAdvancing
<1>5. MachInv'
  BY <1>1, <1>2, MachInvKept DEF IInv
<1>. QED BY <1>3, <1>4, <1>5 DEF IInv

LEMMA StartFlowKeeps ==
  ASSUME RunsAssumption, IInv, NEW run \in Runs, NEW id \in MachineIds, NEW debug \in BOOLEAN,
         StartFlow(run, id, debug)
  PROVE  IInv'
<1> DEFINE fresh == [NewMachine(FlowOf[run]) EXCEPT !.state = "resolving", !.paused = debug]
           gone == FlowIsGone(run)
           mc    == [mach EXCEPT ![id] = IF gone THEN NewMachine(FlowOf[run])
                                         ELSE IF debug THEN fresh
                                         ELSE [fresh EXCEPT !.holder = run]]
<1>1. /\ driver[run] = "validating" /\ ~FlowRunning(mach, machine) /\ Unused(id)
      /\ machine' = id /\ mach' = mc /\ queued' = FALSE
      /\ UNCHANGED <<cancelling, cancels, deleted>>
  BY DEF StartFlow
<1>2. /\ fresh \in Machines /\ NewMachine(FlowOf[run]) \in Machines
      /\ [fresh EXCEPT !.holder = run] \in Machines
      /\ fresh.state = "resolving" /\ fresh.holder = "free"
      /\ [fresh EXCEPT !.holder = run].state = "resolving" /\ [fresh EXCEPT !.holder = run].holder = run
      /\ NewMachine(FlowOf[run]).state = "idle" /\ NewMachine(FlowOf[run]).holder = "free"
  BY DEF NewMachine, Machines, RunsAssumption
<1>. HIDE DEF fresh
<1>3. RestTypes'
  BY <1>1, <1>2 DEF IInv, RestTypes
<1>4. \A other \in MachineIds : mach'[other] = IF other = id THEN mc[id] ELSE mach[other]
  BY <1>1 DEF IInv, RestTypes
<1>5. /\ \A other \in MachineIds : mach[other].state # "resolving"
      /\ \A other \in MachineIds : mach[other].holder # run
  <2>1. \A other \in MachineIds : mach[other].state # "resolving"
    BY <1>1 DEF IInv, MachInv, FlowRunning, RestTypes, RunsAssumption
  <2>. QED BY <1>1, <2>1 DEF IInv, MachInv
<1>6. mc[id] = IF gone THEN NewMachine(FlowOf[run])
               ELSE IF debug THEN fresh ELSE [fresh EXCEPT !.holder = run]
  BY DEF IInv, RestTypes
<1>7. CASE ~gone /\ ~debug
  <2>1. /\ driver' = [driver EXCEPT ![run] = "driving"]
        /\ UNCHANGED <<line, inProgress, driving, state, ended, outcome>>
    BY <1>7 DEF StartFlow
  <2>2. driver' \in [Runs -> DriverStates]
        /\ \A r \in Runs : driver'[r] = IF r = run THEN "driving" ELSE driver[r]
    BY <2>1 DEF IInv, QueueInv, QueueOK, QueueTypes, DriverStates
  <2>3. QueueInv'
    <3>1. QueueTypes(line', inProgress', driving', state', driver', ended', outcome')
      BY <2>1, <2>2 DEF IInv, QueueInv, QueueOK, QueueTypes
    <3>2. ASSUME NEW r \in Runs
          PROVE  RunBooks(r, line', inProgress', driving', state', driver', ended', outcome')
      BY <1>1, <2>1, <2>2 DEF IInv, QueueInv, QueueOK, RunBooks, Active
    <3>. QED BY <3>1, <3>2 DEF QueueInv, QueueOK
  <2>4. mach'[id] = [fresh EXCEPT !.holder = run]
    BY <1>1, <1>6, <1>7
  <2>5. MachInv'
    BY <1>1, <1>2, <1>4, <1>5, <2>2, <2>4 DEF IInv, MachInv
  <2>6. NoStuckRun'
    BY <1>1, <1>2, <2>4, <1>3 DEF NoStuckRun, FlowRunning, RestTypes, RunsAssumption
  <2>. QED BY <1>3, <2>3, <2>5, <2>6 DEF IInv
<1>8. CASE gone \/ debug
  <2>1. \E result \in {"ok", "failed"} : Return(run, result, mc, id)
    BY <1>8 DEF StartFlow, fresh
  <2>2. driver[run] \in Active
    BY <1>1 DEF Active
  <2>. HIDE DEF mc
  <2>3. /\ QueueInv'
        /\ inProgress' # None /\ ~driving' => FlowRunning(mc, id)
        /\ \A r \in Runs : driver'[r] # "driving" /\ (r # run => driver[r] # "driving")
    BY <2>1, <2>2, ReturnKeepsBooks DEF IInv
  <2>4. mach'[id].holder = "free"
    BY <1>2, <1>4, <1>6, <1>8
  <2>5. MachInv'
    BY <1>1, <1>2, <1>4, <1>5, <2>3, <2>4 DEF IInv, MachInv, RunsAssumption
  <2>6. NoStuckRun'
    BY <1>1, <2>3 DEF NoStuckRun
  <2>. QED BY <1>3, <2>3, <2>5, <2>6 DEF IInv
<1>. QED BY <1>7, <1>8

LEMMA DriverCancelledKeeps ==
  ASSUME RunsAssumption, IInv, NEW run \in Runs, DriverCancelled(run)
  PROVE  IInv'
<1> DEFINE dr == [driver EXCEPT ![run] = "over"]
<1>1. /\ driver[run] \in Active
      /\ outcome' = Answer(outcome, run, "raised")
      /\ mach' = [id \in MachineIds |->
                    IF mach[id].holder = run THEN [mach[id] EXCEPT !.holder = "free"] ELSE mach[id]]
      /\ FinishRun(run, line, state, dr, ended)
      /\ UNCHANGED <<cancelling, queued, machine, cancels, deleted>>
  BY DEF DriverCancelled, Active
<1>2. /\ inProgress = run /\ driving /\ outcome[run] = "none"
      /\ \A r \in Runs : r # run => driver[r] \notin Active
  BY <1>1 DEF IInv, QueueInv, QueueOK, RunBooks
<1>3. outcome' = [outcome EXCEPT ![run] = "raised"]
  BY <1>2, <1>1 DEF Answer, IInv, QueueInv, QueueOK, QueueTypes
<1>4. QueueOK(line, run, FALSE, state, dr, ended, outcome')
  <2>1. QueueTypes(line, run, FALSE, state, dr, ended, outcome')
    BY <1>3 DEF IInv, QueueInv, QueueOK, QueueTypes, DriverStates, Outcomes
  <2>2. \A r \in Runs : /\ dr[r] = IF r = run THEN "over" ELSE driver[r]
                        /\ outcome'[r] = IF r = run THEN "raised" ELSE outcome[r]
    BY <1>3 DEF IInv, QueueInv, QueueOK, QueueTypes
  <2>. HIDE DEF dr
  <2>3. ASSUME NEW r \in Runs PROVE RunBooks(r, line, run, FALSE, state, dr, ended, outcome')
    BY <1>2, <2>2 DEF IInv, QueueInv, QueueOK, RunBooks, Active
  <2>. QED BY <2>1, <2>3 DEF QueueOK
<1>. HIDE DEF dr
<1>5. QueueInv' /\ (inProgress' = None \/ driving')
  BY <1>1, <1>2, <1>4, FinishRunKeepsBooks DEF QueueInv
<1>6. \A id \in MachineIds :
        /\ mach'[id] \in Machines
        /\ mach'[id].state = mach[id].state
        /\ \A r \in Runs : mach'[id].holder # r
  <2> SUFFICES ASSUME NEW id \in MachineIds
               PROVE  /\ mach'[id] \in Machines
                      /\ mach'[id].state = mach[id].state
                      /\ \A r \in Runs : mach'[id].holder # r
    OBVIOUS
  <2>1. mach[id] \in Machines
    BY DEF IInv, RestTypes
  <2>2. \A r \in Runs : r # run => mach[id].holder # r
    BY <1>2 DEF IInv, MachInv, Active
  <2>3. CASE mach[id].holder = run
    BY <1>1, <2>1, <2>3 DEF Machines, RunsAssumption
  <2>4. CASE mach[id].holder # run
    BY <1>1, <2>1, <2>2, <2>4
  <2>. QED BY <2>3, <2>4
<1>7. RestTypes'
  BY <1>1, <1>6 DEF IInv, RestTypes
<1>8. MachInv'
  BY <1>1, <1>6 DEF IInv, MachInv
<1>. QED BY <1>5, <1>7, <1>8 DEF IInv, NoStuckRun

-----------------------------------------------------------------------------
(* The machine. *)

LEMMA NodesKeep ==
  ASSUME RunsAssumption, IInv, NEW id \in MachineIds, NodeStarts(id) \/ NodesFinish(id)
  PROVE  IInv'
<1>1. PICK busy \in BOOLEAN : mach' = [mach EXCEPT ![id].busy = busy]
  BY DEF NodeStarts, NodesFinish
<1>2. UNCHANGED <<queueVars, cancelling, queued, outcome, machine, deleted>>
  BY DEF NodeStarts, NodesFinish
<1>3. cancels' \in [Cancels -> CancelStates \cup {NoCancel}]
  <2>1. CASE NodeStarts(id)
    BY <2>1 DEF NodeStarts, IInv, RestTypes
  <2>2. CASE NodesFinish(id)
    <3>1. cancels' = [c \in Cancels |->
                       IF cancels[c].phase = "gathering" /\ cancels[c].target = id
                       THEN [cancels[c] EXCEPT !.phase = "gathered"] ELSE cancels[c]]
      BY <2>2 DEF NodesFinish
    <3>2. ASSUME NEW c \in Cancels, cancels[c].phase = "gathering"
          PROVE  [cancels[c] EXCEPT !.phase = "gathered"] \in CancelStates
      BY <3>2 DEF IInv, RestTypes, CancelStates, NoCancel
    <3>. QED BY <3>1, <3>2 DEF IInv, RestTypes
  <2>. QED BY <2>1, <2>2
<1>4. \A other \in MachineIds :
        mach'[other] \in Machines /\ mach'[other].state = mach[other].state
        /\ mach'[other].holder = mach[other].holder
  BY <1>1 DEF IInv, RestTypes, Machines
<1>5. RestTypes'
  BY <1>1, <1>2, <1>3, <1>4 DEF IInv, RestTypes
<1>6. QueueInv' /\ MachInv'
  BY <1>2, <1>4 DEF IInv, QueueInv, MachInv, queueVars
<1>7. NoStuckRun'
  BY <1>2, <1>4 DEF IInv, NoStuckRun, FlowRunning, RunAdvancing, queueVars, RestTypes
<1>. QED BY <1>5, <1>6, <1>7 DEF IInv

(* Whatever state the machine is in when its holder lets go. *)
LEMMA LetGoKeeps ==
  ASSUME RunsAssumption, IInv, NEW id \in MachineIds,
         NEW newState \in {"idle", "resolving", "complete", "errored"}, NEW result \in {"ok", "failed"},
         newState = "resolving" => mach[id].state = "resolving",
         LetGo(id, newState, result)
  PROVE  IInv'
<1> DEFINE mc == [mach EXCEPT ![id].state = newState, ![id].holder = "free"]
<1>0. mach' = mc
  BY DEF LetGo
<1>1. UNCHANGED <<cancelling, queued, machine, cancels, deleted>>
  BY DEF LetGo
<1>2. /\ mc \in [MachineIds -> Machines]
      /\ \A other \in MachineIds : other # id => mc[other] = mach[other]
      /\ mc[id].state = newState /\ mc[id].holder = "free"
  <2>1. mach \in [MachineIds -> Machines]
    BY DEF IInv, RestTypes
  <2>2. mc = [mach EXCEPT ![id] = [mach[id] EXCEPT !.state = newState, !.holder = "free"]]
    BY <2>1
  <2>3. mach[id] \in Machines
    BY <2>1
  <2>4. [mach[id] EXCEPT !.state = newState, !.holder = "free"] \in Machines
    BY <2>3 DEF Machines
  <2>5. /\ [mach[id] EXCEPT !.state = newState, !.holder = "free"].state = newState
        /\ [mach[id] EXCEPT !.state = newState, !.holder = "free"].holder = "free"
    BY <2>3 DEF Machines
  <2>. HIDE DEF mc
  <2>. QED BY <2>1, <2>2, <2>4, <2>5
<1>. HIDE DEF mc
<1>3. RestTypes'
  BY <1>0, <1>1, <1>2 DEF IInv, RestTypes
<1>4. /\ \A other \in MachineIds, r \in Runs :
           mach'[other].holder = r => other # id /\ mach[other].holder = r
      /\ \A other \in MachineIds : mach'[other].state = "resolving" => mach[other].state = "resolving"
  <2>1. \A r \in Runs : r # "free"
    BY DEF RunsAssumption
  <2>. QED BY <1>0, <1>2, <2>1
<1>5. CASE mach[id].holder = "step" /\ FinishRunIfOver(mc, machine, line, state, ended)
           /\ UNCHANGED outcome
  <2>1. /\ QueueOK(line', inProgress', driving', state', driver', ended', outcome)
        /\ inProgress' # None /\ ~driving' => FlowRunning(mc, machine) \/ RunAdvancing(mc, machine)
        /\ \A r \in Runs : driver[r] \in Active => driver'[r] = driver[r]
    BY <1>5, FinishRunIfOverKeepsBooks DEF IInv, QueueInv
  <2>2. \A r \in Runs : driver[r] = "driving" => driver'[r] = "driving"
    BY <2>1 DEF Active
  <2>3. MachInv'
    BY <1>1, <1>4, <2>2 DEF IInv, MachInv
  <2>. QED BY <1>0, <1>1, <1>3, <1>5, <2>1, <2>3 DEF IInv, QueueInv, NoStuckRun
<1>6. CASE mach[id].holder \in Runs /\ Return(mach[id].holder, result, mc, machine)
  <2> DEFINE run == mach[id].holder
  <2>1. run \in Runs /\ driver[run] \in Active
    BY <1>6 DEF IInv, MachInv, Active
  <2>2. /\ QueueInv'
        /\ inProgress' # None /\ ~driving' => FlowRunning(mc, machine)
        /\ \A r \in Runs : driver'[r] # "driving" /\ (r # run => driver[r] # "driving")
    BY <1>6, <2>1, ReturnKeepsBooks DEF IInv
  <2>3. \A other \in MachineIds, r \in Runs : mach'[other].holder # r
    BY <1>4, <2>1, <2>2 DEF IInv, MachInv
  <2>4. MachInv'
    BY <1>1, <1>4, <2>1, <2>3 DEF IInv, MachInv
  <2>. QED BY <1>0, <1>1, <1>3, <2>2, <2>4 DEF IInv, NoStuckRun
<1>. QED BY <1>5, <1>6 DEF LetGo, mc

LEMMA HolderLetsGoKeeps ==
  ASSUME RunsAssumption, IInv, NEW id \in MachineIds,
         FlowEnds(id) \/ HolderPauses(id) \/ HolderAbandons(id)
  PROVE  IInv'
  BY LetGoKeeps DEF FlowEnds, HolderPauses, HolderAbandons

(* Starting to cancel the current machine, which is there. *)
LEMMA BeginCancelTypes ==
  ASSUME IInv, machine # None, NEW c \in Cancels, NEW kind \in {"run", "all"}, BeginCancel(c, kind)
  PROVE  queued' = FALSE /\ cancels' \in [Cancels -> CancelStates \cup {NoCancel}]
<1>1. [phase |-> "sending", target |-> machine, kind |-> kind] \in CancelStates
  BY DEF IInv, RestTypes, CancelStates
<1>. QED BY <1>1 DEF BeginCancel, IInv, RestTypes

LEMMA HolderRaisesKeeps ==
  ASSUME RunsAssumption, IInv, NEW id \in MachineIds, HolderRaises(id)
  PROVE  IInv'
<1>1. /\ mach[id].state = "resolving" /\ mach[id].holder # "free"
      /\ mach' = [mach EXCEPT ![id].holder = "free"]
      /\ UNCHANGED <<line, inProgress, driving, state, ended, outcome, cancelling, machine, deleted>>
  BY DEF HolderRaises
<1>2. id = machine /\ machine # None
  BY <1>1 DEF IInv, MachInv, RunsAssumption
<1>3. /\ mach' \in [MachineIds -> Machines]
      /\ \A other \in MachineIds : mach'[other].state = mach[other].state
      /\ mach'[id].holder = "free"
      /\ \A other \in MachineIds : other # id => mach'[other].holder = mach[other].holder
  BY <1>1 DEF IInv, RestTypes, Machines
<1>4. "free" \notin Runs /\ "step" \notin Runs
  BY DEF RunsAssumption
<1>5. FlowRunning(mach', machine')
  BY <1>1, <1>2, <1>3 DEF FlowRunning
<1>6. CASE mach[id].holder \in Runs /\ driver' = [driver EXCEPT ![mach[id].holder] = "abandoning"]
           /\ queued' = FALSE /\ UNCHANGED cancels
  <2> DEFINE run == mach[id].holder
  <2>1. driver[run] = "driving"
    BY <1>6 DEF IInv, MachInv
  <2>2. /\ driver' \in [Runs -> DriverStates]
        /\ \A r \in Runs : driver'[r] = IF r = run THEN "abandoning" ELSE driver[r]
    BY <1>6 DEF IInv, QueueInv, QueueOK, QueueTypes, DriverStates
  <2>3. QueueInv'
    <3>1. QueueTypes(line', inProgress', driving', state', driver', ended', outcome')
      BY <1>1, <2>2 DEF IInv, QueueInv, QueueOK, QueueTypes
    <3>2. ASSUME NEW r \in Runs
          PROVE  RunBooks(r, line', inProgress', driving', state', driver', ended', outcome')
      BY <1>1, <2>1, <2>2 DEF IInv, QueueInv, QueueOK, RunBooks, Active
    <3>. QED BY <3>1, <3>2 DEF QueueInv, QueueOK
  <2>4. RestTypes'
    BY <1>1, <1>3, <1>6 DEF IInv, RestTypes
  <2>5. MachInv'
    BY <1>1, <1>3, <1>4, <1>6, <2>2 DEF IInv, MachInv
  <2>. QED BY <1>5, <2>3, <2>4, <2>5 DEF IInv, NoStuckRun
<1>7. CASE mach[id].holder = "step" /\ UNCHANGED driver
           /\ queued' \in BOOLEAN /\ cancels' \in [Cancels -> CancelStates \cup {NoCancel}]
  <2>1. RestTypes' /\ QueueInv'
    BY <1>1, <1>3, <1>7 DEF IInv, RestTypes, QueueInv
  <2>2. MachInv'
    BY <1>1, <1>3, <1>4, <1>7 DEF IInv, MachInv
  <2>. QED BY <1>5, <2>1, <2>2 DEF IInv, NoStuckRun
<1>8. \/ mach[id].holder \in Runs /\ driver' = [driver EXCEPT ![mach[id].holder] = "abandoning"]
         /\ queued' = FALSE /\ UNCHANGED cancels
      \/ mach[id].holder = "step" /\ UNCHANGED <<driver, queued, cancels>>
      \/ mach[id].holder = "step" /\ UNCHANGED driver /\ \E c \in Cancels : BeginCancel(c, "run")
  BY DEF HolderRaises
<1>9. queued \in BOOLEAN /\ cancels \in [Cancels -> CancelStates \cup {NoCancel}]
  BY DEF IInv, RestTypes
<1>. QED BY <1>2, <1>6, <1>7, <1>8, <1>9, BeginCancelTypes

(* Resetting a machine leaves it not going on, its holder as it was. *)
LEMMA ResetMachines ==
  ASSUME RunsAssumption, IInv
  PROVE  /\ Reset(mach, machine) \in [MachineIds -> Machines]
         /\ \A id \in MachineIds :
              /\ Reset(mach, machine)[id].holder = mach[id].holder
              /\ Reset(mach, machine)[id].state # "resolving"
<1>1. mach \in [MachineIds -> Machines]
  BY DEF IInv, RestTypes
<1>2. \A id \in MachineIds : id # machine => mach[id].state # "resolving"
  BY DEF IInv, MachInv
<1>3. CASE machine = None
  <2>1. Reset(mach, machine) = mach
    BY <1>3 DEF Reset
  <2>. QED BY <1>1, <1>2, <1>3, <2>1 DEF RunsAssumption
<1>4. CASE machine # None /\ machine \in MachineIds
  <2> DEFINE m == [mach[machine] EXCEPT !.state = "idle", !.busy = FALSE, !.paused = FALSE]
  <2>1. Reset(mach, machine) = [mach EXCEPT ![machine] = m]
    BY <1>1, <1>4 DEF Reset
  <2>2. mach[machine] \in Machines
    BY <1>1, <1>4
  <2>3. m \in Machines /\ m.state = "idle" /\ m.holder = mach[machine].holder
    BY <2>2 DEF Machines
  <2>. HIDE DEF m
  <2>. QED BY <1>1, <1>2, <1>4, <2>1, <2>3
<1>. QED BY <1>3, <1>4 DEF IInv, RestTypes

LEMMA AbandonEndsKeeps ==
  ASSUME RunsAssumption, IInv, NEW run \in Runs, AbandonEnds(run)
  PROVE  IInv'
<1> DEFINE mc == Reset(mach, machine)
<1>1. /\ driver[run] = "abandoning" /\ mach' = mc
      /\ Return(run, "failed", mc, machine)
      /\ UNCHANGED <<cancelling, queued, machine, cancels, deleted>>
  BY DEF AbandonEnds
<1>2. driver[run] \in Active
  BY <1>1 DEF Active
<1>. HIDE DEF mc
<1>3. /\ QueueInv'
      /\ inProgress' # None /\ ~driving' => FlowRunning(mc, machine)
      /\ \A r \in Runs : driver'[r] # "driving" /\ (r # run => driver[r] # "driving")
  BY <1>1, <1>2, ReturnKeepsBooks DEF IInv
<1>4. RestTypes'
  BY <1>1, ResetMachines DEF IInv, RestTypes, mc
<1>5. MachInv'
  BY <1>1, <1>3, ResetMachines DEF IInv, MachInv, mc
<1>. QED BY <1>1, <1>3, <1>4, <1>5 DEF IInv, NoStuckRun

-----------------------------------------------------------------------------
(* Step requests. *)

LEMMA StepKeeps ==
  ASSUME RunsAssumption, IInv, NEW paused \in BOOLEAN, Step(paused)
  PROVE  IInv'
<1>1. /\ FlowRunning(mach, machine)
      /\ mach' = [mach EXCEPT ![machine].paused = paused,
                              ![machine].holder = IF @ = "free" THEN "step" ELSE @]
      /\ UNCHANGED <<queueVars, cancelling, queued, outcome, machine, cancels, deleted>>
  BY DEF Step
<1>2. machine \in MachineIds /\ mach[machine] \in Machines /\ mach[machine].state = "resolving"
  BY <1>1 DEF FlowRunning, IInv, RestTypes
<1> DEFINE m == [mach[machine] EXCEPT !.paused = paused,
                                      !.holder = IF @ = "free" THEN "step" ELSE @]
<1>3. mach' = [mach EXCEPT ![machine] = m]
  BY <1>1, <1>2 DEF IInv, RestTypes
<1>4. /\ m \in Machines /\ m.state = "resolving"
      /\ m.holder = IF mach[machine].holder = "free" THEN "step" ELSE mach[machine].holder
  BY <1>2 DEF Machines
<1>. HIDE DEF m
<1>5. /\ mach' \in [MachineIds -> Machines]
      /\ \A id \in MachineIds : id # machine => mach'[id] = mach[id]
      /\ mach'[machine] = m
  BY <1>2, <1>3, <1>4 DEF IInv, RestTypes
<1>6. \A r \in Runs : r # "step"
  BY DEF RunsAssumption
<1>7. RestTypes' /\ QueueInv'
  BY <1>1, <1>5 DEF IInv, RestTypes, QueueInv, queueVars
<1>8. MachInv'
  BY <1>1, <1>2, <1>4, <1>5, <1>6 DEF IInv, MachInv, queueVars
<1>9. NoStuckRun'
  BY <1>1, <1>4, <1>5 DEF NoStuckRun, FlowRunning
<1>. QED BY <1>7, <1>8, <1>9 DEF IInv

LEMMA StepStartsFlowKeeps ==
  ASSUME RunsAssumption, IInv, NEW id \in MachineIds, NEW flow \in Flows, NEW paused \in BOOLEAN,
         StepStartsFlow(id, flow, paused)
  PROVE  IInv'
<1>1. /\ ~FlowRunning(mach, machine) /\ queued' = FALSE
      /\ UNCHANGED <<queueVars, cancelling, outcome, cancels, deleted>>
      /\ IF machine = None THEN Unused(id) ELSE id = machine
  BY DEF StepStartsFlow
<1>2. CASE UNCHANGED <<machine, mach>>
  BY <1>1, <1>2 DEF IInv, RestTypes, QueueInv, MachInv, NoStuckRun, FlowRunning, RunAdvancing, queueVars
<1>3. CASE /\ mach[id].holder = "free" /\ machine' = id
           /\ mach' = [mach EXCEPT ![id] =
                         [NewMachine(IF machine = None THEN flow ELSE mach[id].flow) EXCEPT
                            !.state = "resolving", !.paused = paused, !.holder = "step"]]
  <2> DEFINE m == [NewMachine(IF machine = None THEN flow ELSE mach[id].flow) EXCEPT
                     !.state = "resolving", !.paused = paused, !.holder = "step"]
  <2>1. mach[id] \in Machines
    BY DEF IInv, RestTypes
  <2>2. m \in Machines /\ m.state = "resolving" /\ m.holder = "step"
    BY <2>1 DEF Machines, NewMachine
  <2>. HIDE DEF m
  <2>3. /\ mach' \in [MachineIds -> Machines]
        /\ \A other \in MachineIds : other # id => mach'[other] = mach[other]
        /\ mach'[id] = m
    BY <1>3, <2>2 DEF IInv, RestTypes, m
  <2>4. \A r \in Runs : r # "step"
    BY DEF RunsAssumption
  <2>5. \A other \in MachineIds : mach[other].state # "resolving"
    BY <1>1 DEF IInv, MachInv, FlowRunning, RunsAssumption
  <2>6. RestTypes' /\ QueueInv'
    BY <1>1, <1>3, <2>3 DEF IInv, RestTypes, QueueInv, queueVars
  <2>7. MachInv'
    BY <1>1, <1>3, <2>2, <2>3, <2>4, <2>5 DEF IInv, MachInv, queueVars
  <2>8. NoStuckRun'
    BY <1>3, <2>2, <2>3 DEF NoStuckRun, FlowRunning, RunsAssumption
  <2>. QED BY <2>6, <2>7, <2>8 DEF IInv
<1>. QED BY <1>2, <1>3 DEF StepStartsFlow

-----------------------------------------------------------------------------
(* Cancel requests. *)

LEMMA CancelRunInProgressKeeps ==
  ASSUME RunsAssumption, IInv, NEW c \in Cancels, CancelRunInProgress(c)
  PROVE  IInv'
<1>1. /\ state' = MarkCancelled(state)
      /\ UNCHANGED <<line, inProgress, driving, ended, driver, outcome, cancelling, machine, mach,
                     deleted>>
  BY DEF CancelRunInProgress
<1>2. queued' \in BOOLEAN /\ cancels' \in [Cancels -> CancelStates \cup {NoCancel}]
  <2>1. CASE FlowRunning(mach, machine)
    BY <2>1, BeginCancelTypes DEF CancelRunInProgress, FlowRunning
  <2>2. CASE ~FlowRunning(mach, machine)
    BY <2>2 DEF CancelRunInProgress, IInv, RestTypes
  <2>. QED BY <2>1, <2>2
<1>3. QueueInv'
  BY <1>1, MarkCancelledKeepsBooks DEF IInv, QueueInv
<1>4. RestTypes' /\ MachInv' /\ NoStuckRun'
  BY <1>1, <1>2 DEF IInv, RestTypes, MachInv, NoStuckRun, FlowRunning, RunAdvancing
<1>. QED BY <1>3, <1>4 DEF IInv

LEMMA CancelAllRunsKeeps ==
  ASSUME RunsAssumption, IInv, NEW c \in Cancels, CancelAllRuns(c)
  PROVE  IInv'
<1> DEFINE gone == DOMAIN line
<1>1. /\ line' = Remove(line, gone) /\ TurnAway(gone)
      /\ state' = MarkCancelled(TurnedAwayState(state, gone))
      /\ ended' = TurnedAwayEnded(gone)
      /\ UNCHANGED <<inProgress, driving, driver, machine, mach, deleted>>
  BY DEF CancelAllRuns
<1>2. /\ queued' \in BOOLEAN /\ cancelling' \in BOOLEAN
      /\ cancels' \in [Cancels -> CancelStates \cup {NoCancel}]
  <2>1. CASE FlowRunning(mach, machine)
    BY <2>1, BeginCancelTypes DEF CancelAllRuns, FlowRunning
  <2>2. CASE ~FlowRunning(mach, machine)
    BY <2>2 DEF CancelAllRuns, IInv, RestTypes
  <2>. QED BY <2>1, <2>2
<1>3. QueueInv'
  BY <1>1, TurnAwayKeepsBooks, MarkCancelledKeepsBooks DEF IInv, QueueInv
<1>4. RestTypes' /\ MachInv' /\ NoStuckRun'
  BY <1>1, <1>2 DEF IInv, RestTypes, MachInv, NoStuckRun, FlowRunning, RunAdvancing
<1>. QED BY <1>3, <1>4 DEF IInv

LEMMA CancelWaitsKeeps ==
  ASSUME RunsAssumption, IInv, NEW c \in Cancels, CancelTasks(c) \/ CancelFails(c)
  PROVE  IInv'
<1>1. UNCHANGED <<queueVars, queued, outcome, machine, mach, deleted>> /\ cancelling' \in BOOLEAN
  BY DEF CancelTasks, CancelFails, IInv, RestTypes
<1>2. cancels' \in [Cancels -> CancelStates \cup {NoCancel}]
  <2>1. CASE CancelTasks(c)
    <3>1. cancels[c] \in CancelStates /\ cancels' = [cancels EXCEPT ![c].phase = "gathering"]
      BY <2>1 DEF CancelTasks, IInv, RestTypes, NoCancel
    <3>2. [cancels[c] EXCEPT !.phase = "gathering"] \in CancelStates
      BY <3>1 DEF CancelStates
    <3>. QED BY <3>1, <3>2 DEF IInv, RestTypes
  <2>2. CASE CancelFails(c)
    BY <2>2 DEF CancelFails, IInv, RestTypes
  <2>. QED BY <2>1, <2>2
<1>. QED BY <1>1, <1>2 DEF IInv, RestTypes, QueueInv, MachInv, NoStuckRun, FlowRunning, RunAdvancing,
                           queueVars

(* After a reset, with the machine kept or dropped, ending a run that is   *)
(* over keeps the invariant.                                               *)
LEMMA ResetThenFinishKeeps ==
  ASSUME RunsAssumption, IInv, NEW cur \in {machine, None}, NEW l, NEW st, NEW en,
         QueueOK(l, inProgress, driving, st, driver, en, outcome'),
         mach' = Reset(mach, machine), machine' = cur,
         FinishRunIfOver(Reset(mach, machine), cur, l, st, en),
         queued' \in BOOLEAN, cancelling' \in BOOLEAN, deleted' \in SUBSET Flows,
         cancels' \in [Cancels -> CancelStates \cup {NoCancel}]
  PROVE  IInv'
<1> DEFINE mc == Reset(mach, machine)
<1>1. /\ mc \in [MachineIds -> Machines]
      /\ \A id \in MachineIds : mc[id].holder = mach[id].holder /\ mc[id].state # "resolving"
  BY ResetMachines
<1>2. mach' = mc /\ machine' = cur /\ cur \in MachineIds \cup {None}
  BY DEF IInv, RestTypes
<1>3. FinishRunIfOver(mc, cur, l, st, en)
  OBVIOUS
<1>. HIDE DEF mc
<1>4. /\ QueueInv'
      /\ inProgress' # None /\ ~driving' => FlowRunning(mc, cur) \/ RunAdvancing(mc, cur)
      /\ \A r \in Runs : driver[r] \in Active => driver'[r] = driver[r]
  BY <1>3, FinishRunIfOverKeepsBooks DEF QueueInv
<1>5. RestTypes'
  BY <1>1, <1>2 DEF RestTypes
<1>6. MachInv'
  BY <1>1, <1>2, <1>4 DEF IInv, MachInv, Active
<1>. QED BY <1>2, <1>4, <1>5, <1>6 DEF IInv, NoStuckRun

LEMMA CancelResetsKeeps ==
  ASSUME RunsAssumption, IInv, NEW c \in Cancels, CancelResets(c)
  PROVE  IInv'
<1> DEFINE gone == IF cancels[c].kind = "all" THEN DOMAIN line \ StartedByEnd ELSE {}
<1>1. /\ mach' = Reset(mach, machine) /\ machine' = machine
      /\ cancels' = [cancels EXCEPT ![c] = NoCancel]
      /\ TurnAway(gone)
      /\ FinishRunIfOver(Reset(mach, machine), machine, Remove(line, gone),
                         TurnedAwayState(state, gone), TurnedAwayEnded(gone))
  BY DEF CancelResets
<1>2. gone \in SUBSET DOMAIN line
  OBVIOUS
<1>. HIDE DEF gone
<1>3. QueueOK(Remove(line, gone), inProgress, driving, TurnedAwayState(state, gone), driver,
              TurnedAwayEnded(gone), outcome')
  BY <1>1, <1>2, TurnAwayKeepsBooks DEF IInv
<1>4. /\ queued' \in BOOLEAN /\ cancelling' \in BOOLEAN /\ deleted' \in SUBSET Flows
      /\ cancels' \in [Cancels -> CancelStates \cup {NoCancel}]
  BY <1>1 DEF CancelResets, IInv, RestTypes
<1>. QED BY <1>1, <1>3, <1>4, ResetThenFinishKeeps

-----------------------------------------------------------------------------
(* Deleting a flow and closing the workflow. *)

LEMMA DeleteFlowKeeps ==
  ASSUME RunsAssumption, IInv, NEW flow \in Flows, DeleteFlow(flow)
  PROVE  IInv'
<1> DEFINE gone    == {r \in DOMAIN line : FlowOf[r] = flow}
           mine    == machine # None /\ mach[machine].flow = flow
           running == RunsFlow(flow)
           blocked == running /\ mach[machine].busy
           mc      == IF running /\ ~blocked THEN Reset(mach, machine) ELSE mach
           cur     == IF mine /\ ~blocked THEN None ELSE machine
           st      == TurnedAwayState(state, gone)
           st2     == IF running THEN MarkCancelled(st) ELSE st
<1>1. /\ TurnAway(gone) /\ mach' = mc /\ machine' = cur
      /\ queued' \in BOOLEAN /\ cancelling' \in BOOLEAN /\ deleted' \in SUBSET Flows
      /\ cancels' \in [Cancels -> CancelStates \cup {NoCancel}]
  BY DEF DeleteFlow, IInv, RestTypes
<1>2. gone \in SUBSET DOMAIN line
  OBVIOUS
<1>3. QueueOK(Remove(line, gone), inProgress, driving, st2, driver, TurnedAwayEnded(gone), outcome')
  <2>1. QueueOK(Remove(line, gone), inProgress, driving, st, driver, TurnedAwayEnded(gone), outcome')
    BY <1>1, <1>2, TurnAwayKeepsBooks DEF IInv
  <2>. HIDE DEF gone, st
  <2>2. CASE running
    BY <2>1, <2>2, MarkCancelledKeepsBooks
  <2>3. CASE ~running
    BY <2>1, <2>3
  <2>. QED BY <2>2, <2>3
<1>4. running => mine /\ FlowRunning(mach, machine)
  BY DEF RunsFlow, FlowRunning
<1>5. CASE mine /\ ~blocked
  <2>1. FinishRunIfOver(mc, None, Remove(line, gone), st2, TurnedAwayEnded(gone))
    BY <1>5 DEF DeleteFlow
  <2>2. cur = None
    BY <1>5
  <2>3. CASE running
    <3>1. mc = Reset(mach, machine)
      BY <1>5, <2>3
    <3>. HIDE DEF gone, mine, running, blocked, mc, cur, st, st2
    <3>. QED BY <1>1, <1>3, <2>1, <2>2, <3>1, ResetThenFinishKeeps
  <2>4. CASE ~running
    <3>1. mc = mach
      BY <2>4
    <3>2. \A id \in MachineIds : mach[id].state # "resolving"
      BY <1>5, <2>4 DEF RunsFlow, FlowRunning, IInv, MachInv
    <3>. HIDE DEF gone, mine, running, blocked, mc, cur, st, st2
    <3>3. /\ QueueInv'
          /\ inProgress' # None /\ ~driving' => FlowRunning(mach, None) \/ RunAdvancing(mach, None)
          /\ \A r \in Runs : driver[r] \in Active => driver'[r] = driver[r]
      BY <1>3, <2>1, <3>1, FinishRunIfOverKeepsBooks DEF QueueInv
    <3>4. RestTypes'
      BY <1>1, <2>2, <3>1 DEF IInv, RestTypes
    <3>5. MachInv'
      BY <1>1, <3>1, <3>2, <3>3 DEF IInv, MachInv, Active
    <3>6. NoStuckRun'
      BY <1>1, <2>2, <3>1, <3>3 DEF NoStuckRun
    <3>. QED BY <3>3, <3>4, <3>5, <3>6 DEF IInv
  <2>. QED BY <2>3, <2>4
<1>6. CASE ~(mine /\ ~blocked)
  <2>1. /\ line' = Remove(line, gone) /\ state' = st2 /\ ended' = TurnedAwayEnded(gone)
        /\ UNCHANGED <<inProgress, driving, driver>>
    BY <1>6 DEF DeleteFlow
  <2>2. mach' = mach /\ machine' = machine
    BY <1>1, <1>4, <1>6
  <2>. HIDE DEF gone, mine, running, blocked, mc, cur, st, st2
  <2>3. QueueInv'
    BY <1>3, <2>1 DEF QueueInv
  <2>4. RestTypes' /\ MachInv' /\ NoStuckRun'
    BY <1>1, <2>1, <2>2 DEF IInv, RestTypes, MachInv, NoStuckRun, FlowRunning, RunAdvancing
  <2>. QED BY <2>3, <2>4 DEF IInv
<1>. QED BY <1>5, <1>6

LEMMA CloseWorkflowKeeps ==
  ASSUME RunsAssumption, IInv, CloseWorkflow
  PROVE  IInv'
<1> DEFINE gone == DOMAIN line
           st   == MarkCancelled(TurnedAwayState(state, gone))
<1>1. /\ TurnAway(gone) /\ mach' = Reset(mach, machine) /\ machine' = None
      /\ FinishRunIfOver(Reset(mach, machine), None, Remove(line, gone), st, TurnedAwayEnded(gone))
      /\ queued' \in BOOLEAN /\ cancelling' \in BOOLEAN /\ deleted' \in SUBSET Flows
      /\ cancels' \in [Cancels -> CancelStates \cup {NoCancel}]
  BY DEF CloseWorkflow, IInv, RestTypes
<1>2. QueueOK(Remove(line, gone), inProgress, driving, st, driver, TurnedAwayEnded(gone), outcome')
  BY <1>1, TurnAwayKeepsBooks, MarkCancelledKeepsBooks DEF IInv
<1>. HIDE DEF gone, st
<1>. QED BY <1>1, <1>2, ResetThenFinishKeeps

-----------------------------------------------------------------------------
(* The inductive invariant, and the properties that follow from it. *)

LEMMA InitInvariant == RunsAssumption /\ Init => IInv
<1> SUFFICES ASSUME RunsAssumption, Init PROVE IInv
  OBVIOUS
<1>1. RestTypes
  BY DEF Init, RestTypes, NewMachine, Machines, RunsAssumption
<1>2. QueueInv
  <2>1. line \in Lines(Runs) /\ DOMAIN line = {}
    BY LineFunction DEF Init, EmptyLine
  <2>2. QueueTypes(line, inProgress, driving, state, driver, ended, outcome)
    BY <2>1 DEF Init, QueueTypes, RunStates, DriverStates, Outcomes
  <2>3. ASSUME NEW r \in Runs
        PROVE  RunBooks(r, line, inProgress, driving, state, driver, ended, outcome)
    BY <2>1 DEF Init, RunBooks, Active
  <2>. QED BY <2>2, <2>3 DEF QueueInv, QueueOK
<1>3. MachInv
  BY DEF Init, MachInv, NewMachine, RunsAssumption
<1>4. NoStuckRun
  BY DEF Init, NoStuckRun
<1>. QED BY <1>1, <1>2, <1>3, <1>4 DEF IInv

LEMMA StepInvariant == RunsAssumption /\ IInv /\ [Next]_vars => IInv'
<1> SUFFICES ASSUME RunsAssumption, IInv, [Next]_vars PROVE IInv'
  OBVIOUS
<1>1. ASSUME NEW run \in Runs, SubmitRun(run) PROVE IInv'
  BY <1>1, SubmitRunKeeps
<1>2. ASSUME NEW run \in Runs, CancelWaitingRun(run) PROVE IInv'
  BY <1>2, CancelWaitingRunKeeps
<1>3. ASSUME NEW run \in Runs, Drive(run) PROVE IInv'
  <2>1. CASE DriveCancelled(run)
    BY <2>1, DriveCancelledKeeps
  <2>2. CASE DriveRefused(run)
    BY <2>2, EarlyReturnKeeps DEF DriveRefused
  <2>3. CASE DriveValidates(run)
    BY <2>3, DriveValidatesKeeps
  <2>4. CASE ValidationFails(run)
    BY <2>4, EarlyReturnKeeps DEF ValidationFails
  <2>5. CASE StartFlowRefused(run)
    BY <2>5, EarlyReturnKeeps DEF StartFlowRefused
  <2>6. CASE \E id \in MachineIds, debug \in BOOLEAN : StartFlow(run, id, debug)
    BY <2>6, StartFlowKeeps
  <2>7. CASE AbandonEnds(run)
    BY <2>7, AbandonEndsKeeps
  <2>. QED BY <1>3, <2>1, <2>2, <2>3, <2>4, <2>5, <2>6, <2>7 DEF Drive
<1>4. ASSUME NEW run \in Runs, DriverCancelled(run) PROVE IInv'
  BY <1>4, DriverCancelledKeeps
<1>5. ASSUME NEW id \in MachineIds, Advance(id) \/ NodesFinish(id) PROVE IInv'
  BY <1>5, NodesKeep, HolderLetsGoKeeps, HolderRaisesKeeps DEF Advance
<1>6. ASSUME NEW paused \in BOOLEAN, Step(paused) PROVE IInv'
  BY <1>6, StepKeeps
<1>7. ASSUME NEW paused \in BOOLEAN, NEW id \in MachineIds, NEW flow \in Flows,
             StepStartsFlow(id, flow, paused)
      PROVE  IInv'
  BY <1>7, StepStartsFlowKeeps
<1>8. ASSUME NEW c \in Cancels, CancelRunInProgress(c) PROVE IInv'
  BY <1>8, CancelRunInProgressKeeps
<1>9. ASSUME NEW c \in Cancels, CancelAllRuns(c) PROVE IInv'
  BY <1>9, CancelAllRunsKeeps
<1>10. ASSUME NEW c \in Cancels, CancelGoesOn(c) \/ CancelFails(c) PROVE IInv'
  BY <1>10, CancelWaitsKeeps, CancelResetsKeeps DEF CancelGoesOn
<1>11. ASSUME NEW flow \in Flows, DeleteFlow(flow) PROVE IInv'
  BY <1>11, DeleteFlowKeeps
<1>12. CASE CloseWorkflow
  BY <1>12, CloseWorkflowKeeps
<1>13. CASE UNCHANGED vars
  BY <1>13 DEF IInv, RestTypes, QueueInv, MachInv, NoStuckRun, FlowRunning, RunAdvancing, vars
<1>. QED BY <1>1, <1>2, <1>3, <1>4, <1>5, <1>6, <1>7, <1>8, <1>9, <1>10, <1>11, <1>12, <1>13 DEF Next

(* Every reachable state satisfies the inductive invariant.                *)
THEOREM Invariance == Spec => []IInv
<1>1. Init => IInv
  BY InitInvariant, RunsAssumption
<1>2. IInv /\ [Next]_vars => IInv'
  BY StepInvariant, RunsAssumption
<1>. QED BY <1>1, <1>2, PTL DEF Spec

(* The variables of FlowManager's run state keep their types; a cancel     *)
(* under way always has the machine it began with.                         *)
THEOREM TypeCorrect == Spec => []TypeOK
<1>1. IInv => TypeOK
  BY DEF IInv, RestTypes, QueueInv, QueueOK, QueueTypes, TypeOK
<1>. QED BY <1>1, Invariance, PTL

(* However submissions, steps, cancels, deletions and errors interleave,   *)
(* at most one driver goes on, and it is the run in progress's (_drive,    *)
(* _start_next_run_if_idle, _finish_run).                                  *)
THEOREM OneDriverAtATime == Spec => []OneDriver
<1>1. IInv => OneDriver
  BY DEF IInv, QueueInv, QueueOK, RunBooks, OneDriver, Active
<1>. QED BY <1>1, Invariance, PTL

(* No run is lost, ended twice or answered twice: Run.ended and            *)
(* Run.outcome are each set once, by whichever handler ends the run.       *)
THEOREM RunsAccountedFor == Spec => []EveryRunAccountedFor
<1>1. IInv => EveryRunAccountedFor
  BY DEF IInv, QueueInv, QueueOK, RunBooks, EveryRunAccountedFor
<1>. QED BY <1>1, Invariance, PTL

(* A run whose request has returned, as a debug run's does at a pause,     *)
(* stays in progress only while its flow goes on or someone advances it    *)
(* (_finish_run_if_over is called on every path that can stop it).         *)
THEOREM NoRunStuck == Spec => []NoStuckRun
<1>1. IInv => NoStuckRun
  BY DEF IInv
<1>. QED BY <1>1, Invariance, PTL

-----------------------------------------------------------------------------
(* The queue implements the line of runs. *)

Over == {r \in Runs : ended[r] > 0}

(* Queueing and removing keep the line an order of the waiting runs.       *)
LEMMA LineStaysOrdered ==
  ASSUME NEW l, IsLine(l)
  PROVE  /\ \A r : r \notin DOMAIN l => IsLine(Enqueue(l, r))
         /\ \A G : IsLine(Remove(l, G))
  BY DEF IsLine, Enqueue, Remove

LEMMA LineStepKeepsOrder ==
  ASSUME IsLine(line), Line!LineNext
  PROVE  IsLine(line')
<1>1. ASSUME NEW run \in Runs, Line!Arrive(run) PROVE IsLine(line')
  <2>1. IsLine(Enqueue(line, run))
    BY <1>1, LineStaysOrdered DEF Line!Arrive
  <2>2. line' = Enqueue(line, run) \/ \E G : line' = Remove(Enqueue(line, run), G)
    BY <1>1 DEF Line!Arrive, Line!ServeNext, Line!Enqueue, Enqueue, Line!Remove, Remove
  <2>. QED BY <2>1, <2>2, LineStaysOrdered
<1>2. ASSUME NEW gone \in SUBSET Runs, Line!Leave(gone) PROVE IsLine(line')
  <2>1. line' = Remove(line, gone) \/ \E G : line' = Remove(Remove(line, gone), G)
    BY <1>2 DEF Line!Leave, Line!ServeNext, Line!Remove, Remove
  <2>. QED BY <2>1, LineStaysOrdered
<1>. QED BY <1>1, <1>2 DEF Line!LineNext

(* Starting the next run serves the head of the line, or nobody.           *)
LEMMA StartNextServes ==
  ASSUME NEW l, NEW st, NEW dr, StartNextRunIfIdle(l, st, dr)
  PROVE  (line' = l /\ inProgress' = None) \/ Line!ServeNext(l)
  BY DEF StartNextRunIfIdle, Line!ServeNext, Line!Heads, Heads, Line!Remove, Remove

(* Runs turned away and the run in progress ending, together or alone, is  *)
(* a departure.                                                            *)
LEMMA EndingIsLeaving ==
  ASSUME RunsAssumption, IInv, IsLine(line), inProgress \in Runs,
         NEW gone \in SUBSET DOMAIN line, NEW st, NEW dr,
         FinishRun(inProgress, Remove(line, gone), st, dr, TurnedAwayEnded(gone))
  PROVE  Line!LineNext
<1>0. PICK left : left = gone \cup {inProgress}
  OBVIOUS
<1>1. gone \subseteq Runs /\ inProgress \notin DOMAIN line /\ inProgress # None
  BY LineOps DEF IInv, QueueInv, QueueOK, QueueTypes, RunBooks, RunsAssumption
<1>2. Remove(line, left) = Remove(line, gone)
  BY <1>0, <1>1 DEF Remove, IsLine
<1>3. /\ ended' = [TurnedAwayEnded(gone) EXCEPT ![inProgress] = @ + 1]
      /\ StartNextRunIfIdle(Remove(line, gone), st, dr)
  BY DEF FinishRun
<1>4. Over' = Over \cup left
  <2>1. \A r \in Runs : ended[r] \in Nat /\ ended'[r] = IF r \in left THEN ended[r] + 1 ELSE ended[r]
    BY <1>0, <1>1, <1>3 DEF TurnedAwayEnded, IInv, QueueInv, QueueOK, QueueTypes
  <2>. QED BY <1>0, <1>1, <2>1 DEF Over
<1>5. (line' = Remove(line, left) /\ inProgress' = None) \/ Line!ServeNext(Remove(line, left))
  BY <1>2, <1>3, StartNextServes
<1>6. Line!Leave(left)
  BY <1>0, <1>1, <1>4, <1>5 DEF Line!Leave, Over, Line!Remove, Remove
<1>7. left \in SUBSET Runs
  BY <1>0, <1>1
<1>. QED BY <1>6, <1>7 DEF Line!LineNext

LEMMA DrivenIsServed ==
  ASSUME IInv, NEW run \in Runs, driver[run] \in Active
  PROVE  inProgress = run
  BY DEF IInv, QueueInv, QueueOK, RunBooks

LEMMA NobodyIsTurnedAway ==
  ASSUME IInv
  PROVE  Remove(line, {}) = line /\ TurnedAwayEnded({}) = ended
  BY DEF Remove, TurnedAwayEnded, IInv, QueueInv, QueueOK, QueueTypes, Lines

LEMMA FinishRunIsLeaving ==
  ASSUME RunsAssumption, IInv, IsLine(line), NEW run \in Runs, inProgress = run, NEW st, NEW dr,
         FinishRun(run, line, st, dr, ended)
  PROVE  Line!LineNext
<1>1. {} \in SUBSET DOMAIN line
  OBVIOUS
<1>. QED BY <1>1, NobodyIsTurnedAway, EndingIsLeaving

LEMMA TurnAwayIsLeaving ==
  ASSUME RunsAssumption, IInv, NEW gone \in SUBSET DOMAIN line,
         line' = Remove(line, gone), ended' = TurnedAwayEnded(gone), inProgress' = inProgress
  PROVE  Line!LineNext \/ UNCHANGED <<line, inProgress, Over>>
<1>1. gone \subseteq Runs /\ inProgress \notin gone /\ None \notin gone
  BY LineOps DEF IInv, QueueInv, QueueOK, QueueTypes, RunBooks, RunsAssumption
<1>2. Over' = Over \cup gone
  <2>1. \A r \in Runs : ended[r] \in Nat /\ ended'[r] = IF r \in gone THEN ended[r] + 1 ELSE ended[r]
    BY DEF TurnedAwayEnded, IInv, QueueInv, QueueOK, QueueTypes
  <2>. QED BY <1>1, <2>1 DEF Over
<1>3. CASE gone = {}
  <2>1. Remove(line, {}) = line
    BY DEF Remove, IInv, QueueInv, QueueOK, QueueTypes, Lines
  <2>. QED BY <1>2, <1>3, <2>1
<1>4. CASE gone # {}
  <2>1. Line!Leave(gone)
    BY <1>1, <1>2, <1>4 DEF Line!Leave, Over, Line!Remove, Remove
  <2>. QED BY <1>1, <2>1 DEF Line!LineNext
<1>. QED BY <1>3, <1>4

LEMMA FinishRunIfOverIsLeaving ==
  ASSUME RunsAssumption, IInv, IsLine(line), NEW gone \in SUBSET DOMAIN line,
         NEW mc, NEW cur, NEW st,
         FinishRunIfOver(mc, cur, Remove(line, gone), st, TurnedAwayEnded(gone))
  PROVE  Line!LineNext \/ UNCHANGED <<line, inProgress, Over>>
<1>1. CASE inProgress = None \/ driving \/ RunAdvancing(mc, cur) \/ FlowRunning(mc, cur)
  BY <1>1, TurnAwayIsLeaving DEF FinishRunIfOver
<1>2. CASE ~(inProgress = None \/ driving \/ RunAdvancing(mc, cur) \/ FlowRunning(mc, cur))
  <2>1. inProgress \in Runs
    BY <1>2 DEF IInv, QueueInv, QueueOK, QueueTypes
  <2>. QED BY <1>2, <2>1, EndingIsLeaving DEF FinishRunIfOver
<1>. QED BY <1>1, <1>2

LEMMA ReturnIsLeaving ==
  ASSUME RunsAssumption, IInv, IsLine(line), NEW run \in Runs, driver[run] \in Active,
         NEW result, NEW mc, NEW cur, Return(run, result, mc, cur)
  PROVE  Line!LineNext \/ UNCHANGED <<line, inProgress, Over>>
<1>1. inProgress = run
  BY DEF IInv, QueueInv, QueueOK, RunBooks
<1>2. CASE FlowRunning(mc, cur)
  BY <1>2 DEF Return, Over
<1>3. CASE ~FlowRunning(mc, cur)
  BY <1>1, <1>3, FinishRunIsLeaving DEF Return
<1>. QED BY <1>2, <1>3

(* Every step of the queue's handlers is a step of the line, or none.      *)
LEMMA StepIsLineStep ==
  ASSUME RunsAssumption, IInv, IsLine(line), Next
  PROVE  Line!LineNext \/ UNCHANGED <<line, inProgress, Over>>
<1> DEFINE Simulated == Line!LineNext \/ UNCHANGED <<line, inProgress, Over>>
<1>1. ASSUME NEW run \in Runs, SubmitRun(run) PROVE Simulated
  <2>1. run \notin DOMAIN line \cup {inProgress} \cup Over
    BY <1>1 DEF SubmitRun, IInv, QueueInv, QueueOK, RunBooks, Over
  <2>2. ended' = ended
    BY <1>1 DEF SubmitRun
  <2>3. \/ line' = Enqueue(line, run) /\ inProgress' = inProgress
        \/ inProgress = None /\ Line!ServeNext(Enqueue(line, run))
    BY <1>1, StartNextServes DEF SubmitRun
  <2>4. Line!Arrive(run)
    BY <2>1, <2>2, <2>3 DEF Line!Arrive, Line!Enqueue, Enqueue, Over
  <2>. QED BY <2>4 DEF Line!LineNext
<1>2. ASSUME NEW run \in Runs, CancelWaitingRun(run) PROVE Simulated
  <2>1. {run} \in SUBSET DOMAIN line
    BY <1>2 DEF CancelWaitingRun
  <2>. QED BY <1>2, <2>1, TurnAwayIsLeaving DEF CancelWaitingRun
<1>3. ASSUME NEW run \in Runs, Drive(run) \/ DriverCancelled(run) PROVE Simulated
  <2>1. CASE DriveCancelled(run)
    BY <2>1, DrivenIsServed, FinishRunIsLeaving DEF DriveCancelled, Active
  <2>2. CASE DriveValidates(run)
    BY <2>2 DEF DriveValidates, Over
  <2>3. CASE \E id \in MachineIds, debug \in BOOLEAN : StartFlow(run, id, debug)
    BY <2>3, ReturnIsLeaving DEF StartFlow, Active, Over
  <2>4. CASE DriveRefused(run) \/ ValidationFails(run) \/ StartFlowRefused(run) \/ AbandonEnds(run)
    BY <2>4, ReturnIsLeaving DEF DriveRefused, ValidationFails, StartFlowRefused, AbandonEnds, Active
  <2>5. CASE DriverCancelled(run)
    BY <2>5, DrivenIsServed, FinishRunIsLeaving DEF DriverCancelled, Active
  <2>. QED BY <1>3, <2>1, <2>2, <2>3, <2>4, <2>5 DEF Drive
<1>4. ASSUME NEW id \in MachineIds, Advance(id) \/ NodesFinish(id) PROVE Simulated
  <2>1. CASE NodeStarts(id) \/ NodesFinish(id) \/ HolderRaises(id)
    BY <2>1 DEF NodeStarts, NodesFinish, HolderRaises, queueVars, Over
  <2>2. ASSUME NEW newState, NEW result, LetGo(id, newState, result) PROVE Simulated
    <3>1. mach[id].holder \in Runs => driver[mach[id].holder] \in Active
      BY DEF IInv, MachInv, Active
    <3>2. ASSUME NEW mc, FinishRunIfOver(mc, machine, line, state, ended) PROVE Simulated
      BY <3>2, NobodyIsTurnedAway, FinishRunIfOverIsLeaving
    <3>. QED BY <2>2, <3>1, <3>2, ReturnIsLeaving DEF LetGo
  <2>. QED BY <1>4, <2>1, <2>2 DEF Advance, FlowEnds, HolderPauses, HolderAbandons
<1>5. ASSUME NEW paused \in BOOLEAN, Step(paused) PROVE Simulated
  BY <1>5 DEF Step, queueVars, Over
<1>6. ASSUME NEW paused \in BOOLEAN, NEW id \in MachineIds, NEW flow \in Flows,
             StepStartsFlow(id, flow, paused)
      PROVE  Simulated
  BY <1>6 DEF StepStartsFlow, queueVars, Over
<1>7. ASSUME NEW c \in Cancels, CancelRunInProgress(c) PROVE Simulated
  BY <1>7 DEF CancelRunInProgress, Over
<1>8. ASSUME NEW c \in Cancels, CancelAllRuns(c) PROVE Simulated
  BY <1>8, TurnAwayIsLeaving DEF CancelAllRuns
<1>9. ASSUME NEW c \in Cancels, CancelTasks(c) \/ CancelFails(c) PROVE Simulated
  BY <1>9 DEF CancelTasks, CancelFails, queueVars, Over
<1>10. ASSUME NEW c \in Cancels, CancelResets(c) PROVE Simulated
  <2>1. CASE cancels[c].kind = "all"
    BY <1>10, <2>1, FinishRunIfOverIsLeaving DEF CancelResets
  <2>2. CASE cancels[c].kind # "all"
    BY <1>10, <2>2, FinishRunIfOverIsLeaving DEF CancelResets
  <2>. QED BY <2>1, <2>2
<1>11. ASSUME NEW flow \in Flows, DeleteFlow(flow) PROVE Simulated
  <2>1. {r \in DOMAIN line : FlowOf[r] = flow} \in SUBSET DOMAIN line
    OBVIOUS
  <2>. QED BY <1>11, <2>1, FinishRunIfOverIsLeaving, TurnAwayIsLeaving DEF DeleteFlow
<1>12. CASE CloseWorkflow
  BY <1>12, FinishRunIfOverIsLeaving DEF CloseWorkflow
<1>. QED BY <1>1, <1>2, <1>3, <1>4, <1>5, <1>6, <1>7, <1>8, <1>9, <1>10, <1>11, <1>12 DEF Next, CancelGoesOn

(* The queue of runs implements the line of runs: one run is served at a   *)
(* time, the longest waiting next, and none that left comes back.          *)
THEOREM LineImplemented == Spec => ImplementsRunLine
<1>1. Init => Line!LineInit /\ IsLine(line)
  BY DEF Init, Line!LineInit, IsLine, EmptyLine, Line!EmptyLine, Over
<1>2. IInv /\ IsLine(line) /\ [Next]_vars => IsLine(line)' /\ [Line!LineNext]_(Line!lineVars)
  <2> SUFFICES ASSUME IInv, IsLine(line), [Next]_vars
               PROVE  IsLine(line') /\ [Line!LineNext]_(Line!lineVars)
    OBVIOUS
  <2>1. CASE Next
    <3>1. Line!LineNext \/ UNCHANGED <<line, inProgress, Over>>
      BY <2>1, StepIsLineStep, RunsAssumption
    <3>. QED BY <3>1, LineStepKeepsOrder DEF Line!lineVars, Over
  <2>2. CASE UNCHANGED vars
    BY <2>2 DEF vars, Line!lineVars
  <2>. QED BY <2>1, <2>2
<1>. QED BY <1>1, <1>2, Invariance, PTL DEF Spec, ImplementsRunLine, Line!LineSpec

-----------------------------------------------------------------------------
(* What only start_flow may do. *)

(* No handler but StartFlow sets a driver going: what the queue's helpers  *)
(* do to drivers is to schedule the next one and to end one.               *)
LEMMA HelpersStartNone ==
  ASSUME IInv, NEW r \in Runs, NEW l, NEW st, NEW en, NEW dr \in [Runs -> DriverStates],
         driver'[r] = "driving"
  PROVE  /\ StartNextRunIfIdle(l, st, dr) => dr[r] = "driving"
         /\ \A run \in Runs : FinishRun(run, l, st, dr, en) => dr[r] = "driving"
         /\ \A mc, cur : FinishRunIfOver(mc, cur, l, st, en) => driver[r] = "driving"
<1>1. StartNextRunIfIdle(l, st, dr) => dr[r] = "driving"
  BY DEF StartNextRunIfIdle, Heads
<1>2. StartNextRunIfIdle(l, st, driver) => driver[r] = "driving"
  BY DEF StartNextRunIfIdle, Heads, IInv, QueueInv, QueueOK, QueueTypes
<1>3. \A s2 : StartNextRunIfIdle(l, s2, driver) => driver[r] = "driving"
  BY DEF StartNextRunIfIdle, Heads, IInv, QueueInv, QueueOK, QueueTypes
<1>. QED BY <1>1, <1>3 DEF FinishRun, FinishRunIfOver

LEMMA ReturnStartsNone ==
  ASSUME IInv, NEW r \in Runs, NEW run \in Runs, NEW result, NEW mc, NEW cur,
         Return(run, result, mc, cur), driver'[r] = "driving"
  PROVE  driver[r] = "driving"
<1>1. PICK dr : dr = [driver EXCEPT ![run] = "over"]
  OBVIOUS
<1>2. dr \in [Runs -> DriverStates] /\ (dr[r] = "driving" => driver[r] = "driving")
  BY <1>1 DEF IInv, QueueInv, QueueOK, QueueTypes, DriverStates
<1>3. dr[r] = "driving"
  BY ZenonT(60), <1>1, <1>2, HelpersStartNone DEF Return
<1>. QED BY <1>2, <1>3

LEMMA OnlyStartFlowDrives ==
  ASSUME RunsAssumption, IInv, Next, NEW r \in Runs, driver[r] # "driving", driver'[r] = "driving"
  PROVE  \E id \in MachineIds, debug \in BOOLEAN : StartFlow(r, id, debug)
<1>0. driver \in [Runs -> DriverStates]
  BY DEF IInv, QueueInv, QueueOK, QueueTypes
<1>1. ASSUME NEW run \in Runs, SubmitRun(run) PROVE FALSE
  BY <1>0, <1>1, HelpersStartNone DEF SubmitRun
<1>2. ASSUME NEW run \in Runs, CancelWaitingRun(run) PROVE FALSE
  BY <1>2 DEF CancelWaitingRun
<1>3. ASSUME NEW run \in Runs, DriveCancelled(run) \/ DriverCancelled(run) PROVE FALSE
  <2>1. PICK dr : dr = [driver EXCEPT ![run] = "over"]
    OBVIOUS
  <2>2. dr \in [Runs -> DriverStates] /\ dr[r] # "driving"
    BY <1>0, <2>1 DEF DriverStates
  <2>3. FinishRun(run, line, state, dr, ended)
    BY <1>3, <2>1 DEF DriveCancelled, DriverCancelled
  <2>. QED BY <2>2, <2>3, HelpersStartNone
<1>4. ASSUME NEW run \in Runs,
             \/ DriveRefused(run) \/ ValidationFails(run) \/ StartFlowRefused(run) \/ AbandonEnds(run)
      PROVE  FALSE
  BY <1>4, ReturnStartsNone DEF DriveRefused, ValidationFails, StartFlowRefused, AbandonEnds
<1>5. ASSUME NEW run \in Runs, DriveValidates(run) PROVE FALSE
  BY <1>0, <1>5 DEF DriveValidates
<1>6. ASSUME NEW run \in Runs, NEW id \in MachineIds, NEW debug \in BOOLEAN, StartFlow(run, id, debug)
      PROVE  run = r
  <2>1. driver' = [driver EXCEPT ![run] = "driving"]
    BY <1>6, ReturnStartsNone DEF StartFlow
  <2>. QED BY <1>0, <2>1
<1>7. ASSUME NEW id \in MachineIds, Advance(id) \/ NodesFinish(id) PROVE FALSE
  <2>1. CASE NodeStarts(id) \/ NodesFinish(id)
    BY <2>1 DEF NodeStarts, NodesFinish, queueVars
  <2>2. CASE HolderRaises(id)
    BY <1>0, <2>2 DEF HolderRaises
  <2>3. ASSUME NEW newState, NEW result, LetGo(id, newState, result) PROVE FALSE
    BY <1>0, <2>3, ReturnStartsNone, HelpersStartNone DEF LetGo
  <2>. QED BY <1>7, <2>1, <2>2, <2>3 DEF Advance, FlowEnds, HolderPauses, HolderAbandons
<1>8. ASSUME NEW paused \in BOOLEAN,
             Step(paused) \/ \E id \in MachineIds, flow \in Flows : StepStartsFlow(id, flow, paused)
      PROVE  FALSE
  BY <1>8 DEF Step, StepStartsFlow, queueVars
<1>9. ASSUME NEW c \in Cancels,
             CancelRunInProgress(c) \/ CancelAllRuns(c) \/ CancelTasks(c) \/ CancelFails(c)
      PROVE  FALSE
  BY <1>9 DEF CancelRunInProgress, CancelAllRuns, CancelTasks, CancelFails, queueVars
<1>10. ASSUME NEW c \in Cancels, CancelResets(c) PROVE FALSE
  BY <1>0, <1>10, HelpersStartNone DEF CancelResets
<1>11. ASSUME NEW flow \in Flows, DeleteFlow(flow) PROVE FALSE
  BY <1>0, <1>11, HelpersStartNone DEF DeleteFlow
<1>12. CASE CloseWorkflow
  BY <1>0, <1>12, HelpersStartNone DEF CloseWorkflow
<1>. QED
  BY <1>1, <1>2, <1>3, <1>4, <1>5, <1>6, <1>7, <1>8, <1>9, <1>10, <1>11, <1>12
     DEF Next, Drive, CancelGoesOn

(* A run cancelled while it waited for the loop, or while its nodes were   *)
(* being validated, never starts its flow (_drive, _raise_if_run_cancelled *)
(* after every await on the way to start_flow).                            *)
THEOREM CancelledStaysUnstarted == Spec => CancelledNeverStarts
<1> DEFINE Started(run) ==
      state[run] = "cancelled" /\ driver[run] \in {"none", "scheduled", "validating"}
        => driver'[run] # "driving"
<1>1. IInv /\ [Next]_vars => [\A run \in Runs : Started(run)]_vars
  <2> SUFFICES ASSUME IInv, Next, NEW run \in Runs, state[run] = "cancelled",
                      driver[run] \in {"none", "scheduled", "validating"}, driver'[run] = "driving"
               PROVE  FALSE
    OBVIOUS
  <2>1. \E id \in MachineIds, debug \in BOOLEAN : StartFlow(run, id, debug)
    BY OnlyStartFlowDrives, RunsAssumption
  <2>2. driver[run] = "validating" /\ inProgress # run
    BY <2>1 DEF StartFlow, CancelledBeforeStart
  <2>. QED BY <2>2 DEF IInv, QueueInv, QueueOK, RunBooks, Active
<1>. QED BY <1>1, Invariance, PTL DEF Spec, CancelledNeverStarts

-----------------------------------------------------------------------------
(* No flow that was deleted goes on: which flow the current machine runs,  *)
(* and which are deleted, through every action that touches either.        *)

LEMMA SameFlowRuns ==
  ASSUME NoDeletedFlowRuns, UNCHANGED <<machine, deleted>>,
         FlowRunning(mach', machine) => FlowRunning(mach, machine)
                                        /\ mach'[machine].flow = mach[machine].flow
  PROVE  NoDeletedFlowRuns'
  BY DEF NoDeletedFlowRuns, FlowRunning

LEMMA StepKeepsFlowsUndeleted ==
  ASSUME RunsAssumption, IInv, NoDeletedFlowRuns, Next
  PROVE  NoDeletedFlowRuns'
<1>0. /\ mach \in [MachineIds -> Machines] /\ machine \in MachineIds \cup {None}
      /\ None \notin MachineIds
  BY DEF IInv, RestTypes, RunsAssumption
<1>1. Reset(mach, machine) \in [MachineIds -> Machines]
      /\ ~FlowRunning(Reset(mach, machine), machine)
  BY <1>0, ResetMachines DEF FlowRunning
<1>2. CASE UNCHANGED <<machine, mach, deleted>>
  BY <1>2, SameFlowRuns
<1>3. ASSUME NEW run \in Runs, AbandonEnds(run) PROVE NoDeletedFlowRuns'
  BY <1>1, <1>3, SameFlowRuns DEF AbandonEnds
<1>4. ASSUME NEW run \in Runs, NEW id \in MachineIds, NEW debug \in BOOLEAN, StartFlow(run, id, debug)
      PROVE  NoDeletedFlowRuns'
  <2>1. /\ machine' = id /\ deleted' = deleted
        /\ FlowOf[run] \in deleted => mach'[id].state = "idle"
        /\ FlowOf[run] \notin deleted => mach'[id].flow = FlowOf[run]
    BY <1>0, <1>4 DEF StartFlow, NewMachine, FlowIsGone
  <2>. QED BY <2>1 DEF NoDeletedFlowRuns, FlowRunning
<1>5. ASSUME NEW run \in Runs, DriverCancelled(run) PROVE NoDeletedFlowRuns'
  <2>1. /\ machine' = machine /\ deleted' = deleted
        /\ \A id \in MachineIds : mach'[id].state = mach[id].state /\ mach'[id].flow = mach[id].flow
    BY <1>0, <1>5 DEF DriverCancelled, Machines
  <2>. QED BY <1>0, <2>1, SameFlowRuns DEF FlowRunning
<1>6. ASSUME NEW id \in MachineIds, Advance(id) \/ NodesFinish(id) PROVE NoDeletedFlowRuns'
  <2> DEFINE SameFlows ==
        /\ machine' = machine /\ deleted' = deleted
        /\ \A other \in MachineIds : /\ mach'[other].flow = mach[other].flow
                                     /\ mach'[other].state = "resolving" => mach[other].state = "resolving"
  <2>1. SameFlows
    <3>1. CASE NodeStarts(id) \/ NodesFinish(id) \/ HolderRaises(id)
      BY <1>0, <3>1 DEF NodeStarts, NodesFinish, HolderRaises, Machines
    <3>2. ASSUME NEW newState, NEW result, LetGo(id, newState, result), mach[id].state = newState
                 \/ newState # "resolving"
          PROVE  SameFlows
      BY <1>0, <3>2 DEF LetGo, Machines
    <3>. QED BY <1>6, <3>1, <3>2 DEF Advance, FlowEnds, HolderPauses, HolderAbandons
  <2>. QED BY <1>0, <2>1, SameFlowRuns DEF FlowRunning
<1>7. ASSUME NEW paused \in BOOLEAN, Step(paused) PROVE NoDeletedFlowRuns'
  BY <1>0, <1>7, SameFlowRuns DEF Step, FlowRunning, Machines
<1>8. ASSUME NEW paused \in BOOLEAN, NEW id \in MachineIds, NEW flow \in Flows,
             StepStartsFlow(id, flow, paused), ~ UNCHANGED <<machine, mach>>
      PROVE  NoDeletedFlowRuns'
  <2>1. PICK f : f = IF machine = None THEN flow ELSE mach[id].flow
    OBVIOUS
  <2>2. f \notin deleted /\ machine' = id /\ deleted' = deleted
    BY <1>8, <2>1 DEF StepStartsFlow
  <2>3. mach' = [mach EXCEPT ![id] = [NewMachine(f) EXCEPT !.state = "resolving", !.paused = paused,
                                                           !.holder = "step"]]
    BY <1>8, <2>1 DEF StepStartsFlow
  <2>4. mach'[id].flow = f
    BY <1>0, <2>3 DEF NewMachine
  <2>. QED BY <2>2, <2>4 DEF NoDeletedFlowRuns, FlowRunning
<1>9. ASSUME NEW c \in Cancels, CancelResets(c) PROVE NoDeletedFlowRuns'
  BY <1>1, <1>9, SameFlowRuns DEF CancelResets
<1>10. ASSUME NEW flow \in Flows, DeleteFlow(flow) PROVE NoDeletedFlowRuns'
  <2>1. CASE RunsFlow(flow)
    BY <1>1, <1>10, <2>1 DEF DeleteFlow, NoDeletedFlowRuns, RunsFlow, FlowRunning
  <2>2. CASE ~RunsFlow(flow)
    BY <1>10, <2>2 DEF DeleteFlow, NoDeletedFlowRuns, RunsFlow, FlowRunning
  <2>. QED BY <2>1, <2>2
<1>11. CASE CloseWorkflow
  BY <1>11 DEF CloseWorkflow, NoDeletedFlowRuns, FlowRunning
<1>. QED
  BY ZenonT(60), <1>2, <1>3, <1>4, <1>5, <1>6, <1>7, <1>8, <1>9, <1>10, <1>11
     DEF Next, Drive, CancelGoesOn, SubmitRun, CancelWaitingRun, DriveCancelled, DriveRefused,
         DriveValidates, ValidationFails, StartFlowRefused, StepStartsFlow, CancelRunInProgress,
         CancelAllRuns, CancelTasks, CancelFails, queueVars

(* A flow that goes on was not deleted: DeleteFlow and closing the         *)
(* workflow stop it first, and neither a run nor a step starts it after.   *)
THEOREM DeletedFlowsStopped == Spec => []NoDeletedFlowRuns
<1>1. Init => NoDeletedFlowRuns
  BY DEF Init, NoDeletedFlowRuns, FlowRunning
<1>2. IInv /\ NoDeletedFlowRuns /\ [Next]_vars => NoDeletedFlowRuns'
  <2> SUFFICES ASSUME IInv, NoDeletedFlowRuns, [Next]_vars PROVE NoDeletedFlowRuns'
    OBVIOUS
  <2>1. CASE UNCHANGED vars
    BY <2>1, SameFlowRuns DEF vars
  <2>. QED BY <2>1, StepKeepsFlowsUndeleted, RunsAssumption
<1>. QED BY <1>1, <1>2, Invariance, PTL DEF Spec

-----------------------------------------------------------------------------
(* A line that is not empty has a first run.  Counting how many runs are   *)
(* ahead would take an induction over finite sets; that every part of the  *)
(* line has a first run is itself kept by every change of the line.        *)
FirstInEveryPart(l) ==
  \A part \in SUBSET DOMAIN l : part # {} => \E first \in part : l[first] \cap part = {}

LEMMA FirstKept ==
  ASSUME NEW l, IsLine(l), FirstInEveryPart(l)
  PROVE  /\ \A r : r \notin DOMAIN l => FirstInEveryPart(Enqueue(l, r))
         /\ \A G : FirstInEveryPart(Remove(l, G))
         /\ DOMAIN l # {} => Heads(l) # {}
<1>1. ASSUME NEW r, r \notin DOMAIN l PROVE FirstInEveryPart(Enqueue(l, r))
  <2> SUFFICES ASSUME NEW part \in SUBSET (DOMAIN l \cup {r}), part # {}
               PROVE  \E first \in part : Enqueue(l, r)[first] \cap part = {}
    BY DEF FirstInEveryPart, Enqueue
  <2>1. CASE part = {r}
    BY <2>1 DEF Enqueue
  <2>2. CASE part # {r}
    <3>1. part \ {r} # {} /\ part \ {r} \in SUBSET DOMAIN l
      BY <2>2
    <3>2. PICK first \in part \ {r} : l[first] \cap (part \ {r}) = {}
      BY <3>1 DEF FirstInEveryPart
    <3>3. r \notin l[first] /\ Enqueue(l, r)[first] = l[first]
      BY <1>1, <3>1 DEF IsLine, Enqueue
    <3>. QED BY <3>2, <3>3
  <2>. QED BY <2>1, <2>2
<1>2. ASSUME NEW G PROVE FirstInEveryPart(Remove(l, G))
  <2> SUFFICES ASSUME NEW part \in SUBSET (DOMAIN l \ G), part # {}
               PROVE  \E first \in part : Remove(l, G)[first] \cap part = {}
    BY DEF FirstInEveryPart, Remove
  <2>1. PICK first \in part : l[first] \cap part = {}
    BY DEF FirstInEveryPart
  <2>. QED BY <2>1 DEF Remove
<1>3. ASSUME DOMAIN l # {} PROVE Heads(l) # {}
  <2>1. PICK first \in DOMAIN l : l[first] \cap DOMAIN l = {}
    BY <1>3 DEF FirstInEveryPart
  <2>. QED BY <2>1 DEF IsLine, Heads
<1>. QED BY <1>1, <1>2, <1>3

LineInv == IsLine(line) /\ FirstInEveryPart(line)

LEMMA LineStepKeepsFirst ==
  ASSUME LineInv, Line!LineNext
  PROVE  FirstInEveryPart(line')
<1>1. ASSUME NEW run \in Runs, Line!Arrive(run) PROVE FirstInEveryPart(line')
  <2>1. IsLine(Enqueue(line, run)) /\ FirstInEveryPart(Enqueue(line, run))
    BY <1>1, LineStaysOrdered, FirstKept DEF Line!Arrive, LineInv
  <2>2. line' = Enqueue(line, run) \/ \E G : line' = Remove(Enqueue(line, run), G)
    BY <1>1 DEF Line!Arrive, Line!ServeNext, Line!Enqueue, Enqueue, Line!Remove, Remove
  <2>. QED BY <2>1, <2>2, FirstKept
<1>2. ASSUME NEW gone \in SUBSET Runs, Line!Leave(gone) PROVE FirstInEveryPart(line')
  <2>1. line' = Remove(line, gone) \/ \E G : line' = Remove(Remove(line, gone), G)
    BY <1>2 DEF Line!Leave, Line!ServeNext, Line!Remove, Remove
  <2>2. IsLine(Remove(line, gone)) /\ FirstInEveryPart(Remove(line, gone))
    BY LineStaysOrdered, FirstKept DEF LineInv
  <2>. QED BY <2>1, <2>2, LineStaysOrdered, FirstKept
<1>. QED BY <1>1, <1>2 DEF Line!LineNext

(* A handler that ends a run leaves nobody waiting with no run served,     *)
(* unless a cancel of every run is under way.                              *)
Attended == cancelling \/ inProgress' # None \/ DOMAIN line' = {}

LEMMA EndingStrandsNobody ==
  ASSUME RunsAssumption, NEW l, IsLine(l), FirstInEveryPart(l), None \notin DOMAIN l,
         cancelling \/ inProgress # None \/ DOMAIN l = {}
  PROVE  /\ \A st, dr : StartNextRunIfIdle(l, st, dr) => Attended
         /\ \A run, st, dr, en : FinishRun(run, l, st, dr, en) => Attended
         /\ \A mc, cur, st, en : FinishRunIfOver(mc, cur, l, st, en) => Attended
         /\ \A mc, cur, st, en : FinishRunIfOver(mc, cur, l, st, en) /\ DOMAIN l = {} => DOMAIN line' = {}
<1>1. \A st, dr : StartNextRunIfIdle(l, st, dr) => Attended /\ (DOMAIN l = {} => DOMAIN line' = {})
  BY FirstKept DEF StartNextRunIfIdle, Heads, Attended
<1>2. \A run, st, dr, en : FinishRun(run, l, st, dr, en) => Attended /\ (DOMAIN l = {} => DOMAIN line' = {})
  BY <1>1 DEF FinishRun, Attended
<1>3. \A mc, cur, st, en :
        FinishRunIfOver(mc, cur, l, st, en) => Attended /\ (DOMAIN l = {} => DOMAIN line' = {})
  BY <1>2 DEF FinishRunIfOver, Attended
<1>. QED BY <1>1, <1>2, <1>3

LEMMA ReturnStrandsNobody ==
  ASSUME RunsAssumption, IInv, LineInv, NoStrandedLine, NEW run, NEW result, NEW mc, NEW cur,
         Return(run, result, mc, cur)
  PROVE  Attended
<1>1. None \notin DOMAIN line
  BY LineOps DEF IInv, QueueInv, QueueOK, QueueTypes, RunsAssumption
<1>2. cancelling \/ inProgress # None \/ DOMAIN line = {}
  BY DEF NoStrandedLine
<1>3. CASE FlowRunning(mc, cur)
  BY <1>2, <1>3 DEF Return, Attended
<1>4. CASE ~FlowRunning(mc, cur)
  BY <1>1, <1>2, <1>4, EndingStrandsNobody DEF Return, LineInv
<1>. QED BY <1>3, <1>4

LEMMA StepStrandsNobody ==
  ASSUME RunsAssumption, IInv, LineInv, NoStrandedLine, ~CancelMayFail, Next
  PROVE  NoStrandedLine'
<1>1. None \notin DOMAIN line /\ DOMAIN line \subseteq Runs
  BY LineOps DEF IInv, QueueInv, QueueOK, QueueTypes, RunsAssumption
<1>2. cancelling \/ inProgress # None \/ DOMAIN line = {}
  BY DEF NoStrandedLine
<1>3. ASSUME NEW G
      PROVE  /\ IsLine(Remove(line, G)) /\ FirstInEveryPart(Remove(line, G))
             /\ DOMAIN Remove(line, G) = DOMAIN line \ G
  BY LineStaysOrdered, FirstKept DEF LineInv, Remove
<1>4. ASSUME Attended, cancelling' = cancelling PROVE NoStrandedLine'
  BY <1>4 DEF Attended, NoStrandedLine
<1>5. ASSUME UNCHANGED <<line, inProgress, cancelling>> PROVE NoStrandedLine'
  BY <1>5 DEF NoStrandedLine
<1>6. ASSUME NEW run \in Runs, SubmitRun(run) PROVE NoStrandedLine'
  <2>1. CASE inProgress # None
    BY <1>6, <2>1 DEF SubmitRun, NoStrandedLine
  <2>2. CASE inProgress = None
    <3>1. run \notin DOMAIN line /\ run # None
      BY <1>6 DEF SubmitRun, IInv, QueueInv, QueueOK, RunBooks, RunsAssumption
    <3>2. PICK l : l = Enqueue(line, run)
      OBVIOUS
    <3>3. IsLine(l) /\ FirstInEveryPart(l) /\ None \notin DOMAIN l
      BY <1>1, <3>1, <3>2, LineStaysOrdered, FirstKept DEF LineInv, Enqueue
    <3>4. CASE cancelling
      BY <1>6, <3>4 DEF SubmitRun, NoStrandedLine
    <3>5. CASE ~cancelling
      <4>1. PICK st, dr : StartNextRunIfIdle(l, st, dr)
        BY <1>6, <2>2, <3>2 DEF SubmitRun
      <4>2. Heads(l) # {}
        BY <3>2, <3>3, FirstKept DEF Enqueue
      <4>3. inProgress' # None
        BY <3>3, <3>5, <4>1, <4>2 DEF StartNextRunIfIdle, Heads
      <4>. QED BY <4>3 DEF NoStrandedLine
    <3>. QED BY <3>4, <3>5
  <2>. QED BY <2>1, <2>2
<1>7. ASSUME NEW run \in Runs, CancelWaitingRun(run) PROVE NoStrandedLine'
  BY <1>2, <1>3, <1>7 DEF CancelWaitingRun, NoStrandedLine
<1>8. ASSUME NEW run \in Runs, DriveCancelled(run) \/ DriverCancelled(run) PROVE NoStrandedLine'
  <2>1. \E st, dr, en : FinishRun(run, line, st, dr, en)
    BY <1>8 DEF DriveCancelled, DriverCancelled
  <2>2. Attended
    BY <1>1, <1>2, <2>1, EndingStrandsNobody DEF LineInv
  <2>. QED BY <1>4, <1>8, <2>2 DEF DriveCancelled, DriverCancelled
<1>9. ASSUME NEW run \in Runs,
             DriveRefused(run) \/ ValidationFails(run) \/ StartFlowRefused(run) \/ AbandonEnds(run)
      PROVE  NoStrandedLine'
  BY <1>4, <1>9, ReturnStrandsNobody DEF DriveRefused, ValidationFails, StartFlowRefused, AbandonEnds
<1>10. ASSUME NEW run \in Runs, NEW id \in MachineIds, NEW debug \in BOOLEAN, StartFlow(run, id, debug)
       PROVE  NoStrandedLine'
  BY <1>4, <1>5, <1>10, ReturnStrandsNobody DEF StartFlow
<1>11. ASSUME NEW id \in MachineIds, Advance(id) \/ NodesFinish(id) PROVE NoStrandedLine'
  <2>1. CASE NodeStarts(id) \/ NodesFinish(id) \/ HolderRaises(id)
    BY <1>5, <2>1 DEF NodeStarts, NodesFinish, HolderRaises, queueVars
  <2>2. ASSUME NEW newState, NEW result, LetGo(id, newState, result) PROVE NoStrandedLine'
    <3>1. ASSUME NEW mc, FinishRunIfOver(mc, machine, line, state, ended) PROVE Attended
      BY <1>1, <1>2, <3>1, EndingStrandsNobody DEF LineInv
    <3>. QED BY <1>4, <2>2, <3>1, ReturnStrandsNobody DEF LetGo
  <2>. QED BY <1>11, <2>1, <2>2 DEF Advance, FlowEnds, HolderPauses, HolderAbandons
<1>12. ASSUME NEW c \in Cancels, CancelAllRuns(c) PROVE NoStrandedLine'
  BY <1>3, <1>12 DEF CancelAllRuns, NoStrandedLine
<1>13. ASSUME NEW c \in Cancels, CancelResets(c) PROVE NoStrandedLine'
  <2>1. PICK gone : gone = IF cancels[c].kind = "all" THEN DOMAIN line \ StartedByEnd ELSE {}
    OBVIOUS
  <2>2. PICK mc, st, en : FinishRunIfOver(mc, machine, Remove(line, gone), st, en)
    BY <1>13, <2>1 DEF CancelResets
  <2>3. /\ None \notin DOMAIN Remove(line, gone)
        /\ cancelling \/ inProgress # None \/ DOMAIN Remove(line, gone) = {}
    BY <1>1, <1>2, <1>3
  <2>4. Attended /\ (gone = DOMAIN line => DOMAIN line' = {})
    BY ZenonT(60), <1>3, <2>2, <2>3, EndingStrandsNobody
  <2>5. CASE cancels[c].kind = "all"
    <3>1. CASE StartedByEnd = {}
      BY <2>1, <2>4, <2>5, <3>1 DEF NoStrandedLine
    <3>2. CASE StartedByEnd # {}
      BY <2>4, <3>2 DEF StartedByEnd, NoStrandedLine, Attended
    <3>. QED BY <3>1, <3>2
  <2>6. CASE cancels[c].kind # "all"
    BY <1>13, <2>4, <2>6 DEF CancelResets, NoStrandedLine, Attended, IInv, RestTypes
  <2>. QED BY <2>5, <2>6
<1>14. ASSUME NEW flow \in Flows, DeleteFlow(flow) PROVE NoStrandedLine'
  <2>1. PICK gone : gone = {r \in DOMAIN line : FlowOf[r] = flow}
    OBVIOUS
  <2>2. /\ None \notin DOMAIN Remove(line, gone)
        /\ cancelling \/ inProgress # None \/ DOMAIN Remove(line, gone) = {}
    BY <1>1, <1>2, <1>3
  <2>3. \/ \E mc, cur, st, en : FinishRunIfOver(mc, cur, Remove(line, gone), st, en)
        \/ line' = Remove(line, gone) /\ inProgress' = inProgress
    BY <1>14, <2>1 DEF DeleteFlow
  <2>4. Attended
    BY <1>3, <2>2, <2>3, EndingStrandsNobody DEF Attended
  <2>. QED BY <1>4, <1>14, <2>4 DEF DeleteFlow
<1>15. CASE CloseWorkflow
  <2>1. DOMAIN Remove(line, DOMAIN line) = {}
    BY <1>3
  <2>2. PICK mc, st, en : FinishRunIfOver(mc, None, Remove(line, DOMAIN line), st, en)
    BY <1>15 DEF CloseWorkflow
  <2>3. DOMAIN line' = {}
    BY <1>3, <2>1, <2>2, EndingStrandsNobody
  <2>. QED BY <2>3 DEF NoStrandedLine
<1>. QED
  BY <1>5, <1>6, <1>7, <1>8, <1>9, <1>10, <1>11, <1>12, <1>13, <1>14, <1>15
     DEF Next, Drive, CancelGoesOn, DriveValidates, Step, StepStartsFlow, CancelRunInProgress,
         CancelTasks, CancelFails, queueVars

(* If awaiting the nodes' cancellation never raises, runs wait only behind *)
(* a run in progress or while a cancel of every run is under way: each     *)
(* handler that ends a run starts the next, and cancel_all_runs_in turns   *)
(* away what it held back.                                                 *)
THEOREM LineAttended ==
  ASSUME ~CancelMayFail
  PROVE  Spec => []NoStrandedLine
<1>1. Init => LineInv /\ NoStrandedLine
  BY DEF Init, LineInv, IsLine, FirstInEveryPart, EmptyLine, NoStrandedLine
<1>2. IInv /\ LineInv /\ NoStrandedLine /\ [Next]_vars => (LineInv /\ NoStrandedLine)'
  <2> SUFFICES ASSUME IInv, LineInv, NoStrandedLine, [Next]_vars
               PROVE  LineInv' /\ NoStrandedLine'
    OBVIOUS
  <2>1. CASE Next
    <3>1. Line!LineNext \/ UNCHANGED line
      BY <2>1, StepIsLineStep, RunsAssumption DEF LineInv
    <3>2. LineInv'
      BY <3>1, LineStepKeepsOrder, LineStepKeepsFirst DEF LineInv
    <3>. QED BY <2>1, <3>2, StepStrandsNobody, RunsAssumption
  <2>2. CASE UNCHANGED vars
    BY <2>2 DEF vars, LineInv, NoStrandedLine
  <2>. QED BY <2>1, <2>2
<1>. QED BY <1>1, <1>2, Invariance, PTL DEF Spec

-----------------------------------------------------------------------------
(* A cancel of every run, when there is one such cancel at a time.  While  *)
(* it is under way nobody is started: new runs are held back, or turned    *)
(* away once the workflow was closed; and whoever drives, or would, was    *)
(* cancelled by it.                                                        *)
OneCancelOfAll == CancelKinds \subseteq {"all"} /\ \A c, d \in Cancels : c = d

UnderWay == \E c \in Cancels : cancels[c].phase # "none"

HitsItsRun ==
  UnderWay =>
    /\ cancelling \/ (DOMAIN line = {} /\ deleted = Flows)
    /\ \A r \in Runs : driver[r] \in {"scheduled", "validating", "driving"} => state[r] = "cancelled"

(* With runs held back, or none waiting, the end of a run starts no other. *)
LEMMA HeldBackStartsNone ==
  ASSUME NEW l, cancelling \/ DOMAIN l = {}
  PROVE  /\ \A st, dr : StartNextRunIfIdle(l, st, dr) => line' = l /\ state' = st /\ driver' = dr
         /\ \A run, st, dr, en :
              FinishRun(run, l, st, dr, en) => line' = l /\ state' = st /\ driver' = dr
         /\ \A mc, cur, st, en : FinishRunIfOver(mc, cur, l, st, en) =>
              /\ line' = l /\ driver' = driver
              /\ \/ state' = st
                 \/ state' = [st EXCEPT ![inProgress] = IF @ = "paused" THEN "finished" ELSE @]
<1>1. ASSUME NEW st, NEW dr, StartNextRunIfIdle(l, st, dr)
      PROVE  line' = l /\ state' = st /\ driver' = dr
  BY <1>1 DEF StartNextRunIfIdle, Heads
<1>2. ASSUME NEW run, NEW st, NEW dr, NEW en, FinishRun(run, l, st, dr, en)
      PROVE  line' = l /\ state' = st /\ driver' = dr
  BY <1>1, <1>2 DEF FinishRun
<1>3. ASSUME NEW mc, NEW cur, NEW st, NEW en, FinishRunIfOver(mc, cur, l, st, en)
      PROVE  /\ line' = l /\ driver' = driver
             /\ \/ state' = st
                \/ state' = [st EXCEPT ![inProgress] = IF @ = "paused" THEN "finished" ELSE @]
  BY <1>2, <1>3 DEF FinishRunIfOver
<1>. QED BY <1>1, <1>2, <1>3

(* What a step does while such a cancel is under way: drivers only end,    *)
(* and what was cancelled stays so until its driver ends.                  *)
Settles ==
  /\ DOMAIN line' \subseteq DOMAIN line \/ cancelling
  /\ \A r \in Runs :
       driver'[r] \in {"scheduled", "validating", "driving"} =>
         driver'[r] = driver[r] /\ (state[r] = "cancelled" => state'[r] = "cancelled")

LEMMA SettlesIsEnough ==
  ASSUME HitsItsRun, UnderWay' => UnderWay, Settles,
         cancelling' = cancelling, deleted' = deleted \/ deleted # Flows
  PROVE  HitsItsRun'
  BY DEF HitsItsRun, Settles, UnderWay

(* The end of a driver's request, or of a step's. *)
LEMMA ReturnSettles ==
  ASSUME IInv, cancelling \/ DOMAIN line = {}, NEW run \in Runs, NEW result, NEW mc, NEW cur,
         Return(run, result, mc, cur)
  PROVE  Settles
<1>0. driver \in [Runs -> DriverStates] /\ state \in [Runs -> RunStates]
  BY DEF IInv, QueueInv, QueueOK, QueueTypes
<1>1. PICK dr : dr = [driver EXCEPT ![run] = "over"]
  OBVIOUS
<1>2. /\ line' = line /\ driver' = dr
      /\ \E to \in RunStates : state' = [state EXCEPT ![run] = to]
  <2>1. CASE FlowRunning(mc, cur)
    <3>1. state' = [state EXCEPT ![run] = "paused"] /\ line' = line /\ driver' = dr
      BY <1>1, <2>1 DEF Return
    <3>. QED BY <3>1 DEF RunStates
  <2>2. CASE ~FlowRunning(mc, cur)
    <3>1. PICK to : /\ to = (IF state[run] # "running" THEN state[run]
                             ELSE IF result = "ok" THEN "finished" ELSE "failed")
                    /\ FinishRun(run, line, [state EXCEPT ![run] = to], dr, ended)
      BY <1>1, <2>2 DEF Return
    <3>2. to \in RunStates
      BY <1>0, <3>1 DEF RunStates
    <3>. QED BY <3>1, <3>2, HeldBackStartsNone
  <2>. QED BY <2>1, <2>2
<1>. QED BY <1>0, <1>1, <1>2 DEF Settles

LEMMA OverSettles ==
  ASSUME IInv, NEW l, cancelling \/ DOMAIN l = {}, DOMAIN l \subseteq DOMAIN line,
         NEW st \in [Runs -> RunStates], \A r \in Runs : state[r] = "cancelled" => st[r] = "cancelled",
         NEW mc, NEW cur, NEW en, FinishRunIfOver(mc, cur, l, st, en)
  PROVE  Settles
<1>1. /\ line' = l /\ driver' = driver
      /\ \/ state' = st
         \/ state' = [st EXCEPT ![inProgress] = IF @ = "paused" THEN "finished" ELSE @]
  BY HeldBackStartsNone
<1>2. \A r \in Runs : st[r] = "cancelled" => state'[r] = "cancelled"
  BY <1>1
<1>. QED BY <1>1, <1>2 DEF Settles

LEMMA TurnedAwayCancelled ==
  ASSUME IInv, NEW gone
  PROVE  /\ TurnedAwayState(state, gone) \in [Runs -> RunStates]
         /\ MarkCancelled(TurnedAwayState(state, gone)) \in [Runs -> RunStates]
         /\ \A r \in Runs : state[r] = "cancelled" =>
              /\ TurnedAwayState(state, gone)[r] = "cancelled"
              /\ MarkCancelled(TurnedAwayState(state, gone))[r] = "cancelled"
<1>1. state \in [Runs -> RunStates] /\ inProgress \in Runs \cup {None}
  BY DEF IInv, QueueInv, QueueOK, QueueTypes
<1>2. PICK st : st = TurnedAwayState(state, gone)
  OBVIOUS
<1>3. st \in [Runs -> RunStates] /\ \A r \in Runs : state[r] = "cancelled" => st[r] = "cancelled"
  BY <1>1, <1>2 DEF TurnedAwayState, RunStates
<1>4. MarkCancelled(st) \in [Runs -> RunStates]
      /\ \A r \in Runs : state[r] = "cancelled" => MarkCancelled(st)[r] = "cancelled"
  BY <1>1, <1>3 DEF MarkCancelled, RunStates
<1>. QED BY <1>2, <1>3, <1>4

LEMMA StepHitsItsRun ==
  ASSUME RunsAssumption, OneCancelOfAll, IInv, HitsItsRun, Next
  PROVE  HitsItsRun'
<1>0. /\ driver \in [Runs -> DriverStates] /\ state \in [Runs -> RunStates]
      /\ line \in Lines(Runs) /\ cancels \in [Cancels -> CancelStates \cup {NoCancel}]
  BY DEF IInv, QueueInv, QueueOK, QueueTypes, RestTypes
<1>1. ASSUME NEW c \in Cancels, CancelAllRuns(c) \/ CancelRunInProgress(c) \/ CancelResets(c) \/ CancelFails(c)
      PROVE  HitsItsRun'
  <2>1. ~CancelRunInProgress(c)
    BY DEF CancelRunInProgress, OneCancelOfAll
  <2>2. CASE CancelResets(c) \/ CancelFails(c)
    <3>1. ~UnderWay'
      BY <1>0, <2>2 DEF CancelResets, CancelFails, UnderWay, NoCancel, OneCancelOfAll
    <3>. QED BY <3>1 DEF HitsItsRun
  <2>3. CASE CancelAllRuns(c)
    <3>1. ~UnderWay
      BY <2>3 DEF CancelAllRuns, UnderWay, OneCancelOfAll
    <3>2. CASE ~FlowRunning(mach, machine)
      BY <2>3, <3>1, <3>2 DEF CancelAllRuns, UnderWay, HitsItsRun
    <3>3. CASE FlowRunning(mach, machine)
      <4>1. cancelling' = TRUE /\ driver' = driver
        BY <2>3, <3>3 DEF CancelAllRuns
      <4>2. state' = MarkCancelled(TurnedAwayState(state, DOMAIN line))
        BY <2>3 DEF CancelAllRuns
      <4>3. ASSUME NEW r \in Runs, driver[r] \in {"scheduled", "validating", "driving"}
            PROVE  state'[r] = "cancelled"
        <5>1. inProgress = r /\ r # None
          BY <4>3 DEF IInv, QueueInv, QueueOK, RunBooks, Active, RunsAssumption
        <5>. QED BY <4>2, <5>1 DEF MarkCancelled, TurnedAwayState
      <4>. QED BY <4>1, <4>3 DEF HitsItsRun
    <3>. QED BY <3>2, <3>3
  <2>. QED BY <1>1, <2>1, <2>2, <2>3
<1>2. ASSUME ~(\E c \in Cancels :
                 CancelAllRuns(c) \/ CancelRunInProgress(c) \/ CancelResets(c) \/ CancelFails(c))
      PROVE  UnderWay' => UnderWay
  <2>1. ASSUME NEW c \in Cancels, CancelTasks(c) PROVE UnderWay
    BY <2>1 DEF CancelTasks, UnderWay
  <2>2. ASSUME NEW id \in MachineIds, HolderRaises(id) PROVE cancels' = cancels
    BY <2>2 DEF HolderRaises, OneCancelOfAll
  <2>3. ASSUME NEW id \in MachineIds, NodesFinish(id) PROVE UnderWay' => UnderWay
    BY <1>0, <2>3 DEF NodesFinish, UnderWay
  <2>4. cancels' = cancels \/ (\E c \in Cancels : CancelTasks(c)) \/ \E id \in MachineIds : NodesFinish(id)
    <3>1. ASSUME NEW run \in Runs,
                 SubmitRun(run) \/ CancelWaitingRun(run) \/ Drive(run) \/ DriverCancelled(run)
          PROVE  cancels' = cancels
      BY ZenonT(60), <3>1 DEF Drive, SubmitRun, CancelWaitingRun, DriveCancelled, DriveRefused,
         DriveValidates, ValidationFails, StartFlowRefused, StartFlow, DriverCancelled, AbandonEnds
    <3>2. ASSUME NEW id \in MachineIds, Advance(id) PROVE cancels' = cancels
      BY ZenonT(60), <2>2, <3>2
         DEF Advance, NodeStarts, FlowEnds, HolderPauses, HolderAbandons, LetGo
    <3>3. ASSUME NEW paused \in BOOLEAN,
                 Step(paused) \/ \E id \in MachineIds, flow \in Flows : StepStartsFlow(id, flow, paused)
          PROVE  cancels' = cancels
      BY ZenonT(60), <3>3 DEF Step, StepStartsFlow
    <3>4. (\E flow \in Flows : DeleteFlow(flow)) \/ CloseWorkflow => cancels' = cancels
      BY ZenonT(60) DEF DeleteFlow, CloseWorkflow
    <3>. QED BY ZenonT(60), <1>2, <3>1, <3>2, <3>3, <3>4 DEF Next, CancelGoesOn
  <2>. QED BY <2>1, <2>3, <2>4 DEF UnderWay
<1>3. ASSUME UnderWay,
             ~(\E c \in Cancels :
                 CancelAllRuns(c) \/ CancelRunInProgress(c) \/ CancelResets(c) \/ CancelFails(c))
      PROVE  HitsItsRun'
  <2>0. /\ cancelling \/ (DOMAIN line = {} /\ deleted = Flows)
        /\ \A r \in Runs : driver[r] \in {"scheduled", "validating", "driving"} => state[r] = "cancelled"
    BY <1>3 DEF HitsItsRun
  <2>1. ASSUME Settles, cancelling' = cancelling, deleted' = deleted \/ deleted # Flows
        PROVE  HitsItsRun'
    BY <1>2, <1>3, <2>1, SettlesIsEnough
  <2>2. ASSUME UNCHANGED <<line, driver, state, cancelling, deleted>> PROVE HitsItsRun'
    BY <2>1, <2>2 DEF Settles
  <2>3. ASSUME NEW run \in Runs, SubmitRun(run) PROVE HitsItsRun'
    <3>1. cancelling
      BY <2>0, <2>3 DEF SubmitRun, RunsAssumption
    <3>2. driver' = driver /\ state' = [state EXCEPT ![run] = "queued"]
      BY <2>3, <3>1, HeldBackStartsNone DEF SubmitRun
    <3>3. driver[run] \notin Active
      BY <2>3 DEF SubmitRun, IInv, QueueInv, QueueOK, RunBooks
    <3>4. Settles
      BY <1>0, <3>1, <3>2, <3>3 DEF Settles, Active
    <3>. QED BY <2>1, <2>3, <3>4 DEF SubmitRun
  <2>4. ASSUME NEW run \in Runs, CancelWaitingRun(run) PROVE HitsItsRun'
    <3>1. Settles
      BY <1>0, <2>4 DEF CancelWaitingRun, Settles, Remove, TurnedAwayState
    <3>. QED BY <2>1, <2>4, <3>1 DEF CancelWaitingRun
  <2>5. ASSUME NEW run \in Runs, DriveCancelled(run) \/ DriverCancelled(run) PROVE HitsItsRun'
    <3>1. PICK dr : dr = [driver EXCEPT ![run] = "over"]
      OBVIOUS
    <3>2. FinishRun(run, line, state, dr, ended)
      BY <2>5, <3>1 DEF DriveCancelled, DriverCancelled
    <3>3. line' = line /\ state' = state /\ driver' = dr
      BY <2>0, <3>2, HeldBackStartsNone
    <3>4. Settles
      BY <1>0, <3>1, <3>3 DEF Settles
    <3>. QED BY <2>1, <2>5, <3>4 DEF DriveCancelled, DriverCancelled
  <2>6. ASSUME NEW run \in Runs,
               DriveRefused(run) \/ ValidationFails(run) \/ StartFlowRefused(run) \/ AbandonEnds(run)
        PROVE  HitsItsRun'
    <3>1. Settles
      BY <2>0, <2>6, ReturnSettles DEF DriveRefused, ValidationFails, StartFlowRefused, AbandonEnds
    <3>. QED BY <2>1, <2>6, <3>1 DEF DriveRefused, ValidationFails, StartFlowRefused, AbandonEnds
  <2>7. ASSUME NEW run \in Runs PROVE ~DriveValidates(run)
    BY <2>0 DEF DriveValidates
  <2>8. ASSUME NEW run \in Runs, NEW id \in MachineIds, NEW debug \in BOOLEAN
        PROVE  ~StartFlow(run, id, debug)
    BY <2>0 DEF StartFlow, CancelledBeforeStart, IInv, QueueInv, QueueOK, RunBooks, Active
  <2>9. ASSUME NEW id \in MachineIds, Advance(id) PROVE HitsItsRun'
    <3>1. CASE NodeStarts(id)
      BY <2>2, <3>1 DEF NodeStarts, queueVars
    <3>2. CASE HolderRaises(id)
      <4>1. Settles
        BY <1>0, <3>2 DEF HolderRaises, Settles
      <4>. QED BY <2>1, <3>2, <4>1 DEF HolderRaises
    <3>3. ASSUME NEW newState, NEW result, LetGo(id, newState, result) PROVE HitsItsRun'
      <4>1. Settles
        BY <1>0, <2>0, <3>3, ReturnSettles, OverSettles DEF LetGo
      <4>. QED BY <2>1, <3>3, <4>1 DEF LetGo
    <3>. QED BY <2>9, <3>1, <3>2, <3>3 DEF Advance, FlowEnds, HolderPauses, HolderAbandons
  <2>10. ASSUME NEW flow \in Flows, DeleteFlow(flow) PROVE HitsItsRun'
    <3>1. PICK gone : gone = {r \in DOMAIN line : FlowOf[r] = flow}
      OBVIOUS
    <3>2. DOMAIN Remove(line, gone) = DOMAIN line \ gone
      BY DEF Remove
    <3>3. \/ \E st \in {TurnedAwayState(state, gone), MarkCancelled(TurnedAwayState(state, gone))} :
               \E mc, cur, en : FinishRunIfOver(mc, cur, Remove(line, gone), st, en)
          \/ /\ line' = Remove(line, gone) /\ driver' = driver
             /\ state' \in {TurnedAwayState(state, gone), MarkCancelled(TurnedAwayState(state, gone))}
      BY <2>10, <3>1 DEF DeleteFlow
    <3>4. Settles
      <4>1. CASE \E st \in {TurnedAwayState(state, gone), MarkCancelled(TurnedAwayState(state, gone))} :
                   \E mc, cur, en : FinishRunIfOver(mc, cur, Remove(line, gone), st, en)
        <5>1. PICK st, mc, cur, en :
                /\ st \in {TurnedAwayState(state, gone), MarkCancelled(TurnedAwayState(state, gone))}
                /\ FinishRunIfOver(mc, cur, Remove(line, gone), st, en)
          BY <4>1
        <5>2. /\ st \in [Runs -> RunStates]
              /\ \A r \in Runs : state[r] = "cancelled" => st[r] = "cancelled"
          BY <5>1, TurnedAwayCancelled
        <5>3. /\ cancelling \/ DOMAIN Remove(line, gone) = {}
              /\ DOMAIN Remove(line, gone) \subseteq DOMAIN line
          BY <2>0, <3>2
        <5>. QED BY <5>1, <5>2, <5>3, OverSettles
      <4>2. CASE /\ line' = Remove(line, gone) /\ driver' = driver
                 /\ state' \in {TurnedAwayState(state, gone), MarkCancelled(TurnedAwayState(state, gone))}
        BY <3>2, <4>2, TurnedAwayCancelled DEF Settles
      <4>. QED BY <3>3, <4>1, <4>2
    <3>. QED BY <2>1, <2>10, <3>4 DEF DeleteFlow, IInv, RestTypes
  <2>11. CASE CloseWorkflow
    <3>1. DOMAIN Remove(line, DOMAIN line) = {}
      BY DEF Remove
    <3>2. PICK mc, en : FinishRunIfOver(mc, None, Remove(line, DOMAIN line),
                                        MarkCancelled(TurnedAwayState(state, DOMAIN line)), en)
      BY <2>11 DEF CloseWorkflow
    <3>3. Settles
      BY <3>1, <3>2, TurnedAwayCancelled, OverSettles
    <3>4. DOMAIN line' = {}
      BY <3>1, <3>2, HeldBackStartsNone
    <3>5. deleted' = Flows
      BY <2>11 DEF CloseWorkflow
    <3>. QED BY <2>0, <3>3, <3>4, <3>5 DEF Settles, HitsItsRun
  <2>12. ASSUME NEW paused \in BOOLEAN,
                Step(paused) \/ \E id \in MachineIds, flow \in Flows : StepStartsFlow(id, flow, paused)
         PROVE  HitsItsRun'
    <3>1. UNCHANGED <<line, driver, state, cancelling, deleted>>
      BY ZenonT(60), <2>12 DEF Step, StepStartsFlow, queueVars
    <3>. QED BY <2>2, <3>1
  <2>13. ASSUME NEW id \in MachineIds, NodesFinish(id) PROVE HitsItsRun'
    BY <2>2, <2>13 DEF NodesFinish, queueVars
  <2>14. ASSUME NEW c \in Cancels, CancelTasks(c) PROVE HitsItsRun'
    BY <2>2, <2>14 DEF CancelTasks, queueVars
  <2>. QED BY ZenonT(60), <1>3, <2>3, <2>4, <2>5, <2>6, <2>7, <2>8, <2>9, <2>10, <2>11, <2>12, <2>13, <2>14
              DEF Next, Drive, CancelGoesOn
<1>. QED BY <1>1, <1>2, <1>3 DEF HitsItsRun

(* The machine a run holds is torn down by the deletion of its flow, the   *)
(* closing of the workflow or the cancel under way, each of which has      *)
(* marked the run; its own driver gives up only what it let go of.         *)
LEMMA StepTearsDownCancelled ==
  ASSUME RunsAssumption, IInv, HitsItsRun, Next, NEW id \in MachineIds, NEW run \in Runs,
         mach[id].holder = run, mach[id].state = "resolving", mach'[id].state = "idle"
  PROVE  state'[run] = "cancelled"
<1>0. /\ mach \in [MachineIds -> Machines] /\ machine \in MachineIds \cup {None}
      /\ state \in [Runs -> RunStates] /\ line \in Lines(Runs) /\ None \notin MachineIds
  BY DEF IInv, QueueInv, QueueOK, QueueTypes, RestTypes, RunsAssumption
<1>1. id = machine /\ driver[run] = "driving"
  BY DEF IInv, MachInv
<1>2. driving /\ inProgress = run /\ run # None /\ run \notin DOMAIN line
  BY <1>1 DEF IInv, QueueInv, QueueOK, RunBooks, Active, RunsAssumption
<1>3. run # "free" /\ run # "step"
  BY DEF RunsAssumption
<1>4. ASSUME NEW mc, NEW cur, NEW l, NEW st, NEW en, FinishRunIfOver(mc, cur, l, st, en)
      PROVE  state' = st
  BY <1>2, <1>4 DEF FinishRunIfOver
<1>5. ASSUME NEW gone
      PROVE  MarkCancelled(TurnedAwayState(state, gone))[run] = "cancelled"
  BY <1>2 DEF MarkCancelled, TurnedAwayState
<1>6. ASSUME NEW r \in Runs PROVE ~AbandonEnds(r)
  BY <1>1, <1>2 DEF AbandonEnds, IInv, QueueInv, QueueOK, RunBooks, Active
<1>7. ASSUME NEW c \in Cancels, CancelResets(c) PROVE state'[run] = "cancelled"
  <2>1. UnderWay
    BY <1>7 DEF CancelResets, UnderWay
  <2>2. state[run] = "cancelled"
    BY <1>1, <2>1 DEF HitsItsRun
  <2>3. PICK gone : state' = TurnedAwayState(state, gone)
    BY <1>4, <1>7 DEF CancelResets
  <2>. QED BY <2>2, <2>3 DEF TurnedAwayState
<1>8. ASSUME NEW flow \in Flows, DeleteFlow(flow) PROVE state'[run] = "cancelled"
  <2>1. CASE RunsFlow(flow)
    <3>1. PICK gone : state' = MarkCancelled(TurnedAwayState(state, gone))
      BY <1>4, <1>8, <2>1 DEF DeleteFlow
    <3>. QED BY <1>5, <3>1
  <2>2. CASE ~RunsFlow(flow)
    <3>1. mach' = mach
      BY <1>8, <2>2 DEF DeleteFlow
    <3>. QED BY <3>1
  <2>. QED BY <2>1, <2>2
<1>9. CASE CloseWorkflow
  <2>1. PICK gone : state' = MarkCancelled(TurnedAwayState(state, gone))
    BY <1>4, <1>9 DEF CloseWorkflow
  <2>. QED BY <1>5, <2>1
<1>10. ASSUME NEW r \in Runs, NEW other \in MachineIds, NEW debug \in BOOLEAN, StartFlow(r, other, debug)
       PROVE  FALSE
  <2>1. other # id
    BY <1>3, <1>10 DEF StartFlow, Unused
  <2>2. mach'[id] = mach[id]
    BY <1>0, <1>10, <2>1 DEF StartFlow
  <2>. QED BY <2>2
<1>11. ASSUME NEW r \in Runs, DriverCancelled(r) PROVE FALSE
  <2>1. mach'[id].state = mach[id].state
    BY <1>0, <1>11 DEF DriverCancelled, Machines
  <2>. QED BY <2>1
<1>12. ASSUME NEW other \in MachineIds, Advance(other) \/ NodesFinish(other) PROVE FALSE
  <2>1. CASE NodeStarts(other) \/ NodesFinish(other) \/ HolderRaises(other)
    BY <1>0, <1>12, <2>1 DEF NodeStarts, NodesFinish, HolderRaises, Machines
  <2>2. ASSUME NEW newState, NEW result, LetGo(other, newState, result),
               newState # "idle" \/ mach[other].state = "idle"
        PROVE  FALSE
    BY <1>0, <2>2 DEF LetGo, Machines
  <2>. QED BY <1>12, <2>1, <2>2 DEF Advance, FlowEnds, HolderPauses, HolderAbandons
<1>13. ASSUME NEW paused \in BOOLEAN, Step(paused) PROVE FALSE
  BY <1>0, <1>13 DEF Step, Machines
<1>14. ASSUME NEW paused \in BOOLEAN, NEW other \in MachineIds, NEW flow \in Flows,
              StepStartsFlow(other, flow, paused)
       PROVE  FALSE
  BY <1>1, <1>14 DEF StepStartsFlow, FlowRunning
<1>. QED
  BY ZenonT(60), <1>6, <1>7, <1>8, <1>9, <1>10, <1>11, <1>12, <1>13, <1>14
     DEF Next, Drive, CancelGoesOn, SubmitRun, CancelWaitingRun, DriveCancelled, DriveRefused,
         DriveValidates, ValidationFails, StartFlowRefused, CancelRunInProgress, CancelAllRuns,
         CancelTasks, CancelFails, queueVars

(* With cancels of every run only, one at a time, the flow of a run being  *)
(* driven is torn down only if that run was cancelled: nobody is started   *)
(* between cancel_all_runs_in's await and its reset, so the machine it     *)
(* finds current when it resumes is nobody else's.                         *)
THEOREM TornDownOnlyByItsCancel ==
  ASSUME OneCancelOfAll
  PROVE  Spec => TornDownOnlyIfCancelled
<1> DEFINE TornDown(id, run) ==
      mach[id].holder = run /\ mach[id].state = "resolving" /\ mach'[id].state = "idle"
        => state'[run] = "cancelled"
<1>1. Init => HitsItsRun
  BY DEF Init, HitsItsRun, UnderWay, NoCancel
<1>2. IInv /\ HitsItsRun /\ [Next]_vars => HitsItsRun'
  <2> SUFFICES ASSUME IInv, HitsItsRun, [Next]_vars PROVE HitsItsRun'
    OBVIOUS
  <2>1. CASE UNCHANGED vars
    BY <2>1 DEF vars, HitsItsRun, UnderWay
  <2>. QED BY <2>1, StepHitsItsRun, RunsAssumption
<1>3. IInv /\ HitsItsRun /\ [Next]_vars => [\A id \in MachineIds, run \in Runs : TornDown(id, run)]_vars
  BY StepTearsDownCancelled, RunsAssumption
<1>. QED BY <1>1, <1>2, <1>3, Invariance, PTL DEF Spec, TornDownOnlyIfCancelled

=============================================================================
