SPECIFICATION Spec
CONSTANTS
  r1 = r1  r2 = r2  r3 = r3  f1 = f1  f2 = f2
  Runs = {r1, r2}
  Flows = {f1, f2}
  FlowOf <- MCFlowOf
  FromNode = {r2}
  Cancels = {c1, c2}
  CancelKinds = {"run", "all"}
  CancelMayFail = TRUE
  Cancellable = {r1}
  MachineIds = {m1, m2, m3}
  None = None
SYMMETRY Slots
INVARIANTS TypeOK OneDriver NoDeletedFlowRuns EveryRunAccountedFor NoStuckRun
PROPERTIES CancelledNeverStarts
CHECK_DEADLOCK FALSE
