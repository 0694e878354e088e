SPECIFICATION Spec
CONSTANTS
  r1 = r1  r2 = r2  r3 = r3  f1 = f1  f2 = f2
  Runs = {r1, r2, r3}
  Flows = {f1}
  FlowOf <- OneFlowOf
  FromNode = {r2, r3}
  Cancels = {c1}
  CancelKinds = {"all"}
  CancelMayFail = FALSE
  Cancellable = {r3}
  MachineIds = {m1, m2}
  None = None
SYMMETRY Slots
INVARIANTS NoStrandedLine
PROPERTIES ImplementsRunLine TornDownOnlyIfCancelled
CHECK_DEADLOCK FALSE
