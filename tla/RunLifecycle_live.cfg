SPECIFICATION FairSpec
CONSTANTS
  r1 = r1  r2 = r2  r3 = r3  f1 = f1  f2 = f2
  Runs = {r1, r2}
  Flows = {f1}
  FlowOf <- OneFlowOf
  FromNode = {r2}
  Cancels = {c1}
  CancelKinds = {"run", "all"}
  CancelMayFail = FALSE
  Cancellable = {}
  MachineIds = {m1, m2}
  None = None

PROPERTIES WaitingRunLeaves
CHECK_DEADLOCK FALSE
