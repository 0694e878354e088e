SPECIFICATION Spec
CONSTANTS
  a = a  b = b  c = c  d = d
  Nodes = {a, b, c}
  DefaultGraph = default
  Workflows <- Samples
  Capacity = 2
  AfterLoad = TRUE
  Requests = {}
  FlowRuns = TRUE
  MayPause = FALSE
  MayCancel = TRUE
INVARIANTS SlotsBalance EndsClean
