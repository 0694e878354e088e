SPECIFICATION Spec
CONSTANTS
  a = a  b = b  c = c  d = d
  Nodes = {a, b}
  DefaultGraph = default
  Workflows <- Unconnected
  Capacity = 2
  AfterLoad = FALSE
  Requests = {a, b}
  FlowRuns = FALSE
  MayPause = FALSE
  MayCancel = FALSE
PROPERTIES RefusedNeverRuns
