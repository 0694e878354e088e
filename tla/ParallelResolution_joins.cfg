SPECIFICATION DriverSpec
CONSTANTS
  a = a  b = b  c = c  d = d
  Nodes = {a, b, c, d}
  DefaultGraph = default
  Workflows <- Suppliers
  Capacity = 2
  AfterLoad = FALSE
  Requests = {b, c}
  FlowRuns = FALSE
  MayPause = TRUE
  MayCancel = FALSE
PROPERTIES InputsResolved FailureSparesRunning QueuedNodeStarts
