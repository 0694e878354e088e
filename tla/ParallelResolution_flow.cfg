SPECIFICATION Spec
CONSTANTS
  a = a  b = b  c = c  d = d
  Nodes = {a, b, c}
  DefaultGraph = default
  Workflows <- ThreeNodes
  Capacity = 2
  AfterLoad = FALSE
  Requests = {}
  FlowRuns = TRUE
  MayPause = FALSE
  MayCancel = FALSE
INVARIANTS TypeOK ResolvedIsFresh NoDuplicateCompletion
PROPERTIES OncePerRun ImplementsEvaluation RunsWholeFlow RunEnds
