SPECIFICATION Spec
CONSTANTS
  a = a  b = b  r = r  a1 = a1  a2 = a2  b1 = b1  x = x  y = y  z = z
  Engines = {a, b}
  Runs = {r}
  Nodes = {a1, a2}
  Leases = {x, y}
  HomeOf <- MCHomeOf
  RunOf <- MCRunOf
  Ordered = TRUE
  Losable <- LosesNothing
  MaxTries = 2
  Joined = {a, b}
  Bounds <- AllFaults
  None = None
INVARIANTS GrantIsTrue NotBehindItself ReportOverMeansFreed
CHECK_DEADLOCK FALSE
