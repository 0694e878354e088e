SPECIFICATION FairSpec
CONSTANTS
  a = a  b = b  r = r  a1 = a1  a2 = a2  b1 = b1  x = x  y = y  z = z
  Engines = {a, b}
  Runs = {r}
  Nodes = {a1, b1}
  Leases = {x, z}
  HomeOf <- MCHomeOf
  RunOf <- MCRunOf
  Ordered = TRUE
  Losable <- LosesSome
  MaxTries = 2
  Joined = {a, b}
  Bounds <- NoFaults
  None = None
INVARIANTS TypeOK NodesApart
PROPERTIES LineMoves HostIsLock
CHECK_DEADLOCK FALSE
