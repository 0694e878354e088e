SPECIFICATION FairSpec
CONSTANTS
  m = m  n = n  u = u  v = v
  Values = {u, v}
  Nodes = {m, n}
  Slots = {s1, s2}
  LibraryOf <- Apart
  WorkflowOf <- Apart
  Hooked <- AllHooked
  Pool = {pool}
  MaxLives <- TwoForU
  Places <- Split
  loop = loop
  None = None
INVARIANTS TypeOK HeldIsLive NotFreedInUse FreedOnce
PROPERTIES EventuallyFreed
