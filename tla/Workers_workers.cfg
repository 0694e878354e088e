SPECIFICATION FairSpec
CONSTANTS
  m = m  k = k
  Attempts = 2
  Nodes = {m, k}
  Allowed = 1
  Remembered = 1
  Events = 3
INVARIANTS TypeOK ForksCounted LateRepliesDropped
PROPERTIES ResetLeavesNone GateReleased DeathReleases
CHECK_DEADLOCK FALSE
