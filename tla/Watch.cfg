SPECIFICATION FairSpec
CONSTANTS
  Recorders = {r1, r2}
  Watchers = {w1}
  NoTask = NoTask
  Capacity = 1
  MaxRow = 3
INVARIANTS
  WatchInv
  NoneMissed
  OutputsAnnounced
PROPERTIES
  OutputsReach
CHECK_DEADLOCK FALSE
