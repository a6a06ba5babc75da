\* The limit of queued_candidates is below the length of the queue.
SPECIFICATION FairSpec
CONSTANTS
  fast = fast
  slow = slow
  rare = rare
  gpu0 = gpu0
  gpu1 = gpu1
  Generations = {fast, rare}
  Pools = {gpu0, gpu1}
  Request <- MCRequest
  Manifest <- MCManifest
  Reports <- MCFixed
  Steady = {gpu0}
  MaxQueueAge = 1
  MaxAttempts = 2
  FetchLimit = 1
  SweepLimit = 2
PROPERTY
  NoStarvation
