\* The limits of the two queries are above the length of the queue.
SPECIFICATION FairSpec
CONSTANTS
  fast = fast
  slow = slow
  rare = rare
  gpu0 = gpu0
  gpu1 = gpu1
  Generations = {fast, slow}
  Pools = {gpu0, gpu1}
  Request <- MCRequest
  Manifest <- MCManifest
  Reports <- MCReports
  Steady = {gpu0}
  MaxQueueAge = 1
  MaxAttempts = 2
  FetchLimit = 2
  SweepLimit = 2
PROPERTY
  LeasesServed
  NoStarvation
