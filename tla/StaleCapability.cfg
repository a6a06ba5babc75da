\* A report between the plan of a pass and its assignments.
SPECIFICATION Spec
CONSTANTS
  fast = fast
  slow = slow
  rare = rare
  gpu0 = gpu0
  gpu1 = gpu1
  Generations = {fast, slow}
  Pools = {gpu0, gpu1}
  Request <- MCRequest
  Manifest <- MCManifest
  Reports <- MCReports
  Steady = {gpu0}
  MaxQueueAge = 1
  MaxAttempts = 2
  FetchLimit = 2
  SweepLimit = 2
PROPERTY
  MismatchExcluded
