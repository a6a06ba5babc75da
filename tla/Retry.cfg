SPECIFICATION Spec
CONSTANTS
  w1 = w1
  w2 = w2
  p1 = p1
  p2 = p2
  Generations = {g1}
  Attempts = {a1, a2}
  Pools = {p1, p2}
  Workers = {w1, w2}
  Owner <- OwnerMap
  Capable <- AllCapable
  SlotCounts = {1}
  PoolReports <- Withdrawing
  MaxAttempts = 2
  Reported = {"out_of_memory"}
  NoAttempt = NoAttempt
SYMMETRY Symmetry
INVARIANTS
  TypeOK
  AcceptedResult
  InputsKept
  FollowsAttempts
  RetryDiscipline
