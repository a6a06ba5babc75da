SPECIFICATION Spec
CONSTANTS
  w1 = w1
  w2 = w2
  p1 = p1
  p2 = p2
  Generations = {g1}
  Attempts = {a1, a2}
  Pools = {p1}
  Workers = {w1}
  Owner <- OwnerMap
  Capable <- AllCapable
  SlotCounts = {1}
  PoolReports <- Withdrawing
  MaxAttempts = 2
  Reported = {"backend_crashed"}
  NoAttempt = NoAttempt
PROPERTY CancelTakesEffect
