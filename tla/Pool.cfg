SPECIFICATION FairSpec
CONSTANTS
  Attempts = {a1, a2}
  NoAttempt = NoAttempt
CHECK_DEADLOCK FALSE
INVARIANTS
  TypeOK
  ChildOwned
  SlotSafe
PROPERTY
  ReclaimScoped
  Recovers
