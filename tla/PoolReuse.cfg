SPECIFICATION Spec
CONSTANTS
  Attempts = {a1, a2}
  NoAttempt = NoAttempt
CHECK_DEADLOCK FALSE
PROPERTY CancelledBeforeReuse
