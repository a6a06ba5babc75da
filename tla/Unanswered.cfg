\* A child that hangs is never terminated while a refresh waits for it.
SPECIFICATION ReclaimSpec
CONSTANTS
  Attempts = {a1}
  NoAttempt = NoAttempt
CHECK_DEADLOCK FALSE
PROPERTY
  ReclaimEnds
