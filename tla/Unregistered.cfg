SPECIFICATION Spec
CONSTANTS
    Enrolments = {e1, e2}
    Sessions = {s1, s2}
    MaxBreaks = 1
INVARIANT OnlineWhileServing
CHECK_DEADLOCK FALSE
