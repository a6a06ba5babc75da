SPECIFICATION FairSpec
CONSTANTS
    Enrolments = {e1, e2}
    Sessions = {s1, s2}
    MaxBreaks = 1
INVARIANTS SessionInv HandlersAuthorized
PROPERTIES RegistrationKept CutOff Reconnects
CHECK_DEADLOCK FALSE
