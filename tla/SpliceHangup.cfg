SPECIFICATION Spec
CONSTANTS
    MaxSent = 2
    BufSize = 2
    OutCap = 1
INVARIANT HangupLosesNothing
CHECK_DEADLOCK FALSE
