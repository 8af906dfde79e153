SPECIFICATION FairSpec
CONSTANTS
    MaxSent = 3
    BufSize = 2
    OutCap = 1
INVARIANT TypeOK
INVARIANT NoTruncation
INVARIANT NoLostWakeup
PROPERTY ClosePassedOn
CHECK_DEADLOCK FALSE
