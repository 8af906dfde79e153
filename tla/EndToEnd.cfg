SPECIFICATION ESpec
CONSTANTS
    Session = {s1, s2, s3, s4, s5}
    ClientToken = {k1, k2}
    None = None
    UseTokens = FALSE
    SendMayBlock = FALSE
    MaxFaults = 1
    Config <- MCConfig
    MaxLoad = 5
    MaxStale = 1
INVARIANTS
    ETypeOK
    Aligned
    KeysAgree
PROPERTIES
    Served
    Recovers
CHECK_DEADLOCK FALSE
