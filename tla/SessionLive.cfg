SPECIFICATION FairSpec
CONSTANTS
    Session = {s1, s2, s3}
    s1 = s1
    s2 = s2
    s3 = s3
    ClientToken = {t1}
    t1 = t1
    None = None
    UseTokens = TRUE
    SendMayBlock = FALSE
INVARIANT UniqueForwarder
PROPERTIES
    ImplementsRendezvous
    EvictedEnds
CHECK_DEADLOCK FALSE
