SPECIFICATION Spec
CONSTANTS
    Session = {s1, s2, s3}
    s1 = s1
    s2 = s2
    s3 = s3
    ClientToken = {t1}
    t1 = t1
    None = None
    UseTokens = FALSE
    SendMayBlock = FALSE
SYMMETRY Symmetry
INVARIANT AcceptedIsSpliced
CHECK_DEADLOCK FALSE
