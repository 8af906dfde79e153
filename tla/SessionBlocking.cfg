SPECIFICATION Spec
CONSTANTS
    Session = {s1, s2, s3}
    s1 = s1
    s2 = s2
    s3 = s3
    ClientToken = {t1}
    t1 = t1
    None = None
    UseTokens = FALSE
    SendMayBlock = TRUE
SYMMETRY Symmetry
INVARIANT TypeOK
INVARIANT RegistryConsistent
INVARIANT FdOwnership
INVARIANT WireExclusive
INVARIANT PairedByToken
INVARIANT IInv
PROPERTY RoleOrder
CHECK_DEADLOCK FALSE
