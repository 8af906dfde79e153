SPECIFICATION Spec
CONSTANTS
    Task = {a1, a2}
    a1 = a1
    a2 = a2
    MaxFd = 5
    Modes = {"fterm", "fport", "fsock", "cport", "csock", "cterm", "cstdio"}
SYMMETRY Symmetry
INVARIANT TypeOK
INVARIANT NoLeak
INVARIANT TaskOwnsFd
CHECK_DEADLOCK FALSE
