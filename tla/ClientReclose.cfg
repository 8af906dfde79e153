SPECIFICATION Spec
CONSTANTS
    Task = {a1, a2}
    a1 = a1
    a2 = a2
    MaxFd = 5
    Modes = {"fsock"}
SYMMETRY Symmetry
INVARIANT SocksOwnsSocket
CHECK_DEADLOCK FALSE
