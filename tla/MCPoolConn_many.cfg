SPECIFICATION Spec
CONSTANTS
    Conns = {c1, c2}
    FDs = {f1, f2, f3, f4}
    NoFD = NoFD
    Addrs = {a, b}
    NoAddr = NoAddr
    BufSize = 1
    MaxBytes = 1
    MaxBatch = 3
    Modes = {TRUE, FALSE}
    Early = FALSE
SYMMETRY Symmetry
INVARIANTS MapMatches SocketsAccounted RouterBalanced
CHECK_DEADLOCK FALSE
