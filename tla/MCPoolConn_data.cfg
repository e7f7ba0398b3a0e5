SPECIFICATION Spec
CONSTANTS
    Conns = {c1}
    FDs = {f1, f2, f3}
    NoFD = NoFD
    Addrs = {a, b}
    NoAddr = NoAddr
    BufSize = 3
    MaxBytes = 5
    MaxBatch = 3
    Modes = {TRUE, FALSE}
    Early = FALSE
SYMMETRY Symmetry
INVARIANTS TypeOK StreamIntact FlowControl 
CHECK_DEADLOCK FALSE
