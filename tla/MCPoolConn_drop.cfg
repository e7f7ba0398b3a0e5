SPECIFICATION Spec
CONSTANTS
    Conns = {c1}
    FDs = {f1, f2, f3}
    NoFD = NoFD
    Addrs = {a, b}
    NoAddr = NoAddr
    BufSize = 1
    MaxBytes = 1
    MaxBatch = 2
    Modes = {TRUE, FALSE}
    Early = FALSE
PROPERTIES DropCloses
CHECK_DEADLOCK FALSE
