CONSTANTS
    Clients = {c1, c2, c3}
    CTRL_MAX = 3
    Layouts = {"fifo", "both", "inet"}
    FIFO = FIFO
    INET = INET
    None = None
SPECIFICATION ControlFairSpec
INVARIANTS ControlTypeOK TableSound ListensIfRoom
PROPERTIES  Stops
CHECK_DEADLOCK FALSE
