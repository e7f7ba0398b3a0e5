CONSTANTS
    d1 = d1
    d2 = d2
    Dsts <- MCDsts
    Initial <- MCInitial
    Reports <- MCReports
    Weights = {1}
    Speeds = {1}
    PollStates = {0, 3}
    Discover = TRUE
    MaxFail = 1
SPECIFICATION Spec
PROPERTY DeletedIsUnrouted
CHECK_DEADLOCK FALSE
