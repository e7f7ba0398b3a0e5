CONSTANTS
    d1 = d1
    d2 = d2
    Dsts <- MCDsts
    Initial <- MCInitial
    Reports <- NoReports
    Weights = {1}
    Speeds = {1}
    PollStates = {0, 3}
    Discover = FALSE
    MaxFail = 1
SPECIFICATION FairSpec
CHECK_DEADLOCK FALSE
PROPERTIES RemovedLeaves SilentHeld ReadyRouted
