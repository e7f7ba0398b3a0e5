CONSTANTS
    d1 = d1
    d2 = d2
    Dsts <- MCDsts
    Initial <- MCInitial
    Reports <- MCReports
    Weights = {1}
    Speeds = {1, 2}
    PollStates = {0, 2, 3}
    Discover = TRUE
    MaxFail = 1
SPECIFICATION FairSpec
INVARIANTS TypeOK WatchedOnce RouterFollows
CHECK_DEADLOCK FALSE
PROPERTIES WantedKept
