SPECIFICATION FairSpec
CONSTANTS
    Addrs = {a, b}
    NoAddr = NoAddr
    Weights <- NoDrainWeights
    Slots = {s1, s2}
    HintOf <- MCHints
    HintMax = 2
    Retry = 1
    MaxTime = 5
    Configs <- SyncConfigs
    ReaddBusy = FALSE
INVARIANTS  BusyMatches NoLostWakeup TargetComesBack
PROPERTIES PointersHold 
