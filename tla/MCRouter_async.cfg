SPECIFICATION Spec
CONSTANTS
    Addrs = {a, b}
    NoAddr = NoAddr
    Weights <- AllWeights
    Slots = {s1, s2}
    HintOf <- MCHints
    HintMax = 2
    Retry = 1
    MaxTime = 4
    Configs <- AsyncConfigs
    ReaddBusy = FALSE
INVARIANTS TypeOK ConnsAccounted UsageFresh MapExcludesFailed
