SPECIFICATION ThreadFairSpec
CONSTANTS
    Kinds = {"exec", "dummy"}
    MaxWaiting = 3
INVARIANTS ThreadTypeOK OneSleeper
PROPERTIES  CreateReturns QuitHonoured Implements
CHECK_DEADLOCK FALSE
