SPECIFICATION FairSpec
CONSTANTS
    Control = ctrl
    Watchdog = wdog
    Listener = listener
    Main = main
    NPools = 2
    Spurious = TRUE
    MaxBacklog = 2
INVARIANTS TypeOK SignalForEveryWaiter 
PROPERTIES CallsReturn ShutdownCompletes
CHECK_DEADLOCK FALSE
