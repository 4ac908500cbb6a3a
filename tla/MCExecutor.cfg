\* Two or three programs that fork, wait for each other and for I/O, and kill.
CONSTANTS
    SpawnLimit = 3
    ForkLimit = 4
    Codes = {7}
    Signals = {9}
    Waits = {"fds+deadline", "neither"}
    Scenarios = {"forks", "waits", "signals"}
SPECIFICATION MCSpec
\* All programs may have exited.
CHECK_DEADLOCK FALSE
INVARIANTS
    TypeOK
    ReadyQueueExact
    RunningIsLive
    HelperCopiesSuspendedCaller
    
PROPERTIES
    ExitCodesAreFinal
    ReadyCoroutinesRun
    WaitpidReturns
