\* Programs may write to a pipe that nobody reads, and then everyone waits.
CHECK_DEADLOCK FALSE
SPECIFICATION FairSpec
CONSTANTS
    p1 = p1
    p2 = p2
    k1 = k1
    k2 = k2
    v1 = v1
    None = None
    Procs = {p1, p2}
    Kernel = {k1, k2}
    Virtual = {v1}
    IntWidth = 12
    Capacity = 2
    PipeBuf = 1
    Sizes = {1, 2}
    Scenarios <- BothScenarios
INVARIANTS
    DriverNeverBlocks
PROPERTIES
    HangupIsSeen
    DeadlinesAreChecked
