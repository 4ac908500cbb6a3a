CONSTANTS
    SpawnLimit = 2
    ForkLimit = 0
    Codes = {7}
    Signals = {}
    Waits = {"fds"}
    Clients = {c1, c2}
    None = None
SYMMETRY ClientSymmetry
SPECIFICATION SessionSpec
INVARIANTS
    SleepLosesNothing
    WaitedCodeIsRecorded
PROPERTIES
    ImplementsExecutor
CHECK_DEADLOCK FALSE
