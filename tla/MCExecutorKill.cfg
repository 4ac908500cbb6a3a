\* A program sends SIGKILL to another.
CONSTANTS
    SpawnLimit = 2
    ForkLimit = 0
    Codes = {7}
    Signals = {9}
    Waits = {"fds+deadline"}
    Scenarios = {"signals"}
SPECIFICATION MCSpec
CHECK_DEADLOCK FALSE
PROPERTY
    FatalSignalsEndCoroutines
