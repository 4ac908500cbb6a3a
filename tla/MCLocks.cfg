SPECIFICATION MCSpec
CONSTANTS
    MaxId = 2
    Clients = {c1, c2}
    Calls = {"destroy", "process", "wait", "exists"}
    Preload = TRUE
    Pids = {2}
    Tries = 2
    None = None
INVARIANTS
    NoWaitCycle
    FoundSessionsRun
PROPERTIES
    CallsReturn
