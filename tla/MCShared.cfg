SPECIFICATION MCSpec
CONSTANTS
    Cos = {1, 2}
    Depth = 2
    Procs = {p1, p2}
    MaxOpens = 1
    Ids = {1, 2, 3}
    MaxPid = 3
    Overlap = "never"
    None = None
INVARIANTS
    OwnStackOnly
    SettledCallsLand
    
    StdioFollowsSlices
\* All sessions may have ended.
CHECK_DEADLOCK FALSE
