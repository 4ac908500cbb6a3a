SPECIFICATION Spec
CONSTANTS
    None = None
    sh = sh
    ls = ls
    tool = tool
    NumDrivers = 2
    MaxProcs = 5
    Dynamic = {sh, ls}
    Static = {tool}
    Scenarios <- AllScenarios
INVARIANTS
    CodeMapped
    HandlesAreOwned
    
PROPERTIES
    CleanSlate
\* Every program may have exited.
CHECK_DEADLOCK FALSE
