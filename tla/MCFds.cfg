\* Six ways of using descriptors.
CONSTANTS
    FdLimit = 7
    PidLimit = 3
    KernelLimit = 10
    OpenLimit = 4
    RefLimit = 2
    Scenarios <- AllScenarios
SPECIFICATION Spec
\* All processes may have exited.
CHECK_DEADLOCK FALSE
INVARIANTS
    
    SliceHasOwnFds
    NoKernelFdLeaks
PROPERTIES
    ImplementsPosix
    
