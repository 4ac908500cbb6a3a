CONSTANTS
    SpawnLimit = 1
    ForkLimit = 0
    Codes = {7}
    Signals = {}
    Waits = {"fds"}
    Clients = {c1, c2}
    None = None
SPECIFICATION FairSession
PROPERTIES
    RequestsServed
    WaitersServed
    AwaitedIoIsServed
CHECK_DEADLOCK FALSE
