CONSTANTS
    Bytes = {0, 1}
    PIPE_CAPACITY = 3
    Readers = {r1, r2}
    Writers = {w1, w2}
    MaxCount = 4
    MaxSent = 6
SPECIFICATION FairSpec
INVARIANTS
    StreamIntact
PROPERTIES
    ImplementsChannel
    CloseDrains
