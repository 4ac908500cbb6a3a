SPECIFICATION MCSpec
CONSTANTS
    None = None
    l1 = l1
    l2 = l2
    l3 = l3
    PageSize = 2
    SlotAlign = 4
    FirstBase = 4
    Loads <- ThreeLoads
    Files <- AllFiles
    Foreign <- TakenWords
    Failing <- Refusals
    MaxAddr = 40
    Regs = {1, 2}
    Immediates <- NearAndFar
    Programs <- ShortPrograms
    BadSlots <- SomeBadSlots
    AddImms = {16}
    LdrImms = {0, 1}
    MaxLen = 4
    EntryWord = 3
    PageWords = 4
    ScanLimit = 3
    ImmBits = 21
    IntBits = 32
    Shift = 12
SYMMETRY CallSymmetry
INVARIANTS
    ImageMatchesFile
    SlotsDisjoint
    FindsMain
PROPERTIES
    OwnersKeepTheirWords
\* Every call may have returned.
CHECK_DEADLOCK FALSE
