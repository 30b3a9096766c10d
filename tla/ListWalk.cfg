SPECIFICATION FairSpec
CONSTANTS
    Lw = Lw
    tx = tx
    rx = rx
    c1 = c1
    c2 = c2
    c3 = c3
    NULL = NULL
    Task <- Tasks
    Prio <- Priority
    Cell <- Cells
    MaxCpt = 3
    Careful = TRUE
INVARIANTS
    TypeOK
    ListWellFormed
    WalksAllocated
    OpenSocketFound
PROPERTIES
    ImplementsSet
    WalkEnds
CHECK_DEADLOCK FALSE
