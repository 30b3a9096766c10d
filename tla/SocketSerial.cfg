SPECIFICATION Spec
CONSTANTS
    tx = tx
    rx = rx
    s1 = s1
    s2 = s2
    None = None
    Task <- TwoTasks
    Prio <- Priority
    SockEl <- Cells
    Addr = {1, 2}
    Port = {0, 1, 2}
    SockMod = 8
    MaxCpt = 3
    MaxRx = 2
    Serialised = TRUE
    OneReceiver = TRUE
SYMMETRY CellSymmetry
INVARIANTS
    TypeOK
    UniqueSockId
    BindExclusive
    BindingsKept
    QueueMatchesBinding
    NoUseAfterFree
    RecvPacketUnlessOverwritten
    EventsOnceInOrder
CHECK_DEADLOCK FALSE
