SPECIFICATION FairSpec
CONSTANTS
    tx = tx
    rx = rx
    s1 = s1
    s2 = s2
    None = None
    Task <- TwoTasks
    Prio <- Priority
    SockEl <- Cells
    Addr = {1, 2}
    Port = {1}
    SockMod = 8
    MaxCpt = 4
    MaxRx = 2
    Serialised = TRUE
    OneReceiver = TRUE
INVARIANTS
    NoLostWakeup
PROPERTIES
    ImplementsSocketTable
    TimedRecvReturns
    EventEndsRecv
CHECK_DEADLOCK FALSE
