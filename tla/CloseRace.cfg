SPECIFICATION Spec
CONSTANTS
    tx = tx
    rx = rx
    s1 = s1
    s2 = s2
    None = None
    Task <- OneTask
    Prio <- RxPriority
    SockEl <- Cells
    Addr = {1}
    Port = {1}
    SockMod = 8
    MaxCpt = 4
    MaxRx = 1
    Serialised = TRUE
    OneReceiver = TRUE
INVARIANTS
    CloseLosesNoEvent
CHECK_DEADLOCK FALSE
