SPECIFICATION Spec
CONSTANTS
    tx = tx
    rx = rx
    s1 = s1
    s2 = s2
    None = None
    Task <- TwoTasks
    Prio <- Priority
    SockEl <- Cells
    Addr = {1}
    Port = {1, 2}
    SockMod = 8
    MaxCpt = 4
    MaxRx = 1
    Serialised = FALSE
    OneReceiver = TRUE
INVARIANTS
    BindExclusive
CHECK_DEADLOCK FALSE
