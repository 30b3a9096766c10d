SPECIFICATION Spec
CONSTANTS
    tx = tx
    rx = rx
    m1 = m1
    m2 = m2
    g1 = g1
    g2 = g2
    p1 = p1
    p2 = p2
    None = None
    Task <- OneTask
    Prio <- RxPriority
    Sock = {1, 2}
    Cell <- Cells
    Group <- Groups
    Arg <- Args
    MaxCalls = 2
    Serialised = TRUE
INVARIANTS
    GroupOnce
CHECK_DEADLOCK FALSE
