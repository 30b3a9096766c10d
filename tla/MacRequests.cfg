SPECIFICATION Spec
CONSTANTS
    tx = tx
    rx = rx
    m1 = m1
    m2 = m2
    g1 = g1
    g2 = g2
    p1 = p1
    p2 = p2
    None = None
    Task <- TwoTasks
    Prio <- Priority
    Sock = {1, 2}
    Cell <- Cells
    Group <- Groups
    Arg <- Args
    MaxCalls = 3
    Serialised = TRUE
SYMMETRY DataSymmetry
INVARIANTS
    TypeOK
    RequestUnmixed
    ConfiguredWhole
    MulticastMemory
    GroupsKept
CHECK_DEADLOCK FALSE
