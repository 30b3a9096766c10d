SPECIFICATION FairSpec
CONSTANTS
    Lw = Lw
    tx = tx
    o1 = o1
    None = None
    Task <- Tasks
    Prio <- Priority
    Timer <- Timers
    Value = {1, 3, 4, 7}
    TimeMod = 8
INVARIANTS
    TypeOK
    StoppedIsSilent
    StartedIsArmed
    OnTime
    CalloutIntact
    ElapsedAcrossWrap
PROPERTIES
    TimerFires
CHECK_DEADLOCK FALSE
