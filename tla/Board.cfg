SPECIFICATION FairSpec
CONSTANTS
    PinOf <- Board
    Handler <- Handlers
    NULL = NULL
    MaxTokens = 1
    RegAddr = {255, 256}
    BufAddr = {1}
    Value = {0, 1}
    Radio <- Radios
    ActiveRegion = {"EU868", "US915"}
    Power <- Powers
    Channel <- Channels
    Size = 2
    IntMax = 7
    RandMul = 5
    RandAdd = 3
INVARIANTS
    TypeOK
    HandlersMatchPins
    QueueReady
    WritesReachBoard
    CommandToReadyChip
    SwitchFollowsMode
    PowerFollowsRequest
PROPERTIES
    ImplementsMemory
    CallReturns
    LatchedServed
