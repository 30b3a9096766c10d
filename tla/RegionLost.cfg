SPECIFICATION Spec
CONSTANTS
    PinOf <- Board
    Handler <- Handlers
    NULL = NULL
    MaxTokens = 1
    RegAddr = {256}
    BufAddr = {}
    Value = {0}
    Radio = {"SX126x"}
    ActiveRegion = {"US915_HYBRID"}
    Power <- Powers
    Channel <- Channels
    Size = 1
    IntMax = 7
    RandMul = 5
    RandAdd = 3
INVARIANT
    StartSucceeds
