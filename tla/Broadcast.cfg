SPECIFICATION Spec
CONSTANTS
    LastBlocks = {0, 2}
    SmscbCfgs <- MCSmscbCfgs
    MaxMsgs = 3
    MaxSkips = 1
    Calls = {a, b, c}
INVARIANTS
    BroadcastInv
PROPERTIES
    DropsAnnounced
    EventuallyBroadcast
    CallsHeard
