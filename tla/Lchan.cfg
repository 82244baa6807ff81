SPECIFICATION LchanFairSpec
CONSTANTS
    Models = {"trx", "virtual"}
    Ny1 = 2
    Ny2 = 2
    Rlt = 2
    MaxActs = 3
INVARIANTS
    LchanInv
PROPERTIES
    UsesApart
    HandoverDecided
CHECK_DEADLOCK FALSE
