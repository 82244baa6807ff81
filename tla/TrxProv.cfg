SPECIFICATION FairSpec
CONSTANTS
    NumTrx = 2
    Setups <- MCSetups
INVARIANTS
    ProvInv
PROPERTIES
    PoweronTuned
    ShutdownCloses
    AllComeUp
CHECK_DEADLOCK FALSE
