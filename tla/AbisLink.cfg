SPECIFICATION FairSpec
CONSTANTS
    Trx = {t0, t1}
    MaxHosts = 4
    AbisCloseExits = FALSE
INVARIANTS
    AbisInv
PROPERTIES
    EveryBscTried
    ImplementsShutdown
CHECK_DEADLOCK FALSE
