SPECIFICATION DynFairSpec
CONSTANTS
    Kinds = {"OSMO_DYN", "TCH_F_PDCH"}
    MaxLosses = 2
    MaxResets = 1
    MaxMsgs = 1
INVARIANTS
    DynInv
PROPERTIES
    RequestsAnswered
CHECK_DEADLOCK FALSE
