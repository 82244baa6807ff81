SPECIFICATION DynFairSpec
CONSTANTS
    Kinds = {"OSMO_DYN"}
    MaxLosses = 1
    MaxResets = 0
    MaxMsgs = 0
PROPERTY
    SwitchesBack
CHECK_DEADLOCK FALSE
