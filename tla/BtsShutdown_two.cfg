\* Two TRXs and two shutdowns.
SPECIFICATION FairSpec
CONSTANTS
    StepSize = 6000
    MaxInitial = 0
    NumTrx = 2
    TxLevels <- MCOneLevel
    MaxStarts = 2
INVARIANTS
    TypeOK
PROPERTIES
    SignalEndsProcess
    ClosesOnlyRampedDown
    ImplementsShutdown
CHECK_DEADLOCK FALSE
