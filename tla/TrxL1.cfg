SPECIFICATION MCSpec
CONSTANTS
    StepSize = 4000
    MaxInitial = 0
    MaxPowers = {6000, 11000}
    Reductions = {0, 5000}
    MaxPending = 2
    Hyperframe = 20
    NegativeFrom = 9
    MaxFnSkew = 4
    TrxLossFrames = 8
    StartFrames = 15
    IndPeriod = 5
    FirstFrames = {12}
    Jumps <- MCJumps
    MaxFaults = 2
    UlHyperframe = 36
    Period = 6
    UlStarts = {33}
    MaxFrames = 13
    MaxDelay = 2
    MaxUlEvents = 2
    DlHyperframe = 48
    RtsAdvance = 5
    MaxAhead = 8
    Resyncs <- MCResyncs
    MaxDlFrames = 15
    MaxDlEvents = 2
INVARIANTS
    PowerInv
    ClockInv
    NoFalseAlarm
    UplinkInv
    DownlinkInv
PROPERTIES
    LockedGetsMuted
    SilenceNoticed
CHECK_DEADLOCK FALSE
