SPECIFICATION CcchFairSpec
CONSTANTS
    Tmsi = {1, 2, 3, 4}
    Imsi = {5, 6}
    TooLong = {7}
    MaxGroups = 2
    GroupCounts = {1, 2}
    QueueMaxes = {1, 4}
    Lifetimes = {0, 1}
    MaxPages = 2
    MacBlocks = {1}
    MaxRefs = 5
    MaxLengths = {2}
    HardLimit = 1
    Low = 50
    High = 100
    Thresh = 50
    MaxCmds = 5
INVARIANTS
    CcchInv
PROPERTIES
    NothingLost
    QueuesDrain
