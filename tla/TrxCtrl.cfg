\* Three commands of six kinds over a network that may lose datagrams.
SPECIFICATION FairSpec
CONSTANTS
    Cmds <- MCCmds
    Unsupported <- MCUnsupported
    Rejectable <- MCRejectable
    MaxCmds = 3
    MaxInFlight = 3
INVARIANTS
    ConnectionInv
    AnswersMatched
PROPERTIES
    ExecutionOrder
    EventuallyAnswered
