SPECIFICATION FairSpec
CONSTANTS
    MaxCommands = 10
    ChannelCapacity = 1
    BatchSize = 2
    SocketCapacity = 1
INVARIANTS
    TypeOK
    PendingIsUnderWay
    NoWaitingCycle
PROPERTIES
    ConnectionIsFifo
    EveryStepIsProgress
    SendsComplete
    EveryCommandAnswered
CHECK_DEADLOCK FALSE
