SPECIFICATION Spec
CONSTANTS
    Nodes = {1, 2}
    InitialLeader = 1
    NumClients = 1
    ReadQuorumSize = 2
    MaxServerStarts = 1
    MaxShimStarts = 1
INVARIANT SetupWaitsForStartSignal
CHECK_DEADLOCK FALSE
