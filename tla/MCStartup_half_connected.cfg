SPECIFICATION Spec
CONSTANTS
    Nodes = {1, 2}
    InitialLeader = 1
    NumClients = 0
    ReadQuorumSize = 2
    MaxServerStarts = 2
    MaxShimStarts = 0
INVARIANT ResolvedMeansConnected
CHECK_DEADLOCK FALSE
