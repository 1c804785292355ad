SPECIFICATION Spec
CONSTANTS
    Nodes = {1, 2}
    InitialLeader = 1
    NumClients = 1
    ReadQuorumSize = 2
    MaxServerStarts = 1
    MaxShimStarts = 2
INVARIANT ConnectedClientsAreStarted
CHECK_DEADLOCK FALSE
