SPECIFICATION RestartsSpec
CONSTANTS
    Nodes = {1, 2, 3}
    InitialLeader = 1
    NumClients = 0
    ReadQuorumSize = 2
    MaxServerStarts = 2
    MaxShimStarts = 0
INVARIANTS NoLateJoiner DialersAreConnected
PROPERTY StartAdvances
CHECK_DEADLOCK FALSE
