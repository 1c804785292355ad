SPECIFICATION OnceSpec
CONSTANTS
    Nodes = {1, 2, 3}
    InitialLeader = 2
    NumClients = 1
    ReadQuorumSize = 2
    MaxServerStarts = 1
    MaxShimStarts = 1
INVARIANTS TypeOK StartFollowsPromotion
    ConnectedClientsAreStarted RestMeansStarted
PROPERTY StartCompletes
CHECK_DEADLOCK FALSE
