SPECIFICATION SteadySpec
CONSTANTS
    Keys = {k1}
    Values = {v1, v2}
    NoValue = NoValue
    Servers = {n1, n2}
    ClientIds = {c1, c2}
    Requests = {r1, r2, r3}
    NoCommand = NoCommand
    NoReply = NoReply
    CmdCapacity = 1
    WriteQuorumSize = 2
SYMMETRY Symmetry
INVARIANTS
    ResponsesMatchPending
    ReadsSeeLastWrite
PROPERTIES
    Linearizable
