SPECIFICATION FairSpec
CONSTANTS
    Keys = {k1}
    Values = {v1}
    NoValue = NoValue
    Servers = {n1, n2}
    ClientIds = {1}
    Requests = {r1}
    NoCommand = NoCommand
    NoReply = NoReply
    CmdCapacity = 1
    WriteQuorumSize = 2
PROPERTY DeadServerIsAnError
