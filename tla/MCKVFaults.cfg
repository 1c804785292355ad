SPECIFICATION FaultsSpec
CONSTANTS
    n1 = n1
    n2 = n2
    r1 = r1
    Keys = {k1}
    Values = {v1}
    NoValue = NoValue
    Servers = {n1, n2, n3}
    ClientIds = {1}
    Requests = {r1, r2}
    NoCommand = NoCommand
    NoReply = NoReply
    CmdCapacity = 1
    WriteQuorumSize = 2
INVARIANTS
    TypeOK
    IndInv
    DatabaseFollowsLog
    AnswersComeFromLog
    FailedNeverTakesEffect
    AtMostOneEffect
    ResponsesMatchPending
    OwedMeansWork
PROPERTIES
    Linearizable
    TasksMakeProgress
    EveryRequestAnswered
