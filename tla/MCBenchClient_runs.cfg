SPECIFICATION FairSpec
CONSTANTS
    MaxIntervals = 2
    BatchSize = 1
    Durations = {0, 1}
    Rates = {0, 1, 2, 5}
    MsPerSec = 3
    MaxOverdue = 1
INVARIANTS
    TypeOK
    OnlyBadIntervalsPanic
    RowsAreTrue
    NotFasterThanDelay
PROPERTIES
    IntervalsRunTheirTime
    RunAdvances
    RunEnds
CHECK_DEADLOCK FALSE
