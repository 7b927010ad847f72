SPECIFICATION FairSpec
CONSTANTS
    Second = 2
    Half = 32
    Specs <- SmallSpecs
    Defaults <- ShortDefaults
    Timeout = 5
    Lag = 1
    Hints = {1, 12, 17}
    Duration = 3
    Outages = {7}
    MaxOutages = 1
    MaxTime = 32
INVARIANTS
    TypeOK
    EndsInTime
    PollInterval
    NotAfterKept
PROPERTY TransactionEnds
CHECK_DEADLOCK FALSE
