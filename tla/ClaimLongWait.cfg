SPECIFICATION Spec
CONSTANTS
    Second = 2
    Half = 32
    Specs <- OneSpec
    Defaults <- ShortDefaults
    Timeout = 2
    Lag = 1
    Hints = {17}
    Duration = 3
    Outages = {}
    MaxOutages = 0
    MaxTime = 25
INVARIANTS
    HintHonoured
CHECK_DEADLOCK FALSE
