SPECIFICATION Spec
CONSTANTS
    Runs = 2
    Dead = Dead
    None = None
    Seed = 239999
    Legacy = {}
    FirstYear = 24
    LastYear = 25
    MaxPerYear = 2
    MaxAccepted = 2
    MaxFaults = 2
    MaxOverdue = 1
    MaxExpired = 1
INVARIANTS
    NextExpectedAfterPrevious
CHECK_DEADLOCK FALSE
