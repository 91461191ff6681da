\* The seed is of the first year, one ahead of the last ID the code before published.
SPECIFICATION FairSpec
CONSTANTS
    Runs = 2
    Dead = Dead
    None = None
    Seed = 240002
    Legacy = {240001}
    FirstYear = 24
    LastYear = 26
    MaxPerYear = 3
    MaxAccepted = 3
    MaxFaults = 2
    MaxOverdue = 1
    MaxExpired = 1
INVARIANTS
    TypeOK
    PublishedOnceInOrder
    SuccessMeansReceived
    OneUnfinished
    PausedForReason
PROPERTIES
    EventuallyPublished
CHECK_DEADLOCK FALSE
