CONSTANTS
    WorkBasket = {w1, w2}
    Pwb = {p1, p2}
    None = None
    SeedEnvelopeId = 230044
    FirstYear = 23
    LastYear = 23
    MaxPending = 1
    MaxFaults = 0
SPECIFICATION Spec
INVARIANTS
    DeletedIsUnlinked
CHECK_DEADLOCK FALSE
