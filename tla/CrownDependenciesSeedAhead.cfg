\* Counterexample: the envelope after a seed of this year is not expected.
SPECIFICATION Spec
CONSTANTS
    Runs = 1
    Dead = Dead
    None = None
    Seed = 240002
    Legacy = {240001}
    FirstYear = 24
    LastYear = 25
    MaxPerYear = 4
    MaxAccepted = 3
    MaxFaults = 1
    MaxOverdue = 0
    MaxExpired = 0
INVARIANTS
    FirstAfterSeedExpected
CHECK_DEADLOCK FALSE
