\* A creation and an edit, one superuser, one worker that may die.
SPECIFICATION FairSpec
CONSTANTS
    c1 = c1
    e1 = e1
    w1 = w1
    Creator = {c1}
    Editor = {e1}
    WorkBasket = {w1}
    WorkBasketOf <- MCWorkBasketOf
    Key <- MCKey
    Worker = {v1}
    Superuser = {u1}
    None = None
    MaxDeaths = 1
INVARIANTS
    TypeOK
    OutcomeIsTrue
    PartitionKept
PROPERTIES
    EveryJobEnds
CHECK_DEADLOCK FALSE
