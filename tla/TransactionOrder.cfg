\* Three transactions of three workbaskets on two objects.
CONSTANTS
    WorkBasket = {w1, w2, w3}
    Object = {o1, o2}
    Scheme = "SEED_FIRST"
    MaxPk = 3
    MaxOrder = 4
SPECIFICATION Spec
SYMMETRY Symmetry
INVARIANTS
    TypeOK
    OrdersDistinct
    PartitionFollowsStatus
    CurrentIsApproved
    CurrentNotOvertaken
PROPERTIES
    HistoryIsStable
    ImplementsTariffHistory
CHECK_DEADLOCK FALSE
