\* Three transactions of three workbaskets on one object.
CONSTANTS
    WorkBasket = {w1, w2, w3}
    Object = {o1}
    Scheme = "SEED_FIRST"
    MaxPk = 3
    MaxOrder = 5
SPECIFICATION Spec
SYMMETRY Symmetry
PROPERTIES
    ApprovedIsNotModified
CHECK_DEADLOCK FALSE
