\* Three transactions of three workbaskets on one object, with
\* imports that fail.
CONSTANTS
    WorkBasket = {w1, w2, w3}
    Object = {o1}
    Scheme = "SEED_FIRST"
    MaxPk = 3
    MaxOrder = 5
SPECIFICATION SpecWithImports
SYMMETRY Symmetry
INVARIANTS
    CurrentIsApproved
CHECK_DEADLOCK FALSE
