SPECIFICATION Spec
CONSTANTS
    a = a
    b = b
    ta = ta
    tb = tb
    ta2 = ta2
    WorkBasket = {a, b}
    Tx <- MCTx
    Model = {1, 2, 3, 4}
    WorkBasketOf <- MCWorkBasketOf
    TxOf <- MCTxOf
    Needs <- MCNeeds
    Rivals <- MCRivals
    Data <- MCData
    Created = {ta, tb}
    Session = {s1, s2}
    None = None
    MaxRequests = 2
    MaxChanges = 3
    Explored = {}
SYMMETRY Symmetry
INVARIANTS
    TypeOK
PROPERTIES
    QueuedPassesRules
CHECK_DEADLOCK FALSE
