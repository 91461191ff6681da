SPECIFICATION Spec
CONSTANTS
    a = a
    b = b
    ta = ta
    tb = tb
    ta2 = ta2
    WorkBasket = {a, b}
    Tx <- SmallTx
    Model = {1, 2}
    WorkBasketOf <- SmallWorkBasketOf
    TxOf <- SmallTxOf
    Needs <- SmallNeeds
    Rivals <- SmallRivals
    Data <- MCData
    Created = {ta, tb}
    Session = {s1}
    None = None
    MaxRequests = 3
    MaxChanges = 3
    Explored = {"dequeued"}
PROPERTIES
    DequeuedIsNoticed
CHECK_DEADLOCK FALSE
