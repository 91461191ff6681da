SPECIFICATION ScriptSpec
CONSTANTS
    a = a
    b = b
    c = c
    ta = ta
    tb = tb
    ta2 = ta2
    tb2 = tb2
    tc = tc
    WorkBasket = {a, b, c}
    Tx <- HeadTx
    Model = {1, 2, 3, 4, 5, 6}
    WorkBasketOf <- HeadWorkBasketOf
    TxOf <- HeadTxOf
    Needs <- HeadNeeds
    Rivals <- HeadRivals
    Data <- MCData
    Created = {ta, tb, ta2, tb2, tc}
    Session = {s1, s2, s3}
    s1 = s1
    s2 = s2
    s3 = s3
    None = None
    MaxRequests = 5
    MaxChanges = 2
    Explored = {"head deleted"}
PROPERTIES
    StaleIsNoticed
CHECK_DEADLOCK FALSE
