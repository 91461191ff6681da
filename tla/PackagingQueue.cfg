\* Every operation on a queue of up to three rows, where one task may die or
\* one repair be made.  The seed leaves one ID of the first year, so the end
\* of the range and the change of year are both reached.
CONSTANTS
    WorkBasket = {w1, w2, w3}
    Pwb = {p1, p2, p3}
    None = None
    SeedEnvelopeId = 239998
    FirstYear = 23
    LastYear = 24
    MaxPending = 1
    MaxFaults = 1
SPECIFICATION Spec
SYMMETRY Symmetry
INVARIANTS
    TypeOK
    QueueOrder
    AtMostOneProcessing
    StatusAgreement
    OnlyTopHasEnvelope
    PendingIdIsNext
    AcceptedIdsContiguous
PROPERTIES
    EnvelopeFrozen
    ImplementsProcessingQueue
CHECK_DEADLOCK FALSE
