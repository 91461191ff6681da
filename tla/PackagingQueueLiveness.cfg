\* No task dies and no operator interferes: the promise that a top row gets
\* its envelope.  Two workbaskets over three rows, so that a rejected one
\* comes back, and up to two tasks wait for a row.  No symmetry, because the
\* property is a liveness property.
CONSTANTS
    WorkBasket = {w1, w2}
    Pwb = {p1, p2, p3}
    None = None
    SeedEnvelopeId = 1
    FirstYear = 23
    LastYear = 23
    MaxPending = 2
    MaxFaults = 0
SPECIFICATION FairSpec
INVARIANTS
    TopIsScheduled
PROPERTIES
    TopGetsEnvelope
CHECK_DEADLOCK FALSE
