SPECIFICATION Spec
CONSTANTS
    seed = seed
    file = file
    update = update
    a0 = a0
    b0 = b0
    c0 = c0
    f0 = f0
    f1 = f1
    u0 = u0
    u1 = u1
    Batch <- PairBatch
    Chunk <- PairChunk
    BatchOf <- PairBatchOf
    Code <- PairCode
    Line <- PairLine
    Number <- PairNumber
    CodeDependencies <- PairCodeDependencies
    Dependencies <- PairDependencies
    Split = {}
    Owned = {file}
    Session = {s1, s2}
    None = None
    MaxFailures = 0
    MaxLost = 0
INVARIANTS
    OneChunkAtATime
CHECK_DEADLOCK FALSE
