SPECIFICATION FairSpec
CONSTANTS
    seed = seed
    file = file
    update = update
    a0 = a0
    b0 = b0
    c0 = c0
    f0 = f0
    f1 = f1
    u0 = u0
    u1 = u1
    Batch <- MCBatch
    Chunk <- MCChunk
    BatchOf <- MCBatchOf
    Code <- MCCode
    Line <- MCLine
    Number <- MCNumber
    CodeDependencies <- MCCodeDependencies
    Dependencies <- MCDependencies
    Split = {seed}
    Owned = {seed, file}
    Session = {s1, s2}
    None = None
    MaxFailures = 1
    MaxLost = 1
INVARIANTS
    TypeOK
    BatchStatusIsTrue
PROPERTIES
    ImportedInOrder
    NothingStranded
CHECK_DEADLOCK FALSE
