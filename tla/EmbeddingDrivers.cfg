\* Two ids per block; caches of one block, of two, and of more than there are.  The
\* generator writes three rows at a time, so that the last chunk may be shorter; it is run
\* for fewer rows than a trace is about, for as many, and for more.
CONSTANTS
    Job <- AllJobs
    Driven <- Replays
    EmptyHash = 1
    RowsPerBlock = 2
    Capacity = {1, 2, 4}
    TableRows = {2, 3, 4}
    RowsPerChunk = 3
    CudaFaults = TRUE
SPECIFICATION Spec
INVARIANTS
    EveryIdReadOnce
    IdsInRange
    FieldsAreSeparate
    HitsAreLruHits
    ReuseIsMeasured
    ReportsAgree
    EveryBlockServedOnce
    OnlyShortBlocksFail
    ReleasedOnce
