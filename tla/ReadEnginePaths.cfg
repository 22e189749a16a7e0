\* Every path and every failure, with a cache of one chunk: each admission evicts.
CONSTANTS
    Thread = {t1, t2}
    File = {"f"}
    InitialSize = 3
    MaxSize = 4
    Call <- AnyTarget
    MaxCalls = 1
    Options <- AnyPath
    IoFaults = TRUE
    Addr = {a1, a2}
    ChunkSize = 2
    CacheSize = 3
SYMMETRY Symmetric
SPECIFICATION Spec
INVARIANTS
    ReadsDeliverFileBytes
    ReadvFillsEveryRange
    StatsBalance
