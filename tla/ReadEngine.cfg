\* Two threads on one growing file whose two chunks fit: entries disappear only through
\* duplicate inserts.
CONSTANTS
    Thread = {t1, t2}
    File = {"f"}
    InitialSize = 3
    MaxSize = 4
    Call <- OneFile
    MaxCalls = 2
    Options <- Cached
    IoFaults = FALSE
    Addr = {a1, a2, a3}
    ChunkSize = 2
    CacheSize = 4
SYMMETRY Symmetric
SPECIFICATION Spec
INVARIANTS
    ReadsDeliverFileBytes
    ErrorsAreJustified
    CacheHoldsFileBytes
