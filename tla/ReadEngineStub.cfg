\* The GDS stub at the end of a file that does not grow.
CONSTANTS
    Thread = {t1}
    File = {"f"}
    InitialSize = 3
    MaxSize = 3
    Call <- PastTheEnd
    MaxCalls = 1
    Options <- Stub
    IoFaults = FALSE
    Addr = {a1, a2}
    ChunkSize = 2
    CacheSize = 3
SPECIFICATION Spec
INVARIANT PastTheEndIsAnError
