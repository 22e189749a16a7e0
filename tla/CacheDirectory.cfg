\* Four chunks fit, and the budget is not a multiple of the chunk size; an address more
\* than the list has nodes, so that no allocation is ever refused.  No invariant looks at
\* the contents: one will do.
CONSTANTS
    Key = {k1, k2, k3, k4, k5}
    Content = {x}
    Addr = {a1, a2, a3, a4, a5}
    ChunkSize = 2
    CacheSize = 9
SYMMETRY Symmetric
SPECIFICATION DirSpec
INVARIANTS
    IteratorsValid
    WithinBudget
    LeavesRoomForOne
    ListBounded
