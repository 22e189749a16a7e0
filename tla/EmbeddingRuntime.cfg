\* DRAM holds a whole batch, neither cache holds every block, and anything may fail.
CONSTANTS
    Block <- ThreeBlocks
    DramSlot = {d1, d2}
    HbmSlot = {h1, h2}
    Batch <- UpToTwo
    MaxLookups = 3
    Faults = {"load", "cuda"}
    Null = null
SYMMETRY Symmetric
SPECIFICATION Spec
INVARIANTS
    TableMatchesHbm
    SlotsConsistent
    LastHolderIsResident
PROPERTY IsBlockLookup
