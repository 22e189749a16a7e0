\* A batch fits in HBM, but not every block does.
CONSTANTS
    Block <- ThreeBlocks
    DramSlot = {d1, d2, d3}
    HbmSlot = {h1, h2}
    Batch <- UpToTwo
    MaxLookups = 3
    Faults = {}
    Null = null
SYMMETRY Symmetric
SPECIFICATION Spec
INVARIANT BlocksAreResident
