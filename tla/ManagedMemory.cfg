\* Two addresses, so that one freed is soon handed out again; a counter that wraps.
CONSTANTS
    Addr = {a1, a2}
    Deleter = {d1, d2}
    Config <- AllPrograms
    SizeT = 16
SYMMETRY Symmetric
SPECIFICATION BenchSpec
INVARIANTS
    MemoryOwned
    AccountingExact
    EpochDelivers
    PathsAgree
    BatchesGivenBack
