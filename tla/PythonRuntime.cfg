\* Two threads with two calls each; a context may be lost and another one closed.
CONSTANTS
    Thread = {t1, t2}
    FileSize <- Sizes
    Call <- Calls
    Dataset <- Datasets
    MaxCalls = 2
    MaxContexts = 3
SYMMETRY Symmetric
SPECIFICATION Spec
INVARIANTS
    NoUseAfterFinalize
    LostOnlyInARace
    SamplesAreIndexed
    TensorsFitTheirBytes
