\* As many requests as workers: requests queue up behind a busy or a blocked worker.
\* No symmetry, which liveness checking does not allow.
CONSTANTS
    Worker = {w1, w2}
    Request = {r1, r2}
    FreePolicy = "after_finalize"
SPECIFICATION Spec
INVARIANTS
    InOnePlace
    AnswerIsResult
    NoUseAfterFree
    FinalizeDrains
PROPERTIES
    EveryRequestServed
    EveryWaiterReturns
    FinalizeReturns
