\* The order of calls of tests/test_async.cpp: wait for a request, then free it.
CONSTANTS
    Worker = {w1}
    Request = {r1}
    FreePolicy = "after_wait"
SPECIFICATION SafetySpec
INVARIANT NoUseAfterFree
