\* A connection is used after DeleteConnectionLane deleted it.
SPECIFICATION Spec
CONSTANTS
    Lane = {n1}
    Block = {b1}
    MaxChunk = 1
    MayFail = {}
INVARIANT NoUseAfterFree
CHECK_DEADLOCK FALSE
