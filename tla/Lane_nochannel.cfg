\* CreateDataChannel fails under an accepted connection.
SPECIFICATION Spec
CONSTANTS
    Lane = {n1}
    Block = {b1}
    MaxChunk = 1
    MayFail = {"channel"}
INVARIANT NoNullDereference
CHECK_DEADLOCK FALSE
