\* Two lanes, one chunk in all; connecting to the target may fail.
SPECIFICATION Spec
CONSTANTS
    Lane = {n1, n2}
    Block = {b1, b2}
    MaxChunk = 1
    MayFail = {"connect"}
INVARIANT Inductive
INVARIANT HandshakeOrder
PROPERTY NoEcho
CHECK_DEADLOCK FALSE
SYMMETRY Symmetry
CONSTRAINT TwoLaneBound
