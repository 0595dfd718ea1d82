\* One lane, two chunks each way, every call may fail.
SPECIFICATION Spec
CONSTANTS
    Lane = {n1}
    Block = {b1}
    MaxChunk = 2
    MayFail = {"listen", "channel", "connect", "send", "write"}
INVARIANT TypeOK
INVARIANT Inductive
INVARIANT NothingDropped
INVARIANT HandshakeOrder
INVARIANT NoLostWakeup
PROPERTY NoEcho
PROPERTY ImplementsLanes
CHECK_DEADLOCK FALSE
