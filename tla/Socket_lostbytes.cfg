\* The kernel takes a part of a write.
SPECIFICATION Spec
CONSTANTS
    MaxByte = 3
    MaxPacket = 2
    MaxQueue = 1
    Limit = 2
    Room = 2
    MayFail = {"partial"}
INVARIANT NoByteLost
CHECK_DEADLOCK FALSE
