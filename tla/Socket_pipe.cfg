\* The kernel takes whole writes; the stream may break.
SPECIFICATION FairSpec
CONSTANTS
    MaxByte = 6
    MaxPacket = 3
    MaxQueue = 2
    Limit = 3
    Room = 3
    MayFail = {"reset"}
INVARIANT TypeOK
INVARIANT ByteCountExact
INVARIANT QueueBounded
INVARIANT NoneRefusedUnstopped
PROPERTY ImplementsPipe
PROPERTY EveryLoopEnds
PROPERTY QueueIsFlushed
CHECK_DEADLOCK FALSE
