\* Both threads signal the close event.
SPECIFICATION Spec
CONSTANTS
    MaxMessage = 1
    MaxFragment = 1
    MaxFrame = 1
    MaxPiece = 1
    MayFail = {"connect"}
INVARIANT CloseIsLast
CHECK_DEADLOCK FALSE
