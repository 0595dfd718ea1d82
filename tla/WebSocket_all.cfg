\* Three messages of up to two fragments out, two frames of up to two pieces in,
\* everything may fail.
SPECIFICATION FairSpec
CONSTANTS
    MaxMessage = 3
    MaxFragment = 2
    MaxFrame = 2
    MaxPiece = 2
    MayFail = {"context", "connect", "write", "peer"}
INVARIANT TypeOK
INVARIANT FramesFormMessages
INVARIANT NoMessageLost
INVARIANT ReadsAreFrames
INVARIANT SilentOnlyWithoutContext
PROPERTY QuietAfterClose
PROPERTY JoinReturns
PROPERTY MessagesAreSent
PROPERTY ConnectIsAnswered
CHECK_DEADLOCK FALSE
