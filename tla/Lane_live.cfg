\* Liveness of one lane, one chunk each way.  Connecting to the target and
\* creating the data channel succeed; listening, sending and writing may fail.
SPECIFICATION FairSpec
CONSTANTS
    Lane = {n1}
    Block = {b1}
    MaxChunk = 1
    MayFail = {"listen", "send", "write"}
PROPERTY ClosePropagates
PROPERTY HangupFreesConnection
PROPERTY AcceptedIsServed
PROPERTY PeerLossEndsLanes
CHECK_DEADLOCK FALSE
