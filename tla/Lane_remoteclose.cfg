\* MsgDeleteChannel arrives before the server's data channel opens.
SPECIFICATION Spec
CONSTANTS
    Lane = {n1}
    Block = {b1}
    MaxChunk = 0
    MayFail = {}
INVARIANT RemoteCloseIsObeyed
CHECK_DEADLOCK FALSE
