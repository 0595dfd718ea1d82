\* The target refuses the connection.
SPECIFICATION FairSpec
CONSTANTS
    Lane = {n1}
    Block = {b1}
    MaxChunk = 0
    MayFail = {"connect"}
PROPERTY ConnectFailureReachesClient
CHECK_DEADLOCK FALSE
