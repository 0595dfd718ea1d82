\* One server and one client, one candidate each, everything may fail.
SPECIFICATION FairSpec
CONSTANTS
    Server = server
    Client = {client}
    MaxCandidate = 1
    MayFail = {"connect", "lost", "room", "signIn", "killed", "factory", "peerConnection",
               "description"}
INVARIANT TypeOK
INVARIANT NegotiationFits
INVARIANT ExitOnce
INVARIANT NoOrphanConductor
PROPERTY TunnelForms
PROPERTY SignedInOrEnded
PROPERTY ClientExits
PROPERTY ImplementsRendezvous
CHECK_DEADLOCK FALSE
