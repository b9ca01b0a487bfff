CONSTANTS
    Peers = {p1, p2}
    p1 = p1
    p2 = p2
    NoPeer = NoPeer
    MaxConnections = 2
    MaxSockets = 3
    MaxRequestSize = 32
    MaxMessages = 1
    CutPoints = {0}
    Paced = TRUE
    Leavers = {}
SPECIFICATION FairSpec
PROPERTY InterestServed
CHECK_DEADLOCK FALSE
