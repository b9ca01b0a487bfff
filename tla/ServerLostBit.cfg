CONSTANTS
    Peers = {p1, p2}
    p1 = p1
    p2 = p2
    NoPeer = NoPeer
    MaxConnections = 2
    MaxSockets = 3
    MaxRequestSize = 32
    MaxMessages = 1
    CutPoints = {0}
    Paced = TRUE
    Leavers = {p1}
SPECIFICATION FairSpec
PROPERTY ClientsAwaited
CHECK_DEADLOCK FALSE
