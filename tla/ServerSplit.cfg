CONSTANTS
    Peers = {p1, p2}
    p1 = p1
    p2 = p2
    NoPeer = NoPeer
    MaxConnections = 1
    MaxSockets = 2
    MaxRequestSize = 32
    MaxMessages = 1
    CutPoints = {0, 4}
    Paced = FALSE
    Leavers = {p1}
SPECIFICATION Spec
INVARIANT InterestWasDeclared
CHECK_DEADLOCK FALSE
