CONSTANTS
    Peers = {p1, p2}
    p1 = p1
    p2 = p2
    NoPeer = NoPeer
    MaxConnections = 1
    MaxSockets = 1
    MaxRequestSize = 32
    MaxMessages = 1
    CutPoints = {0}
    Paced = TRUE
    Leavers = {p1}
SPECIFICATION Spec
INVARIANT EveryClientGreeted
CHECK_DEADLOCK FALSE
