CONSTANTS
    Peers = {p1, p2}
    p1 = p1
    p2 = p2
    NoPeer = NoPeer
    MaxConnections = 2
    MaxSockets = 2
    MaxRequestSize = 32
    MaxMessages = 2
    CutPoints = {0}
    Paced = TRUE
    Leavers = {p1, p2}
SPECIFICATION Spec
SYMMETRY Symmetry
INVARIANTS
    ServerInv
    InterestBitMatches
    InterestWasDeclared
    LastWordWins
CHECK_DEADLOCK FALSE
