CONSTANTS
    Peers = {p1, p2, p3}
    p1 = p1
    p2 = p2
    p3 = p3
    NoPeer = NoPeer
    MaxConnections = 2
    MaxSockets = 3
    MaxRequestSize = 32
    MaxMessages = 1
    CutPoints = {0, 1}
    Paced = TRUE
    Leavers = {p1}
SPECIFICATION Spec
SYMMETRY Symmetry
INVARIANTS
    TypeOK
    TableConsistent
    SnapshotMatches
    RequestFromActive
    AcceptFindsSlot
    FrameReachesInterested
PROPERTY FreedAtStreamEnd
CHECK_DEADLOCK FALSE
