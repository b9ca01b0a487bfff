CONSTANTS
    Peers = {p1}
    p1 = p1
    NoPeer = NoPeer
    MaxConnections = 2
    MaxSockets = 2
    MaxRequestSize = 32
    MaxMessages = 2
    CutPoints = {0}
    Paced = TRUE
    Leavers = {p1}
    Frames = {f1}
    f1 = f1
    NoFrame = NoFrame
SPECIFICATION StreamFairSpec
PROPERTIES
    InterestServed
    GoneIsFreed
    ImagesReachInterested
CHECK_DEADLOCK FALSE
