CONSTANTS
    Frames = {f1, f2, f3}
    f1 = f1
    f2 = f2
    f3 = f3
    NoFrame = NoFrame
    Jpeg = FALSE
    GrabLatest = TRUE
    EventLength = 2
    FrameHalves = 2
    MaxFaults = 3
SPECIFICATION FairSpec
INVARIANTS
    FrameInOnePlace
    WritesOwnFrame
PROPERTIES
    OwnerSpec
    FramesFlow
CHECK_DEADLOCK FALSE
