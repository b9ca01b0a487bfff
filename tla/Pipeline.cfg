CONSTANTS
    Frames = {f1, f2}
    f1 = f1
    f2 = f2
    NoFrame = NoFrame
    Jpeg = TRUE
    GrabLatest = FALSE
    EventLength = 2
    FrameHalves = 3
    MaxFaults = 2
SPECIFICATION PipelineFairSpec
INVARIANTS
    PipelineTypeOK
    LentAtOneStation
    SentFrameStable
PROPERTIES
    TakeReturns
    LentComesBack
    ImagesFlow
CHECK_DEADLOCK FALSE
