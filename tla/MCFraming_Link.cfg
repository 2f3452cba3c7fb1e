SPECIFICATION FairSpec
CONSTANTS
    Writers = {"waitNetwork"}
    Bodies <- LinkBodies
    BodyLen = 4
    Checked = FALSE
    FallsThrough = FALSE
    MaxFrames = 3
    PipeCap = 6
INVARIANTS FramesIntact WholeFrames
PROPERTIES FramesArrive
CHECK_DEADLOCK FALSE
