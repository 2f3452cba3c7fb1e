SPECIFICATION Spec
CONSTANTS
    Writers = {"routeupdate_daemon", "waitTransport"}
    Bodies <- CleanBodies
    BodyLen = 4
    Checked = TRUE
    FallsThrough = FALSE
    MaxFrames = 4
    PipeCap = 8
INVARIANTS WholeFrames
CHECK_DEADLOCK FALSE
