CONSTANTS
    Positions = {"p", "q", "r"}
    Exact = {"p", "q"}
    Start = "p"
    LastAxis = 2
    FrameTime = 3
    MinGap = 4
    MaxEvents = 4
SPECIFICATION Spec
INVARIANTS TypeOK WholeFrames
PROPERTIES CatchesUp
