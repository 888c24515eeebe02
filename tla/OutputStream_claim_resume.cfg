SPECIFICATION Spec
CONSTANTS
    Limits <- LagLimits
    RingCap = 2
    FrameMax = 2
    PendMax = 2
    OutCap = 1
    BufMax = 4
    None = None
INVARIANTS DropIsResumed
CHECK_DEADLOCK FALSE
