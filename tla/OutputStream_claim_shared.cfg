SPECIFICATION Spec
CONSTANTS
    Limits <- SharedLimits
    RingCap = 2
    FrameMax = 2
    PendMax = 2
    OutCap = 1
    BufMax = 4
    None = None
INVARIANTS ViewExact
CHECK_DEADLOCK FALSE
