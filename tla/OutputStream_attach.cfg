SPECIFICATION Spec
CONSTANTS
    Limits <- AttachLimits
    RingCap = 2
    FrameMax = 2
    PendMax = 2
    OutCap = 1
    BufMax = 4
    None = None
INVARIANTS NothingLost ExitAfterOutput 
CHECK_DEADLOCK FALSE
