SPECIFICATION FairSpec
CONSTANTS
    Limits <- LagLimits
    RingCap = 2
    FrameMax = 2
    PendMax = 2
    OutCap = 1
    BufMax = 2
    None = None
 
PROPERTIES CatchesUp
CHECK_DEADLOCK FALSE
