SPECIFICATION ServerSpec
CONSTANTS
    Calls = {c1, c2}
    RequestNames <- CollidingName
    Anonymous = Anonymous
    Free = Free
    NoName = NoName
    Other = Other
    AnonMax = 3
    EventCap = 1
    TombstoneMax = 1
    None = None
    Parked = Parked
    v1 = v1
    v2 = v2
    v3 = v3
INVARIANTS NameOwnership
    OutputExact SizesAgree InputAndOutputKept OneOwner ExitToldRight NoProgressivePaint
PROPERTIES LeaverEndsOwnEntry DeadEventuallyReaped FlowResumes NothingOverdue Recovers
     
CHECK_DEADLOCK FALSE
