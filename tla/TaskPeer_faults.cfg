SPECIFICATION FairSpec
CONSTANTS
    None = None
    SenderSlots = {a1}
    Askers = {a1}
    Pollers = {a1}
    ReceiverSlots = {b1}
    ParentMessages = {}
    ReceiverMessages = {}
    Endings = {"COMPLETED"}
    MaxAttempts = 2
    ParentMax = 0
    IntentMax = 1
    EventMax = 16
    LateMax = 1
    FaultMax = 1
INVARIANTS ReplicaPrefix VisibleOnlyConfirmed DeliveredHeld TwoPhaseAck
PROPERTIES TaskEnds
CHECK_DEADLOCK FALSE
