SPECIFICATION Spec
CONSTANTS
    None = None
    SenderSlots = {a1, a2}
    Askers = {a1}
    Pollers = {a2}
    ReceiverSlots = {b1}
    ParentMessages = {"QUESTION"}
    ReceiverMessages = {"ANSWER"}
    Endings = {"COMPLETED"}
    MaxAttempts = 1
    ParentMax = 1
    IntentMax = 1
    EventMax = 16
    LateMax = 0
    FaultMax = 0
PROPERTIES LedgersReload TerminalStable
CHECK_DEADLOCK FALSE
