SPECIFICATION Spec
CONSTANTS
    Viewers = {v1, v2, v3}
    None = None
INVARIANTS OneEntry
CHECK_DEADLOCK FALSE
