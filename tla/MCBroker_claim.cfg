SPECIFICATION BrokerSpec
CONSTANTS
    Subscribers = {s1, s2}
    Sizes = {1, 2}
    RingCap = 3
    RingBytes = 4
    LiveCap = 2
    LiveOnly = LiveOnly
    SeqMax = 4
    None = None
    Parked = Parked
    full_ring = full_ring
    last_rows = last_rows
    conn_a = conn_a
    conn_b = conn_b
    drainer_thread = drainer_thread
INVARIANTS NothingStranded
CHECK_DEADLOCK FALSE
