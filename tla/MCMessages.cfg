SPECIFICATION MessagesSpec
CONSTANTS
    a = a
    b = b
    g = g
    h = h
    m = m
    p = p
    Sessions = {a, b}
    Generations = {g, h}
    Endpoints <- MailEndpoints
    Ids = {m}
    Peers = {p}
    Envelopes <- MailEnvelopes
    ActiveItems = 2
    MailboxItems = 2
    PeerItems = 1
    Receipts = 2
    Registrations = 2
    Routes = 1
    LeaseMs = 2
    RetryMs = 1
    DeadlineMs = 1
    ReceiptMs = 3
    ClockSkewMs = 1
    MaxAttempts = 2
    MaterialGap = 2
    MaintenanceLimit = 2
    TimeMax = 3
    TokenMax = 2
    None = None
    Parked = Parked
INVARIANTS StoreExact ForwardedIsAccepted  AppendedSurvives 
PROPERTIES DeliveredOnce AcceptedMailKept OnlyEntitled
CHECK_DEADLOCK FALSE
