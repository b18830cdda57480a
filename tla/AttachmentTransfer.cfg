SPECIFICATION MCSpec
CONSTANTS
    a1 = a1
    a2 = a2
    p1 = p1
    p2 = p2
    k1 = k1
    Attachments = {a1, a2}
    Keys = {k1}
    KeyOf <- SameKey
    Length = 2
    Commands <- Sent
    Callers = {p1, p2}
    MaxEpoch = 2
    MaxFiles = 2
    MaxFaults = 1
    None = None
SYMMETRY Connections
CHECK_DEADLOCK FALSE
INVARIANTS TransferInvariant AvailableIsVerified
PROPERTIES PromotedIsImmutable
