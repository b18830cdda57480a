SPECIFICATION MCSpec
CONSTANTS
    u1 = u1
    u2 = u2
    c1 = c1
    c2 = c2
    Attempts = {u1, u2}
    Callers = {c1, c2}
    Releases <- Offered
    Operations = {"plan", "stage", "health", "activate", "confirm", "restart"}
    MaxEpoch = 3
    MaxCrashes = 2
CHECK_DEADLOCK FALSE
INVARIANTS UpdateInvariant UpdateHoldsIngressClosed
PROPERTIES OvertakenCallTouchesNothing ClosedIsReopened
