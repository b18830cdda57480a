SPECIFICATION Spec
CONSTRAINT SteeredOrInstalled
CONSTANTS
    c1 = c1
    r1 = r1
    r2 = r2
    claude = claude
    None = None
    Conversations <- OneConversation
    Runs <- TwoRuns
    Messages = {m1, m2, m3}
    Coordinators = {k1, k2}
    Providers = {claude}
    ConvOf <- MCConvOf
    ProviderOf <- MCProviderOf
    FirstRun <- MCFirstRun
    Kinds = {"send", "queue"}
    Continuations = {}
    Outcomes = {"completed", "failed"}
    InstallRuns <- OneRun
    PermissionRuns <- NoRuns
    MaxEpoch = 2
SYMMETRY Symmetry
CHECK_DEADLOCK FALSE
INVARIANTS RequestWaitsForTurn TerminalFactDecides ReservationIsRestorable
