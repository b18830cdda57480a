SPECIFICATION Spec
CONSTANTS
    c1 = c1
    r1 = r1
    r2 = r2
    claude = claude
    None = None
    Conversations <- OneConversation
    Runs <- OneRun
    Messages = {m1, m2, m3}
    Coordinators = {k1}
    Providers = {claude}
    ConvOf <- MCConvOf
    ProviderOf <- MCProviderOf
    FirstRun <- MCFirstRun
    Kinds = {"queue"}
    Continuations = {}
    Outcomes = {"completed"}
    InstallRuns <- NoRuns
    PermissionRuns <- NoRuns
    MaxEpoch = 1
CHECK_DEADLOCK FALSE
INVARIANTS RequestTargetsOpenTurn
