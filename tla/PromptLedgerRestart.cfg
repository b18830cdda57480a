SPECIFICATION RestartSpec
CONSTANTS
    c1 = c1
    r1 = r1
    r2 = r2
    claude = claude
    None = None
    Conversations <- OneConversation
    Runs <- OneRun
    Messages = {m1}
    Coordinators = {k1, k2}
    Providers = {claude}
    ConvOf <- MCConvOf
    ProviderOf <- MCProviderOf
    FirstRun <- MCFirstRun
    Kinds = {"send"}
    Continuations = {}
    Outcomes = {"completed"}
    InstallRuns <- OneRun
    PermissionRuns <- OneRun
    MaxEpoch = 3
CHECK_DEADLOCK FALSE
PROPERTIES DeadEpochDrains
