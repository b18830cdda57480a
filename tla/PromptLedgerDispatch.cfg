SPECIFICATION Spec
CONSTRAINT DispatchedTogether
CONSTANTS
    c1 = c1
    r1 = r1
    r2 = r2
    claude = claude
    None = None
    Conversations <- OneConversation
    Runs <- OneRun
    Messages = {m1, m2, m3}
    Coordinators = {k1, k2}
    Providers = {claude}
    ConvOf <- MCConvOf
    ProviderOf <- MCProviderOf
    FirstRun <- MCFirstRun
    Kinds = {"send", "queue"}
    Continuations = {m3}
    Outcomes = {"completed", "failed"}
    InstallRuns <- NoRuns
    PermissionRuns <- OneRun
    MaxEpoch = 3
SYMMETRY Symmetry
CHECK_DEADLOCK FALSE
INVARIANTS SteerFollowsDispatch TypeOK TurnOpenIffUnfinished PermissionOfRunningTurn QuiescedIsIdle
PROPERTIES NoReplay TurnEndsOnce DeadEpochIsFenced EndedGoalSendsNothing ImplementsDelivery
