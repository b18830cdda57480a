SPECIFICATION MCSpec
CONSTANTS
    d1 = d1
    d2 = d2
    p1 = p1
    p2 = p2
    o1 = o1
    o2 = o2
    o3 = o3
    g1 = g1
    Dirs = {d1, d2}
    Processes = {p1, p2}
    Operations = {o1, o2, o3}
    Fresh = {g1}
    Release <- ThreeReleases
    Scope <- ThreeScopes
    Untracked <- Repairs
    MaxEpoch = 3
    MaxFaults = 2
    NoGeneration = NoGeneration
CHECK_DEADLOCK FALSE
INVARIANTS ActivationInvariant
PROPERTIES OperationsRespectTheOwner OutcomeIsFinal SelectionNeverRegresses
