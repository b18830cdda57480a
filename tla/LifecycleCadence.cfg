SPECIFICATION MCSpec
CONSTANTS
    claude = claude
    codex = codex
    p1 = p1
    p2 = p2
    p3 = p3
    Hosts = {claude, codex}
    Prompts = {p1, p2, p3}
    HostOf <- TwoHosts
    Left = {p1}
    ReadyAtStart = {claude}
    MaxActive = 1
    Starts = {"started", "failed", "denied"}
    Requests = {"quiesce", "shutdown"}
    WarmUps = 1
CHECK_DEADLOCK FALSE
INVARIANTS CadenceInvariant QuiescedOwnerStopsCleanly
PROPERTIES QuiescedStartsNothing WokenPromptIsTaken ClosedOwnerStops
