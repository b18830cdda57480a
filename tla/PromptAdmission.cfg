SPECIFICATION MCSpec
CONSTANTS
    p1 = p1
    p2 = p2
    Prompts = {p1, p2}
    QueueKind = {p2}
    MaxWakes = 2
    MaxBackground = 1
    MaxRestarts = 1
    MaxCancels = 1
    Background = Background
CHECK_DEADLOCK FALSE
INVARIANTS AdmissionInvariant
PROPERTIES ReleasedWhenReady AwaitingPromptLeaves
