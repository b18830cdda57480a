SPECIFICATION MCSpec
CONSTANTS
    Lengths <- MCLengths
    MaxPlanBytes = 4
    MaxPromptBytes = 4
    Instruction = 1
    Batch = 1
    MaxRuns = 3
    MaxTurns = 3
    MaxEpoch = 2
CHECK_DEADLOCK FALSE
INVARIANTS PlansInvariant
PROPERTIES PlansProceed
