SPECIFICATION MCSpec
CONSTANTS
    u1 = u1
    u2 = u2
    Clients = {u1, u2}
    Commands = {"set", "pause", "resume", "clear", "report", "stop"}
    Ends = {"worked", "idled", "limited"}
    Admissions = {"accepted", "refused"}
    Budget = 3
    IdleLimit = 1
    Batch = 2
    MaxGoals = 2
    MaxTurns = 4
    MaxRevision = 3
    MaxRestarts = 1
CHECK_DEADLOCK FALSE
INVARIANTS PursuitInvariant AccountsAreSound
PROPERTIES StoppedStaysStopped PursuitRespectsLimits ActiveGoalIsWorkedOn
