SPECIFICATION FairSpec
CONSTANTS
    Workers = {"w1", "w2"}
    Callers = {"c1", "c2"}
    Outside <- Roles
    Nested = {"start", "stop", "asyncStop", "trigger"}
    CanThrow = TRUE
    Tasks = {k1, k2, k3}
    NoThread = NoThread
    NoTask = NoTask
    MaxCalls = 6
INVARIANTS AssertionsHold
PROPERTIES StopSilences CallsReturn RunningRuns
CHECK_DEADLOCK FALSE
