SPECIFICATION ContextFairSpec
CONSTANTS
    r1 = r1
    r2 = r2
    r3 = r3
    d1 = d1
    d2 = d2
    NULL = NULL
    WorkerCount = 2
    Jobs = {r1, r2, r3, d1, d2}
    Runs = {r1, r2, r3}
    MaxCompletions = 1
INVARIANTS
    DispatchWaitsForStop
PROPERTIES
    DestructorReturnsIfStopped
CHECK_DEADLOCK FALSE
