SPECIFICATION FairSpec
CONSTANTS
    j1 = j1
    j2 = j2
    j3 = j3
    NULL = NULL
    WorkerCount = 2
    Jobs = {j1, j2, j3}
INVARIANTS
    TypeOK
    JobsAccounted
    OneLateJob
    NobodyInside
PROPERTIES
    DestructorReturns
    ImplementsService
CHECK_DEADLOCK FALSE
