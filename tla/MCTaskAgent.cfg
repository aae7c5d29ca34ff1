SPECIFICATION FairSpec
CONSTANTS
    t1 = t1
    t2 = t2
    NULL = NULL
    Tasks = {t1, t2}
    WithCompletion = {t1}
    AgentCount = 1
    MaxChecks = 3
INVARIANTS
    TasksAccounted
    HangAnswered
    DestructorNeverReturns
PROPERTIES
    TakenWhileServing
CHECK_DEADLOCK FALSE
