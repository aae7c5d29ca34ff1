SPECIFICATION FairSpec
CONSTANTS
    t1 = t1
    t2 = t2
    t3 = t3
    Threads = {t1, t2, t3}
    MaxSignals = 3
INVARIANTS
    TypeOK
    SignalConserved
    NoLostWakeup
PROPERTY SignalTaken
CHECK_DEADLOCK FALSE
