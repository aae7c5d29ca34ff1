SPECIFICATION FairSpec
CONSTANTS
    d1 = d1
    d2 = d2
    f1 = f1
    w1 = w1
    NULL = NULL
    Descriptors = {d1, d2}
    Listeners = {d1}
    Fds = {f1}
    Workers = {w1}
    MaxEvents = 1
    MaxArrivals = 2
PROPERTIES
    JobsDrain
    StopReachesLoop
CHECK_DEADLOCK FALSE
