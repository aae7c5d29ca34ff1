SPECIFICATION Spec
CONSTANTS
    d1 = d1
    d2 = d2
    f1 = f1
    f2 = f2
    w1 = w1
    NULL = NULL
    Descriptors = {d1, d2}
    Listeners = {}
    Fds = {f1, f2}
    Workers = {w1}
    MaxEvents = 2
    MaxArrivals = 2
PROPERTY ReadsItsDescriptor

CHECK_DEADLOCK FALSE
