SPECIFICATION MCSpec
CONSTANTS
    w1 = w1
    w2 = w2
    a = a
    b = b
    c = c
    BufferSize = 4
    HeaderSize = 1
    MaxBytes = 6
    MaxWire = 8
    Workers = {w1, w2}
    Threads = {a, b, c}
    Starts = {0, 1}
    MaxWrites = 2
INVARIANTS
    WireConserved
    OnceUnlessOverlapping
    CounterExact
    EndNotMissed
    OneReceive
CHECK_DEADLOCK FALSE
