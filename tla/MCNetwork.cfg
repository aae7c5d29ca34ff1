SPECIFICATION MCSpec
CONSTANTS
    w1 = w1
    w2 = w2
    c1 = c1
    c2 = c2
    c3 = c3
    L = L
    NoSocket = NoSocket
    MaxAddresses = 3
    MaxText = 6
    Workers = {w1, w2}
    Clients = {c1, c2, c3}
    MaxFrames = 4
    MaxCloses = 3
INVARIANTS
    EndsOnce
    ConnectsOnce
    ParsesGrammar
    ListenerOutlived
    SocketsAccounted
CHECK_DEADLOCK FALSE
