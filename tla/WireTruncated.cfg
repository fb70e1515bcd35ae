SPECIFICATION Spec
CHECK_DEADLOCK FALSE
CONSTANTS
    c1 = c1
    c2 = c2
    k1 = k1
    p1 = p1
    p2 = p2
    Calls = {c1, c2}
    Keys = {k1}
    Len = 2
    Window = 1
    QueueSize = 1
    None = NONE
    Probes = {p1, p2}
    TTL = 2
    Budget = 1
    Nobody = NOBODY
    Configs <- BrokenSources
INVARIANT StoredWhole
