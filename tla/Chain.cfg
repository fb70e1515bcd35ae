SPECIFICATION FairSpec
CHECK_DEADLOCK FALSE
CONSTANTS
    c1 = c1
    c2 = c2
    v1 = v1
    v2 = v2
    N = 3
    Callers = {c1, c2}
    Nobody = NOBODY
    Versions = {v1, v2}
    Big = {v2}
    None = NONE
    Contents = {NONE, v2}
    Configs <- MCConfigs
    MaxCalls = 3
 
INVARIANT CompletedPutFound
PROPERTY CallsEnd
