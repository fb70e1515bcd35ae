SPECIFICATION FairSpec
CHECK_DEADLOCK FALSE
CONSTANTS
    r1 = r1
    r2 = r2
    w1 = w1
    a1 = a1
    o1 = o1
    Reqs = {r1, r2}
    Workers = {w1}
    Actions = {a1}
    Outputs = {o1}
    Aged = {o1}
    None = NONE
    Junk = JUNK
    Configs <- MCConfigs
    Threshold = 2
    Window = 2
 
INVARIANT RecordsNameOutputs
 
INVARIANT KilledUploadsCounted
PROPERTY GoodRecordsStay
PROPERTY CircuitRecovers
PROPERTY CloseEnds
