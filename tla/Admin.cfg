SPECIFICATION Spec
CONSTANTS
    a1 = a1
    a2 = a2
    c1 = c1
    c2 = c2
    Admins = {a1, a2}
    Clients = {c1, c2}
    Keys = {1, 2, 3}
    Under = {1, 2, 3}
    deleteBatch = 2
    PageSize = 1
    Configs <- MCConfigs
INVARIANTS
    
    
    ListComplete
CHECK_DEADLOCK FALSE
