SPECIFICATION FairSpec
CONSTANTS
    k1 = k1
    k2 = k2
    p1 = p1
    p2 = p2
    NoKey = NoKey
    Keys = {k1, k2}
    Procs = {p1}
    Sizes = {1, 2}
    Dirs = {1, 2}
    DirOf <- MCDirOf
    Groups <- MCGroups
    Flush = TRUE
    Faults = {"load", "flush"}
 
INVARIANT TrustedIndexComplete
PROPERTY CloseEnds
