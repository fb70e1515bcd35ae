SPECIFICATION Spec
CONSTANTS
    k1 = k1
    k2 = k2
    p1 = p1
    p2 = p2
    NoKey = NoKey
    Keys = {k1, k2}
    Procs = {p1, p2}
    Sizes = {1}
    Dirs = {1, 2}
    DirOf <- MCDirOf
    Groups <- MCGroups
    Flush = FALSE
    Faults = {"rot", "unlink", "read", "crash", "undrained", "interrupt"}
SYMMETRY MCSymmetry
INVARIANT NoOrphan
PROPERTY WalkInsertHasFile
