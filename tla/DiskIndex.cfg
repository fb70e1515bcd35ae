SPECIFICATION Spec
CONSTANTS
    k1 = k1
    k2 = k2
    k3 = k3
    Keys = {k1, k2, k3}
    Sizes = {1, 2}
    Frontends = {1, 2}
    FrontendOf <- MCFrontendOf
    MaxTime = 3
    Skew = 1
INVARIANT TotalsExact
PROPERTY EvictsOldest
PROPERTY ImplementsIndex
