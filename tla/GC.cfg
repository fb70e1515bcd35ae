SPECIFICATION FairSpec
CHECK_DEADLOCK FALSE
CONSTANTS
    k1 = k1
    k2 = k2
    k3 = k3
    Keys = {k1, k2, k3}
    Sizes = {3, 7}
    Frontends <- MCFrontends
    Budgets <- MCBudgets
    Writers = {w1, w2}
    Loop = loop
    Configs <- MCConfigs
    MaxPuts = 3
INVARIANT OvershootBounded
PROPERTY HighRestored
PROPERTY SubBudgetsEnforced
