SPECIFICATION Spec
CONSTANTS
    r1 = r1
    r2 = r2
    Reqs = {r1, r2}
    ListTTL = 1
    Timeout = 2
    MaxRev = 2
    Configs <- MCConfigs
INVARIANT StatusTrue
 
INVARIANT StaleSurvivesOutage
