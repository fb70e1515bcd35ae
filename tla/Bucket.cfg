SPECIFICATION Spec
CONSTANTS
    Callers = {"a", "b"}
    Configs <- MCConfigs
    Types <- MCTypes
    LongTypes <- MCLong
    StoreType = "octets"
    StoreTime = 9
    spillThreshold = 2
    MaxAttempts = 2
    MaxCalls = 2
INVARIANT MetaKept
INVARIANT AnswersTrue
INVARIANT CountersExact
PROPERTY WrittenOnce
CHECK_DEADLOCK FALSE
