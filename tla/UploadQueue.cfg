SPECIFICATION FairSpec
CHECK_DEADLOCK FALSE
CONSTANTS
    Producers = {p1, p2}
    Workers = {w1, w2}
    Sizes = {0, 1, 2}
    Cap = 2
    QueueBytes = 4
    MinSize = 1
    MaxOffers = 4
INVARIANT MemoryBounded
INVARIANT NoSendOnClosed
INVARIANT StopNilMeansFlushed
PROPERTY DrainCompletes
