CONSTANTS
    w1 = w1
    w2 = w2
    Pieces = {0, 1}
    Blocks <- ShortLast
    GroupSize = 2
    Workers = {w1, w2}
    MaxRetry = 1
    MaxGroups = 2
    BadBlocks = 0
    MaxFaults = 1
    Stops = 1
SPECIFICATION FairSpec
INVARIANTS OneFlush NothingLost
PROPERTY StopEnds
CHECK_DEADLOCK FALSE
