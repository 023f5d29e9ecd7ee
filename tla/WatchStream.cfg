SPECIFICATION FairSpec
CONSTANTS
    Ids = {w1}
    SubCap = 2
    ResultCap = 1
    MaxBatches = 4
    MaxCancels = 3
CHECK_DEADLOCK FALSE
INVARIANTS
    NothingOutlivesTheStream
    EndedIsForgotten
    ClientHearsTheEnd
PROPERTIES
    CancelledWatchEnds
    StreamReturns
