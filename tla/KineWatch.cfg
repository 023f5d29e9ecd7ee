SPECIFICATION WatchSpec
CONSTANTS
    Keys = {k1}
    Values = {v1}
    NoValue = NoValue
    CompactRevKey = CompactRevKey
    Leases = {0}
    Nodes = {n1}
    SupersededCount = 1
    CompactBatchSize = 2
    MaxRev = 4
    Watchers = {w1}
    PollLimit = 2
    SubCap = 1
VIEW WatchView
INVARIANTS
    WatchInOrder
    WatchHasNoOtherHole
