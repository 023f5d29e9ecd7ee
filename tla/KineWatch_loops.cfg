SPECIFICATION FairLoopsSpec
CONSTANTS
    Keys = {k1}
    Values = {v1}
    NoValue = NoValue
    CompactRevKey = CompactRevKey
    Leases = {0}
    Nodes = {n1}
    SupersededCount = 1
    CompactBatchSize = 2
    MaxRev = 4
    Watchers = {}
    PollLimit = 2
    SubCap = 1
INVARIANTS
    PollMissesOnlyCompacted
PROPERTIES
    PollCatchesUp
    CompactionCatchesUp
