SPECIFICATION LeaseSpec
CONSTANTS
    k1 = k1
    k2 = k2
    Keys <- MCKeys
    Rank <- MCRank
    Values = {v1}
    NoValue = NoValue
    CompactRevKey = CompactRevKey
    Leases = {1}
    Nodes = {n1}
    SupersededCount = 9
    CompactBatchSize = 9
    MaxRev = 3
    PageSize = 2
    SubCap = 1
INVARIANTS
    OnlyTheRaceIsUntimed
    ClosedByTheLast
