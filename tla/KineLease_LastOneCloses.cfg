SPECIFICATION LeaseSpec
CONSTANTS
    k1 = k1
    k2 = k2
    Keys <- MCKeys
    Rank <- MCRank
    Values = {v1}
    NoValue = NoValue
    CompactRevKey = CompactRevKey
    Leases = {0}
    Nodes = {n1}
    SupersededCount = 1
    CompactBatchSize = 9
    MaxRev = 5
    PageSize = 2
    SubCap = 1
CONSTRAINT PollerIsAsleep
INVARIANTS
    LastOneCloses
