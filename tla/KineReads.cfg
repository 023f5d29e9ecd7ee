SPECIFICATION ReadsSpec
CONSTANTS
    k1 = k1
    k2 = k2
    Keys <- MCKeys
    Rank <- MCRank
    NoKey = NoKey
    Values = {v1}
    NoValue = NoValue
    CompactRevKey = CompactRevKey
    Leases = {0}
    Nodes = {n1}
    SupersededCount = 1
    CompactBatchSize = 2
    MaxRev = 4
    Clients = {c1}
    Limits = {0, 1}
INVARIANTS
    ReadAtRevisionIsExact
    CurrentReadIsRecent
    FailedTxnShowsAnother
    WriteTakesEffectOnce
    CountIsExact
