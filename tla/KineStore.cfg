SPECIFICATION Spec
CONSTANTS
    Keys = {k1, k2}
    Values = {v1, v2}
    NoValue = NoValue
    CompactRevKey = CompactRevKey
    Leases = {0}
    Nodes = {n1, n2}
    SupersededCount = 1
    CompactBatchSize = 2
    MaxRev = 5
SYMMETRY Symmetry
INVARIANTS
    TypeOK
    IInv
    TableIsCompactedLog
    SnapshotsPreserved
    CurrentRevisionIsNewest
    EventChain
    InsertsNeverConflict
    SingleCompactRow
PROPERTIES
    CompactRevMonotone
    ImplementsMvcc
