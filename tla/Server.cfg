SPECIFICATION ServerSpec
CONSTANTS
    n1 = n1
    n2 = n2
    Nodes <- MCNodes
    First = n1
    OldNodes <- MCNodes
    Watched = {n1}
    MaxCrashes = 1
INVARIANTS
    NodeKeepsItsIdentity
    ServesAsConfigured
    ServingMeansSchema
    OldDataIsWhole
PROPERTIES
    PanicsOnlyWhenClosed
    Recovers
    LowStorageStops
