SPECIFICATION Spec
CONSTANTS
    Readers = {r1}
    Writers = {w1}
    Compactor = Compactor
    Closer = Closer
    NoOne = NoOne
    MaxOpen = 2
INVARIANTS
    StatementsAreFound
    ConnectionsAreHeld
    NilOnlyInBeginTx
CHECK_DEADLOCK FALSE
PROPERTIES
    CallsReturn
    CloseReturns
