SPECIFICATION Spec
CONSTANTS
    Ops = {o1, o2}
    Keys = {k1, k2}
    capture = capture
    provision = provision
    Requests <- MCRequests
    KindOf <- MCKindOf
    Points = {p1}
    Storages = {s1}
    Repositories = {r1}
    None = None
    MaxEpochs = 2
SYMMETRY Symmetry
INVARIANTS
    OperationsInvariant
PROPERTIES
    LiveKeepsLocks
    DeadWorkStops
    EndingsStand
    StorageStaysClosed
CHECK_DEADLOCK FALSE
