CONSTANTS
    NAddrs <- ThreeNodes
    Replies <- Close
    HasTTL = TRUE
    CanReset = TRUE
    CanHang = TRUE
SPECIFICATION Spec
INVARIANTS TableMirrorsStats BoundedInversion
PROPERTY KeepsSorting
CHECK_DEADLOCK FALSE
