CONSTANTS
    NAddrs <- OneNode
    Replies <- NearDown
    HasTTL = TRUE
    CanReset = FALSE
    CanHang = FALSE
SPECIFICATION Spec
INVARIANT DownLast
