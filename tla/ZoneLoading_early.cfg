CONSTANTS
    z1 = z1
    z2 = z2
    z3 = z3
    Views <- TwoViews
    Masters = {z1, z3}
    CanCancel = FALSE
    Hoisted = FALSE
SPECIFICATION Spec
INVARIANT ScanAfterLoad
CHECK_DEADLOCK FALSE
