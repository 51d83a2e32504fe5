CONSTANTS
    z1 = z1
    z2 = z2
    z3 = z3
    Views <- EmptyView
    Masters = {z1, z3}
    CanCancel = TRUE
    Hoisted = TRUE
SPECIFICATION Spec
INVARIANTS  RunningMeansLoaded
PROPERTIES EventuallyRunning 
CHECK_DEADLOCK FALSE
