SPECIFICATION Spec
CONSTANTS
    t1 = t1
    t2 = t2
    t3 = t3
    Threads <- ThreeThreads
    Calls <- AllCalls
    Quota = 1
    Wrap = 4
INVARIANTS MutualExclusion CountersCount NoLostWakeup WriterOrder
PROPERTIES ImplementsLock WriterGranted
