SPECIFICATION Spec
CONSTANTS
    loader = loader
    other = other
    w1 = w1
    w2 = w2
    c1 = c1
    None = None
    Tasks <- MCTasks
    Privileged <- MCPrivileged
    Workers <- MCWorkers
    Clients <- MCClients
    Quantum = 1
    Calls <- MCCalls
    MaxEvents = 2
    MaxRefs = 2
INVARIANTS ReadyOnce OneWorkerPerTask Exclusion LoadersOnly NoStall DoneIsFinal
CHECK_DEADLOCK FALSE
PROPERTIES EventsDelivered ExclusiveGranted DestroyReturns
