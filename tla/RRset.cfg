CONSTANTS
    Rdata = {1, 2, 3}
    TTLs = {1, 2}
    MaxRRs = 2
    MaxCount = 3
    Singleton = FALSE
    LBBIND = FALSE
    None = None
SPECIFICATION Spec
INVARIANTS DnssecOrder TableConsistent UpdateMeaning 
PROPERTY ImplementsList
