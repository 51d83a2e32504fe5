CONSTANTS
    N = 3
    Orders <- AllOrders
    Readers = {r1}
    LBBIND = FALSE
SPECIFICATION Spec
INVARIANTS SettledSlab EntryRegular UndisturbedAnswer
PROPERTY QueryFinishes
