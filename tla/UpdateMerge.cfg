SPECIFICATION Spec
CONSTANTS
    N = 3
    Orders <- AllOrders
INVARIANT OrderInRange
