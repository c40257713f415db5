SPECIFICATION OrderSpec
CONSTANTS
    v1 = v1
    Variants = {v1}
    Reservations = {r1, r2, r3}
    NoVariant = NoVariant
    Orders = {o1, o2}
    NoOrder = NoOrder
    OpeningStock <- MCOpeningStock
    OpeningReserve <- MCOpeningReserve
    Threshold <- MCThreshold
    MaxQty = 2
    MaxRestock = 1
SYMMETRY Symmetry
INVARIANTS
    OrderTypeOK
    NoOversell
    ReservedIsEarmarked
    StockConserved
    SalesMatchFulfilled
    SettledOrderHoldsNothing
PROPERTIES
    SettledForGood
    PlacedOnce
    ImplementsInventory
