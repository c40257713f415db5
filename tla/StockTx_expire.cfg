SPECIFICATION TxSafe
CONSTANTS
    Variants = {v1}
    Reservations = {r1, r2}
    NoVariant = NoVariant
    Orders = {o1}
    NoOrder = NoOrder
    Opening = 2
    OpeningStock <- MCOpeningStock
    OpeningReserve <- MCOpeningReserve
    Threshold <- MCThreshold
    MaxQty = 1
    MaxRestock = 0
    Sessions = {s1, s2}
    Free = Free
    NoReservation = NoReservation
    Kinds = {"api", "expire"}
    Solo = {}
PROPERTIES
    SettledForGood
