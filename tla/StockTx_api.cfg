SPECIFICATION TxSafe
CONSTANTS
    Variants = {v1}
    Reservations = {r1, r2}
    NoVariant = NoVariant
    Orders = {o1}
    NoOrder = NoOrder
    Opening = 1
    OpeningStock <- MCOpeningStock
    OpeningReserve <- MCOpeningReserve
    Threshold <- MCThreshold
    MaxQty = 1
    MaxRestock = 1
    Sessions = {s1, s2}
    Free = Free
    NoReservation = NoReservation
    Kinds = {"api", "place", "confirm", "cancel", "ttn", "np", "expire", "scan"}
    Solo = {"place", "confirm", "cancel", "ttn", "np", "expire", "scan"}
SYMMETRY Symmetry
PROPERTIES
    Serializable
