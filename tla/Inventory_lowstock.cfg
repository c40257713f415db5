SPECIFICATION Spec
CONSTANTS
    v1 = v1
    v2 = v2
    Variants = {v1, v2}
    Reservations = {r1, r2}
    NoVariant = NoVariant
    Orders = {}
    NoOrder = NoOrder
    OpeningStock <- MCOpeningStock
    OpeningReserve <- MCOpeningReserve
    Threshold <- MCThreshold
    MaxQty = 2
    MaxRestock = 1
PROPERTY CrossingIsPushed
