SPECIFICATION Spec
CONSTANTS
    good = good
    old = old
    r1 = r1
    r2 = r2
    r3 = r3
    Shops = {good, old}
    GoodKeys = {good}
    Reservations = {r1, r2, r3}
    ShopOf <- MCShopOf
    Ttns = {t1}
    NoTtn = NoTtn
    Sessions = {n}
PROPERTIES
    DeliveredIsSettled
CHECK_DEADLOCK FALSE
