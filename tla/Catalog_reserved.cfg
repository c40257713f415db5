SPECIFICATION CatSpec
CONSTANTS
    MaxProducts = 2
    Variants = {v1, v2, v3}
    MaxOrdered = 1
    Axes = {x, y}
    Limits = {1, Unlimited}
    Unlimited = Unlimited
    Sessions = {s1, s2}
SYMMETRY Symmetry
PROPERTY AlwaysReserved
CHECK_DEADLOCK FALSE
