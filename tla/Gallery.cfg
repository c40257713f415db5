SPECIFICATION Spec
CONSTANTS
    Products = {p}
    Variants = {w}
    NoOwner = NoOwner
    Files = {f1, f2, f3, f4}
    MaxPhotos = 2
    Sessions = {s1, s2}
SYMMETRY Symmetry
INVARIANTS
    RowsHaveFiles
    AlmostTen
PROPERTIES
    GalleryOrder
CHECK_DEADLOCK FALSE
