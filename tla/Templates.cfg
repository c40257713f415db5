SPECIFICATION Spec
CONSTANTS
    Templates = {t1}
    NoTemplate = NoTemplate
    NoSchema = NoSchema
    NoProduct = NoProduct
    Keys = {k1, k2}
    Values = {x}
    Products = {p1}
    Sessions = {s1, s2}
SYMMETRY Symmetry
INVARIANTS
    VariantsAreDescribed
PROPERTIES
    FieldsStay
CHECK_DEADLOCK FALSE
