CONSTANTS
    Opener = {p1, p2}
    LegacyVersion = {0, 6, 9, 13}
    LegacyPrices = {i1}
    NewPrices = {i2}
    LegacyCategories <- MCLegacyCategories
    NewCategories <- MCNewCategories
    MaxOpens = 2
SPECIFICATION Spec
SYMMETRY Symmetry
CHECK_DEADLOCK FALSE
INVARIANTS
    SchemaIsEarned
    FailureMeansContention
PROPERTIES
    PriceRowsSurvive
