CONSTANTS
    Caller = {p1, p2}
    LegacyCategories <- MCLegacyCategories
    Product = {1, 2}
    Ordered = {{1, 2}}
    Documents <- MCDocuments
    Budget = {1, 2}
    Day = 2
    MaxSaves = 3
    MaxEdits = 1
SPECIFICATION Spec
SYMMETRY Symmetry
CHECK_DEADLOCK FALSE
INVARIANTS
    CacheEndsHistory
    CompleteIsEarned
    RechecksAreFair
    CategoryReportsGrounded
