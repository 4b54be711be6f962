CONSTANTS
    Ref = {o1, o2}
    Asked <- MCAsked
    BrandLimit = 1
    Least <- MCLeast
    Source <- MCSource
    Page <- MCPage
    Half = 1000000
    Safe = 50000
    Filter <- MCFilter
    ListLimit = 1
    Prices <- MCPrices
    Requests <- MCRequests
    Now = 200
    Reader = {r1}
SYMMETRY RefsAlike
SPECIFICATION Spec
INVARIANTS
    ReportsAddUp
    RatesWithinScale
