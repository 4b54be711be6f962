CONSTANTS
    Caller = {p1, p2, p3}
    Subject = {s1, s2}
    Key = {k1, k2}
    Missing = Missing
    Damaged = Damaged
SPECIFICATION AccountSpec
SYMMETRY Symmetry
INVARIANTS
    OneKeyNamesAccounts
    RefusalsHaveCause
    WrittenLedgersAreOwn
PROPERTIES
    HistoryIsKept
