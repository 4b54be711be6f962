CONSTANTS
    Series = {1, 2, 3}
    Adder = {a1, a2}
    Refresher = {r1}
    Limit = 1
    Batch = 1
    Stale = 1
    Stop = {"cancel", "crash"}
    MaxTime = 2
    MaxAdds = 3
SPECIFICATION WatchFairSpec
INVARIANTS
    WatchlistBounded
PROPERTIES
    CheckHistoryKept
    RemovedStaysRemoved
    EveryWatchChecked
