CONSTANTS
    Attempt = {a1}
    Cursor = {c1}
    Order = {o1}
    Source = {"ordinary_browser_selected_tab", "camofox_order_document"}
    FetchFailure = {"document_source"}
    StopCause = {"canceled"}
    MaxBudget = 2
    MaxRuns = 2
    MaxScans = 2
    Nil = Nil
    NoOne = NoOne
SPECIFICATION FairSpec
INVARIANTS
    EvidenceReadable
PROPERTIES
    CallsReturn
