CONSTANTS
    Attempt = {a1, a2}
    Cursor = {c1, c2}
    Order = {}
    Source = {"camofox_order_document"}
    FetchFailure = {"document_source"}
    StopCause = {"canceled"}
    MaxBudget = 3
    MaxRuns = 3
    MaxScans = 2
    Nil = Nil
    NoOne = NoOne
SPECIFICATION Spec
SYMMETRY Symmetry
INVARIANTS
    CheckpointIsHead
    OneOpenRun
    OwnerNeverRefused
    PagesAccounted
    ScanIsOneWalk
    EvidenceReadable
PROPERTIES
    EndedEvidenceFrozen
    LoopedScanWaitsForRestart
    ImplementsScanLedger
