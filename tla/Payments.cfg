SPECIFICATION Spec
CONSTANTS
    w1 = w1  w2 = w2
    Workers = {w1, w2}
    Ids <- MCIds
    ManualRefs <- MCManualRefs
    OrderStates = {"paid", "failed"}
    NoticeKinds = {"paid", "failed", "other"}
    Failures = TRUE
    ph1 = ph1  ph2 = ph2
    Placeholders = {ph1, ph2}
    None = None
INVARIANTS
    TypeOK
    StatusHasCause
    SettledIsLinked
    SyncedIsRight
    ManualStaysReceived
SYMMETRY WorkerSymmetry
CHECK_DEADLOCK FALSE
