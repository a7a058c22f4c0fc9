SPECIFICATION Spec
CONSTANTS
    w1 = w1  w2 = w2
    Workers = {w1, w2}
    Ids <- MCIds
    ManualRefs <- MCManualRefs
    OrderStates = {"paid"}
    NoticeKinds = {"paid"}
    Failures = FALSE
    ph1 = ph1  ph2 = ph2
    Placeholders = {ph1}
    None = None
PROPERTY PaidStaysCompleted
CHECK_DEADLOCK FALSE
