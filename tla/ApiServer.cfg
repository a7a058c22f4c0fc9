SPECIFICATION Spec
CONSTANTS
    s1 = s1  s2 = s2  a1 = a1  a2 = a2  r1 = r1  i1 = i1  i2 = i2
    Addresses = {a1, a2}
    Rpm = 6
    BurstArg = 2
    TableLimit = 0
    Durations <- MCDurations
    MaxTime = 1812
    Slots = {s1, s2}
    Bodies <- MCBodies
    Invalid = Invalid
    MaxRetries = 3
    NewIds = {i1, i2}
    Configured = Empty
    Empty = Empty
    Budgets <- MCBudgets
INVARIANTS
    TypeOK
    AdmittedIsBounded
    TableHoldsTheRecent
    SmsIsAccountedFor
    OrdersCarryAKnownId
PROPERTIES
    ImplementsTokenBuckets
    CutOffNeedsACause
    EveryCallEnds
    ShutdownCompletes
CHECK_DEADLOCK FALSE
