SPECIFICATION Spec
CONSTANTS
    w1 = w1  w2 = w2  l1 = l1  l2 = l2  l3 = l3  o1 = o1  u1 = u1  u2 = u2
    Workers = {w1, w2}
    Units = {u1}
    LeaseIds = {l1, l2}
    OfferIds = {}
    NewLeases <- ConcurrentNewLeases
    Patches <- ConcurrentPatches
    EndDates <- MCDates
    MoveOutDates = {}
    OfferTerms = {}
    ManualStatus <- MCManualStatus
    Failures = TRUE
    FarFuture = 9
    NoEnd = NoEnd
    Keep = Keep
    None = None
INVARIANTS
    TypeOK
    OccupancyFollowsLeases
    OverlapNeedsUncheckedWrite
    CheckedDatesAreOrdered
PROPERTY ImplementsUnitOccupancy
SYMMETRY ConcurrentSymmetry
CHECK_DEADLOCK FALSE
