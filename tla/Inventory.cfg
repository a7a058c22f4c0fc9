SPECIFICATION Spec
CONSTANTS
    w1 = w1  w2 = w2  b1 = b1  b2 = b2  u1 = u1  u2 = u2  l1 = l1  l2 = l2
    Workers = {w1, w2}
    BuildingIds = {b1, b2}
    UnitIds = {u1, u2}
    TenantIds = {t1}
    LeaseIds = {l1, l2}
    Labels = {a, b}
    NoKey = NoKey
INVARIANTS
    TypeOK
    ActiveLeasesStayHoused
    UnitsStayHoused
    LeasesKeepTheirTenant
SYMMETRY Symmetry
CHECK_DEADLOCK FALSE
