SPECIFICATION AccessSpec
CONSTANTS
    w1 = w1  w2 = w2  u1 = u1  u2 = u2  t1 = t1  t2 = t2
    n1 = n1  n2 = n2  e1 = e1  e2 = e2  b1 = b1  b2 = b2
    Workers = {w1, w2}
    UserIds = {u1, u2}
    TokenIds = {t1, t2}
    TenantIds = {n1, n2}
    Emails = {e1, e2}
    Buildings = {b1, b2}
    Stories <- Told
    AccessTTL = 2
    RefreshTTL = 3
    Elsewhere = Elsewhere
    Keep = Keep
    None = None
INVARIANTS
    AccessTypeOK
    TokenSetsOnePassword
    InvitedLoginHasToken
    LinkedLoginWasInvited
    ScopeIsAsAsked
    StaleClaimsAreBounded
    RowsWereInScope
    AnswersAreTrue
PROPERTY PatchesAreGoverned
SYMMETRY AccessSymmetry
CHECK_DEADLOCK FALSE
