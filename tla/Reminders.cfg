SPECIFICATION DeskSpec
CONSTANTS
    w1 = w1  w2 = w2  c1 = c1  c2 = c2  k1 = k1  k2 = k2  l1 = l1
    Workers = {w1, w2}
    Charges = {c1, c2}
    Keys <- MCKeys
    Preferences <- MCPreferences
    LastDay = 1
    MaxFaults = 1
    Clerks = {k1, k2}
    Leases = {l1}
    LeaseOf <- MCLeaseOf
    MaxSends = 2
    MaxIds = 2
    MaxChanges = 2
INVARIANTS
    DeskTypeOK
    DuplicatesNeedACause
    CompletedRunReminds
    RecordedEmailsArrived
    AnsweredIsRecorded
SYMMETRY Symmetry
CHECK_DEADLOCK FALSE
