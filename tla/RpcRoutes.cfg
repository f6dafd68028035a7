SPECIFICATION Spec
CONSTANTS
    r1 = r1
    r2 = r2
    A = A
    B = B
    C = C
    D = D
    Requests = {r1, r2}
    Slabs = {A, B, C, D}
    Blocked = {D}
    HasFallback = TRUE
    Timeout = 2
    DbWait = 1
    AdlTtl = 2
    HealthTtl = 1
    MaxEntries = 3
SYMMETRY Symmetry
INVARIANTS
    AgeBounded
    AnsweredInTime
    LeastRecentlyUsedFirst
