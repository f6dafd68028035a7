SPECIFICATION Spec
CONSTANTS
    m1 = m1
    m2 = m2
    r1 = r1
    r2 = r2
    Mints = {m1, m2}
    Requests = {r1, r2}
    Ttl = 1
    MaxStale = 2
    MaxCacheSize = 1
    CallTimeout = 2
    MaxTime = 5
    MaxCalls = 3
INVARIANTS
    CallsCoalesced
    AnswersInDate
PROPERTIES
    AnswersMonotone
    Answered
CHECK_DEADLOCK FALSE
