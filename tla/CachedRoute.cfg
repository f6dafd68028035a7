SPECIFICATION CachedSpec
CONSTANTS
    u1 = u1
    u2 = u2
    r1 = r1
    r2 = r2
    Urls = {u1, u2}
    Gets = {r1, r2}
    Ttl = 1
    MaxStale = 2
    MaxResponses = 1
    QueryWait = 1
    MaxTime = 5
INVARIANTS
    AnswerAgeBounded
CHECK_DEADLOCK FALSE
