SPECIFICATION Spec
CONSTANTS
    ip1 = ip1
    ip2 = ip2
    ip3 = ip3
    r1 = r1
    r2 = r2
    Ips = {ip1, ip2, ip3}
    Requests = {r1, r2}
    Limit = 2
    Window = 4
    Second = 2
    MaxEntries = 2
    ScanLimit = 2
    Timeout = 1
    Delay = 2
    MaxCount = 3
    RedisIps = {ip1}
SYMMETRY Symmetry
INVARIANTS
    RateBounded
    RefusalDeserved
    RetryAfterClose
