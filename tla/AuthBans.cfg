SPECIFICATION StoreSpec
CONSTANTS
    ip1 = ip1
    ip2 = ip2
    Ips = {ip1, ip2}
    RemoteIps = {ip1}
    Window = 1
    Threshold = 2
    BanDuration = 5
    MaxEntries = 1
    MaxTime = 9
    MaxFailures = 4
    Delay = 1
    MaxFaults = 1
INVARIANTS
    BansDeserved
    BurstBounded
PROPERTIES
    BansHold
CHECK_DEADLOCK FALSE
