SPECIFICATION Spec
CONSTANTS
    c1 = c1
    c2 = c2
    c3 = c3
    ip1 = ip1
    ip2 = ip2
    Conns = {c1, c2, c3}
    RemoteConns = {c1, c2}
    Ips = {ip1, ip2}
    IpOf <- MCIpOf
    AuthRequired = TRUE
    AuthMessages = 2
    MaxConnections = 2
    MaxPerIp = 1
    MaxUnauthPerIp = 1
    MaxFaults = 2
SYMMETRY Symmetry
INVARIANTS
    CountsBalance
    LimitsHold
    NoGhost
    UpgradeSettles
CHECK_DEADLOCK FALSE
