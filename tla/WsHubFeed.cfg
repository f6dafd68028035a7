SPECIFICATION Spec
CONSTANTS
    c1 = c1
    c2 = c2
    c3 = c3
    s1 = s1
    s2 = s2
    s3 = s3
    NoSlab = NoSlab
    Clients = {c1, c2}
    Slabs = {s1, s2, s3}
    BlockedSlabs = {s3}
    TokenSlabs = {s1, s2}
    AuthRequired = TRUE
    MaxPerSlab = 2
    MaxPerClient = 3
    MaxGlobal = 5
    MaxPerMessage = 3
INVARIANTS
    AuthGate
    SlabBinding
PROPERTIES
    ImplementsPriceFeed
