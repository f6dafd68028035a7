SPECIFICATION Spec
CONSTANTS
    c1 = c1
    c2 = c2
    c3 = c3
    s1 = s1
    s2 = s2
    s3 = s3
    NoSlab = NoSlab
    Clients = {c1, c2, c3}
    Slabs = {s1, s2}
    BlockedSlabs = {}
    TokenSlabs = {NoSlab}
    AuthRequired = FALSE
    MaxPerSlab = 2
    MaxPerClient = 3
    MaxGlobal = 5
    MaxPerMessage = 2
SYMMETRY ClientSymmetry
INVARIANTS
    SlabIndexExact
    SubCountExact
    WithinLimits
    TimersExact
    NoLostUpdate
