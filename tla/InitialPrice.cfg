SPECIFICATION PriceSpec
CONSTANTS
    h1 = h1
    h2 = h2
    Handlers = {h1, h2}
    MaxChannels = 2
    Timeout = 2
    Batch = 1
    MaxPrices = 2
SYMMETRY Symmetry
INVARIANTS
    RegressionBounded
    NothingLost
    QuietAfterUnsubscribe
CHECK_DEADLOCK FALSE
