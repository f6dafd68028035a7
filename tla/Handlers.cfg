SPECIFICATION HandlersSpec
CONSTANTS
    PartBits = 2
    Parts = 2
    ListedIps <- MCListedIps
    ClientIps <- MCClientIps
    Depths = {0, 1, 2}
    WrittenItems <- MCWrittenItems
    MaxWritten = 2
    Second = 2
    MaxRows = 3
    Ats = {0, 1, 2, 3, 4}
    Prices <- MCPrices
    Sizes <- MCSizes
    MaxTrades = 4
    Resolutions = {1}
    Ranges <- MCRanges
    Bps = 4
    Millionths = 6
    Amounts = {0, 1, 2}
    Caps = {0, 1, 2}
    Funds <- MCFunds
    Accounts <- MCAccounts
    Slots = {1, 2, 3}
    Thresholds = {0, 3, 4}
    Milliseconds = 10
    EpochSplit = 15
    Years <- MCYears
    DefaultRows = 2
    MaxRowsAsked = 3
    Instants <- MCInstants
    Limits <- MCLimits
INVARIANTS
    BlocklistExact
    TrustedAddress
    CandlesExact
    RankingFair
    SinceUnderstood
