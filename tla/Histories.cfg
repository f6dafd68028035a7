SPECIFICATION Spec
CONSTANTS
    PriceRows = 3
    RecordRows = 2
    Promised = 2
    MaxRowsInTable = 5
INVARIANTS
    LastPricesReturned
