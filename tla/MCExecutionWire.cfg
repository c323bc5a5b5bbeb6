SPECIFICATION Spec
CONSTANTS
    PriceScale = 1
    Instruments = {btc, eth}
    NoInstrument = none
    Requests <- MCTwoRequests
    Prices = {2}
    LimitChoices <- MCLimitChoices
    StrayReports <- MCStray
    MaxOrders = 2
    MaxOutstanding = 2
    MaxCancels = 0
    MaxRecorded = 4
    MaxDuplicates = 1
    Reordering = TRUE
    QuantityMeaning = "fill"
    btc = btc
    eth = eth
INVARIANTS
    RecordedTradesExplainPosition
    LedgersAgree
CHECK_DEADLOCK FALSE
