SPECIFICATION Spec
CONSTANTS
    PriceScale = 1
    Instruments = {btc}
    NoInstrument = none
    Requests <- MCThreeRequests
    Prices <- MCPrices
    LimitChoices <- MCLimits
    StrayReports = {}
    MaxOrders = 3
    MaxOutstanding = 2
    MaxCancels = 1
    MaxRecorded = 9
    MaxDuplicates = 0
    Reordering = FALSE
    QuantityMeaning = "fill"
    btc = btc
    eth = eth
INVARIANTS
    TypeOK
    FillsMatchPosition
    OrderTracksVenue
    GatewayProtocol
    LedgersGood
    ExposureBounded
PROPERTIES
    TerminalIsFinal
CHECK_DEADLOCK FALSE
