SPECIFICATION Spec
CONSTANTS
    PriceScale = 2
    Prices <- MCPrices
    Quantities <- MCQuantities
    MaxPosition = 4
    MaxTrades = 4
INVARIANTS
    TypeOK
    AverageWithinEntries
    PnLExplainsCash
CHECK_DEADLOCK FALSE
