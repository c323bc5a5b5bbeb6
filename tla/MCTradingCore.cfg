SPECIFICATION Spec
CONSTANTS
    Instrument = btc
    NoInstrument = none
    Prices = {1, 2}
    Quantities = {0, 1, 3}
    PriceScale = 1
    ThresholdNumerator = 1
    ThresholdDenominator = 2
    OrderQuantity = 2
    Limits <- MCLimits
    MaxSequence = 2
    MaxBatch = 1
    MaxPublished = 3
    MaxOrders = 2
    MaxRecorded = 3
    MaxDuplicates = 0
    Reordering = FALSE
INVARIANTS
    OrdersFollowEvents

    
CHECK_DEADLOCK FALSE
