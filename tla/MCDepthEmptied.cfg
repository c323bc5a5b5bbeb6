SPECIFICATION Spec
CONSTANTS
    Kinds <- MCBooks
    Prices = {1, 2}
    Quantities = {0, 1}
    Capacity = 2
    SizeModulus = 16
    EmptiesSide = TRUE
INVARIANTS
    BestAfterUpdate
CHECK_DEADLOCK FALSE
