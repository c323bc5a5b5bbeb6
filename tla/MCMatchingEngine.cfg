SPECIFICATION Spec
CONSTANTS
    Engines <- MCEngines
    Ids = {o1, o2, o3}
    Prices = {1, 2}
    Quantities = {0, 1, 2}
    None = none
    MaxRequests = 4
    QuantityModulus = 16
INVARIANTS
    TypeOK
    BookIsWhole
    Uncrossed
    LevelQuantityCovers
PROPERTIES
    MatchingEnds
    ImplementsPriorityBook
CHECK_DEADLOCK FALSE
