SPECIFICATION Spec
CONSTANTS
    Prices = {1, 2}
    Quantities = {0, 1}
    MaxSequence = 3
    MaxBatch = 2
    MaxPublished = 4
INVARIANTS
    TypeOK
    ValidBookIsExchangeBook
    EventIsExchangeTop
PROPERTIES
    OnlySnapshotsJump
    
CHECK_DEADLOCK FALSE
