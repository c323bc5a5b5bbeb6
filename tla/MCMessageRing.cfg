SPECIFICATION FairSpec
CONSTANTS
    Rings <- MCRings
    Capacity = 4
    MaxMessages = 9
INVARIANTS
    TypeOK
    SlotsNotShared
PROPERTIES
    ImplementsFifo
    
CHECK_DEADLOCK FALSE
