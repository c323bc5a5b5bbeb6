SPECIFICATION EngineSpec
CONSTANTS
    Levels = {l1, l2}
    Quantities = {1}
    FirstBooks <- MCFirstBooks
    MaxVersions = 4
    MaxSnapshots = 2
    MaxLost = 1
INVARIANTS
    EngineTypeOK
    BookOnceCaughtUp
PROPERTIES
    EventsAreHandled
CHECK_DEADLOCK FALSE
