SPECIFICATION Spec
CONSTANTS
    Kinds <- MCKinds
    Prices = {1, 2, 3, 4, 5}
    Quantities = {0, 1, 2}
    Capacity = 3
    SizeModulus = 16
    EmptiesSide = FALSE
INVARIANTS
    TypeOK
    Sorted
    FollowsFeed
PROPERTIES
    UpdatesEnd
    ImplementsBoundedBook
