SPECIFICATION LadderSpec
SYMMETRY MCSymmetry
CONSTANTS
    Storages <- MCStorages
    Memory = {m1, m2, m3}
    Null = Null
    OrderIds = {o1, o2, o3}
    MinPrice = 1
    MaxPrice = 3
    Volumes = {1, 3}
    VolumeModulus = 8
INVARIANTS
    LadderAgrees
    DepthIsRank
PROPERTIES
    ImplementsLadderQueues
