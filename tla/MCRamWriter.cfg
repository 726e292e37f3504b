CONSTANTS
    N = 32
    Ids = 3
    Depth = 20
    AlmostEmptyAt = 16
    Outstanding = 1
    MaxPushed = 52
SPECIFICATION Spec
INVARIANTS
    TypeOK
    BurstIsCovered
    SlaveAgrees
    OneBurstAtATime
    NeverRealigns
PROPERTIES
    AddressHolds
    FillsTheRing
    SendsWholeBursts
    BurstReachesMemory
