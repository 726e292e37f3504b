SPECIFICATION AcquisitionSpec
CONSTANTS
    N = 64
    Ids = 2
    Depth = 17
    Outstanding = 1
    AlmostEmptyAt = 16
    MaxPushed = 140
    Rate = 4
INVARIANTS
    KeepsPace
PROPERTIES
    ReadsTheRing
    LosslessAcquisition
CONSTRAINT
    Running
CHECK_DEADLOCK FALSE
