SPECIFICATION Spec
CONSTANTS
    N = 12
    Pace = 2
    PipeSize = 2
    MaxWritten = 30
INVARIANTS
    InOrder
    WholeCopies
PROPERTY HalfArrives
