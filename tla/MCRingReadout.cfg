CONSTANTS
    N = 8
    Pace = 3
    MaxWritten = 26
SPECIFICATION Spec
INVARIANTS
    TypeOK
    CopiesFreshWords
    NeverLapped
    ReadToPosition
PROPERTIES
    LosslessStream
    EveryWordDecoded
CHECK_DEADLOCK FALSE
