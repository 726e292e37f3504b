SPECIFICATION Spec
CONSTANTS
    N = 16
    Beats = 2
    AlmostEmptyAt = 2
    Depth = 4
    Align = 4
    Pre = 7
    Tots <- HalfAndWhole
    MaxWait = 40
INVARIANT WindowIsRecorded
PROPERTY Finishes
