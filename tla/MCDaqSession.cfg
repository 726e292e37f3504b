SPECIFICATION Spec
CONSTANTS
    Runs = {r1, r2}
    N = 2
SYMMETRY RunSymmetry
INVARIANTS
    FreshWords
    ModeKept
PROPERTIES
    LeavesQuiet
    DeafByCrash
