SPECIFICATION Spec
CONSTANTS
    Threads = {main, not_gps}
    Main = main
    MaxPulses = 4
INVARIANTS
    NoLostPulse
    NeverAllBlocked
    MaskIsLifted
PROPERTIES
    PulseIsSampled
