SPECIFICATION Spec
CONSTANTS
    ClkFreq = 10
    ClkMod = 22
    CounterMod = 16
    Second = 2
    Minute = 2
    Hour = 2
    ByteSize = 3
    StartTimes <- StartsBeforeMidnight
    MaxPulses = 5
    MaxTicks = 0
    MaxWords = 1
    MaxAgain = 0
INVARIANT
    GpsTime
CHECK_DEADLOCK FALSE
