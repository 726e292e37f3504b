SPECIFICATION Spec
CONSTANTS
    ClkFreq = 10
    ClkMod = 22
    CounterMod = 16
    Second = 2
    Minute = 2
    Hour = 2
    ByteSize = 4
    StartTimes <- StartsBeforeMidnight
    MaxPulses = 2
    MaxTicks = 2
    MaxWords = 2
    MaxAgain = 1
INVARIANTS
    EvenSeconds
    RateNotLow
    ClockCountsFrames
    FileOfHour
CHECK_DEADLOCK FALSE
