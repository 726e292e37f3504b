CONSTANTS
    a = a
    b = b
    Channels <- TwoChannels
    TraceLength = 12
    MetaLength = 2
    Scaler = 1
    MaxTriggers = 3
    MaxSeconds = 1
    MaxSubs = 1
    MaxStalls = 1
SPECIFICATION Spec
INVARIANT EverySecondReported
