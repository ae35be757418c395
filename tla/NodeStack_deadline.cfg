SPECIFICATION FairStackSpec
CHECK_DEADLOCK FALSE
CONSTANTS
    Threads = {a}
    Keys = {k1}
    NoKey = NoKey
    Attempts = 1
    RetryOn = {}
    Seconds = 1
    Ttl = 2
    MaxSize = 1
    Window = 2
    MaxRepeats = 1
    MaxCalls = 1
    MaxClock = 2
PROPERTY DeadlineIsHard
