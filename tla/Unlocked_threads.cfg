SPECIFICATION AllSpec
CHECK_DEADLOCK FALSE
CONSTANTS
    Threads = {t1, t2}
    Keys = {k1, k2}
    NoKey = NoKey
    Attempts = 2
    RetryOn = {"NodeTimeout", "RuntimeError", "KeyError", "LoopDetected", "error"}
    Seconds = 1
    Ttl = 2
    MaxSize = 1
    Window = 3
    MaxRepeats = 1
    MaxCalls = 1
    MaxClock = 3
    a = a
    b = b
    big = big
    new = new
    Callers = {a, b}
    Models = {big, new}
    None = None
    Usages <- Reports
    Defaults <- PricesFile
    Override <- PricesOverride
    Caps <- TwoCaps
    MaxSteps = 4
    MaxTrackers = 2
SYMMETRY StackSymmetry
INVARIANT AnswersAreFresh
INVARIANT CacheIsBounded
INVARIANT RepeatsAreBounded
INVARIANT LateValueIsUsed
INVARIANT OnlyOverlapsLose
INVARIANT SpendIsCapped
PROPERTY ExceededStays
