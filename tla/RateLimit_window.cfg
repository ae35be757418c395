SPECIFICATION FairSpec
CONSTANTS
    Callers = {a, b, c}
    Calls = 3
    Seconds = 2
    Window = 3
    Depth = 2
PROPERTY WindowIsLimited
PROPERTY SomeoneGetsThrough
