SPECIFICATION FairSpec
CHECK_DEADLOCK FALSE
CONSTANTS
    Clients = {c1, c2}
    MaxQueue = 3
    MaxHistory = 4
    MaxId = 4
    Late = 1
INVARIANT LagsOnlyBehind
INVARIANT EndSeesTerminal
INVARIANT BacklogIsTheLoop
PROPERTY ImplementsEventLog
PROPERTY EveryStreamEnds
