SPECIFICATION Spec
CHECK_DEADLOCK FALSE
CONSTANTS
    r1 = r1
    r2 = r2
    r3 = r3
    u1 = u1
    u2 = u2
    Users = {u1, u2}
    Runs = {r1, r2, r3}
    UserOf <- Shared
    None = None
    Ceilings <- Mixed
    OutputPrice = 2
    InputPrice = 3
    MaxTokens = 3
    MaxInput = 2
INVARIANT ChargedIsPublished
INVARIANT OvershootIsBounded
PROPERTY OverMeansSilent
