SPECIFICATION FairSpec
CHECK_DEADLOCK FALSE
CONSTANTS
    Hooks <- UserAndMirror
    Ceiling = 3
    HasContracts = TRUE
    Faults = {"user", "mirror", "judge"}
    MaxTokens = 2
    MaxNotes = 1
    MaxHardCancels = 2
    MaxSpent = 3
INVARIANT TerminalIsLast
INVARIANT BudgetIsNamed
INVARIANT EndUnlessKilled
PROPERTY NaturalEndIsWhole
PROPERTY ImplementsRunOutcome
INVARIANT MetricsMatchHistory
INVARIANT StoreInOrder
INVARIANT StoreIsComplete
PROPERTY CancelLands
