SPECIFICATION ServedSpec
CHECK_DEADLOCK FALSE
CONSTANTS
    Hooks <- UserOnly
    Ceiling = 0
    HasContracts = TRUE
    Faults = {"user", "judge"}
    MaxTokens = 2
    MaxNotes = 1
    MaxHardCancels = 1
    MaxSpent = 0
    Clients = {c1}
    MaxQueue = 3
    MaxHistory = 2
INVARIANT ClientsSeeOutcome
