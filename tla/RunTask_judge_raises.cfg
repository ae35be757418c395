SPECIFICATION Spec
CHECK_DEADLOCK FALSE
CONSTANTS
    Hooks <- UserOnly
    Ceiling = 0
    HasContracts = TRUE
    Faults = {"judge"}
    MaxTokens = 1
    MaxNotes = 0
    MaxHardCancels = 0
    MaxSpent = 0
INVARIANT EndIsAnnounced
