SPECIFICATION FairSpec
CONSTANTS
    Callers = {a, b, c}
    Threshold = 2
    ResetAfter = 3
    MaxFailures = 4
INVARIANT FieldsAgree
INVARIANT TrialAfterQuiet
PROPERTY NeverStuckOpen
PROPERTY ImplementsPromise
