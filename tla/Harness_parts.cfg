SPECIFICATION AllSpec
CHECK_DEADLOCK FALSE
CONSTANTS
    Runs = {r1, r2}
    None = None
    Stacks <- Bundles
    Answers <- SomeAnswers
    MaxAsks = 2
    Clients = {"openai", "anthropic"}
    MaxWrappers = 5
    Files = {f1, f2}
    NoFile = NoFile
    MaxEdits = 2
    MaxTargets = 2
SYMMETRY HarnessSymmetry
INVARIANT PassMeansAllOk
INVARIANT AddendaMatchInjections
INVARIANT AddendumOnce
INVARIANT UserTextSurvives
