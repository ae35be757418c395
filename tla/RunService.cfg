SPECIFICATION AppSpec
CHECK_DEADLOCK FALSE
CONSTANTS
    Runs = {r1, r2}
    Requests = {q1}
    Sessions = {s1, s2}
    None = None
    JudgeMayRaise = TRUE
    MayTimeOut = TRUE
    AgentHooks <- OfAgent
    Hooks = {"later"}
    RegistryHooks <- OfRegistry
    OwnHooks <- MirrorAndMetrics
    Paths = {"mine"}
SYMMETRY ServiceSymmetry
INVARIANT AnswerIsOutcome
INVARIANT ShutdownLeavesNone
INVARIANT SessionHasItsRuns
INVARIANT RegisteredIsServed
