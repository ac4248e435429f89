SPECIFICATION Spec
CONSTANTS
    Jobs = {"j1", "j2"}
    Callers = {"a", "b"}
    Steps = {"go", "close", "doubt", "odd"}
    WriteSet <- MCWriteSet
    Keys <- MCKeys
    Errors = {"e1", "e2"}
    RetryTimes = {2, 3}
    Resolution = 2
    Severities = {"LOW", "HIGH", "CRITICAL"}
    Forced = {TRUE, FALSE}
    MaxAttempts = 2
    MaxClaims = 2
    MaxOutside = 1
    None = None
    Bound = {b1, b2}
    Unbound = {"u1", "u2"}
    Actors = {"o1", "o2"}
    MaxDeadline = 2
    MaxEscalation = 2
    Limit = 1
    Walks = 1
    Writers = {w1, w2}
    AppendingKinds = {"API", "STEP", "INCIDENT", "REACTOR", "WORKER", "INTAKE"}
    Fractions = {0, 1}
    MaxEvents = 3
    MaxTime = 1
    MaxAppends = 2
    NoOne = NoOne
SYMMETRY Alike
INVARIANTS
    StepsAreTrue
    AttentionIsComplete
PROPERTIES
    FailuresAreOwned
    AuditIsOneChain
CHECK_DEADLOCK FALSE
