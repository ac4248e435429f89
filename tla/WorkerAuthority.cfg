SPECIFICATION FairSpec
CONSTANTS
    a1 = a1
    a2 = a2
    x = x
    y = y
    z = z
    repository = repository
    budget = budget
    Workers = {w}
    Sessions = {s1, s2}
    Attempts = {a1}
    Sets = {y}
    AttemptOf <- TwoAttempts
    Pools = {repository, budget}
    Limit <- TwoOfEach
    Units <- MoreForX
    Slots = {1}
    Callers = {}
    Sweepers = {v}
    SweepBatch = 1
    Checks = {k1, k2}
    MaxTime = 2
    MaxGeneration = 2
    NoWorker = NoWorker
    NoSession = NoSession
    NoSet = NoSet
INVARIANTS
    AuthorityOutlivesSet
    QuarantineSevers
PROPERTIES
    QuarantineIsMonotonic
    EveryReservationEnds
CHECK_DEADLOCK FALSE
