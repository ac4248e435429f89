SPECIFICATION LedgerSpec
CONSTANTS
    a1 = a1
    a2 = a2
    x = x
    y = y
    z = z
    repository = repository
    budget = budget
    Workers = {w1, w2}
    Sessions = {s1}
    Attempts = {a1, a2}
    Sets = {x, y, z}
    AttemptOf <- TwoAttempts
    Pools = {repository, budget}
    Limit <- TwoOfEach
    Units <- MoreForX
    Slots = {1, 2}
    Callers = {c}
    Sweepers = {v}
    SweepBatch = 1
    Checks = {k1}
    MaxTime = 2
    MaxGeneration = 1
    NoWorker = NoWorker
    NoSession = NoSession
    NoSet = NoSet
    Clients = {c1, c2, c3}
    TransactionKinds = {"ADMIT", "ADOPT", "TRANSITION", "SWEEP", "QUARANTINE", "QUALIFY",
                        "CLOSE", "CANCEL", "VERIFY", "STEP", "ACCEPT", "API_CANCEL",
                        "PRE_DISPATCH", "DECIDE", "API_VERIFY", "API_RECONCILE", "INTAKE",
                        "INGEST"}
    Items <- MCItems
    LockedWorkers = {"k1"}
    WorkerOf <- OneWorker
    Detector = TRUE
    NoKind = NoKind
SYMMETRY Alike
INVARIANTS
    NoOvercommit
    ReleasedExactlyOnce
    ReceiptIsTrue
    CirclesNeedAnInversion
CHECK_DEADLOCK FALSE
