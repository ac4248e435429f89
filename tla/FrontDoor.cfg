SPECIFICATION Spec
CONSTANTS
    Ops = {"ACCEPT", "CANCEL", "DECIDE", "VERIFY", "RECONCILE"}
    Keys = {1, 2}
    MaxAttempts = 2
    MaxVersion = 6
    Listed = {l1, l2}
    Submitted = {a1}
    Contents <- MCContents
    Syncs = {s1, s2}
    SubmitKeys = {i1, i2, i3}
    PageSize = 1
    MaxPages = 2
    MaxSyncAttempts = 1
    MaxItemVersion = 4
    Components = {"worker", "sandbox"}
    Details <- MCDetails
    Reasons <- MCReasons
    Grave <- MCGrave
    Twists = {"hides", "blind", "bare", "age", "shape", "top", "capacity"}
    Offsets <- MCOffsets
    MaxAge = 1
    FutureSkew = 1
    Tolerance = 0
    Deadline = 1
    Concurrency = 1
    Maxima = {1, 2}
    Errors = {"TIMEOUT", "INSECURE_SOCKET"}
    Jobs = {"k1", "k2"}
    MaxTries = 1
    MaxTime = 3
    MaxGeneration = 2
    MaxSessions = 1
    None = None
SYMMETRY Alike
INVARIANTS
    IntakeIsSound
    ApiIsSound
PROPERTIES
    AuthorityIsDeliberate
    VerdictsAreJustified
    JobsAreKept
CHECK_DEADLOCK FALSE
