SPECIFICATION FairSpec
CONSTANTS
    Processes = {"p1", "p2"}
    WorkerIds = {"w1", "w2"}
    Jobs = {1, 2}
    Timers = {"t1"}
    Types <- MCTypes
    Canonical <- MCCanonical
    Envelopes <- MCEnvelopes
    TimerRoutes <- MCTimerRoutes
    Offered <- MCOffered
    MaxAttempts = 2
    MaxCrash = 1
PROPERTIES
    RoutesAreKept
    DueIsNeverSilent
