SPECIFICATION CancelSpec
CONSTANTS
    r1 = r1
    r2 = r2
    q1 = q1
    q2 = q2
    o = o
    d = d
    RequestJobs = {q1, q2}
    ObserverJob = o
    DeliveryJob = d
    Jobs = {q1, q2, o, d}
    Reactors = {r1}
    CancelEffect = requestCancellation
    Effects = {requestCancellation}
    DeliveryStates = {"ACTIVE"}
    MaxAttempts <- TwoToObserve
    LeaseTicks = 1
    Batch = 2
    Ready <- AllReady
    Unserviceable <- NoneUnserviceable
    RouteInvalid = {}
    MaxFence = 2
    NoOwner = NoOwner
    NoJob = NoJob
INVARIANTS
    TerminalObservationCompletes
CHECK_DEADLOCK FALSE
