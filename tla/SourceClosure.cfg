SPECIFICATION ClosureFairSpec
CONSTANTS
    r1 = r1
    r2 = r2
    j1 = j1
    Jobs = {j1}
    Reactors = {r1, r2}
    CloseEffect = closeSource
    Effects = {closeSource}
    MaxAttempts <- ThreeAttempts
    LeaseTicks = 2
    Batch = 1
    Ready <- AllReady
    Unserviceable <- NoneUnserviceable
    RouteInvalid = {}
    MaxFence = 4
    NoOwner = NoOwner
    NoJob = NoJob
INVARIANTS
    NeverSentTwice
    ClosedMeansApplied
PROPERTIES
    ClosingResolves
CHECK_DEADLOCK FALSE
