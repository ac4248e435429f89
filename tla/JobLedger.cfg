SPECIFICATION FairSpec
CONSTANTS
    r1 = r1
    r2 = r2
    r3 = r3
    j1 = j1
    j2 = j2
    e1 = e1
    Jobs = {j1, j2}
    Reactors = {r1, r2, r3}
    Effects = {e1}
    MaxAttempts <- TwoAndOne
    LeaseTicks = 2
    Batch = 2
    Ready <- MixedReady
    Unserviceable <- MixedUnserviceable
    RouteInvalid = {j2}
    MaxFence = 4
    NoOwner = NoOwner
    NoJob = NoJob
INVARIANTS
    ClaimsAreUnique
    InFlightCitesExactClaim
    AttemptBudget
PROPERTIES
    OnlyLiveHolderSettles
    EverythingSettles
CHECK_DEADLOCK FALSE
