SPECIFICATION TermFairSpec
CONSTANTS
    Reactors = {r1}
    Verifiers = {r1}
    PageLimit = 1
    MaxAttempts = 2
    MaxEpoch = 2
    MaxSequence = 2
    MaxSession = 2
INVARIANTS
    ObservationIsSound
    RetentionIsSound
PROPERTIES
    ImplementsLog
    RetentionEndsOrLosesRoute
CHECK_DEADLOCK FALSE
