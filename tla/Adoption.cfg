SPECIFICATION Spec
CONSTANTS
    Calls = {"c1", "c2"}
    Envelopes = {"order", "again", "other", "second"}
    CancelRequests = {"q1", "q2", "bad"}
    Keys = {"k1", "k2"}
    KeyOf <- MCKeyOf
    PayloadOf <- MCPayloadOf
    RunOf <- MCRunOf
    Malformed = {"bad"}
    MaxVersion = 3
    MaxRestart = 1
    None = None
    Attempts = {"a1"}
    Orders <- MCOrders
    Contract = "RUNMILL"
    Callers = {c1, c2}
    EscalationIds = {x1, x2}
    NoRow = NoRow
    MaxSessions = 3
    MaxRunVersion = 2
    Published <- MCPublished
    Wire <- MCWire
    MaxSeq = 3
    MaxCancels = 2
SYMMETRY Alike
INVARIANT
    ExactAdoptionsSucceed
CHECK_DEADLOCK FALSE
