SPECIFICATION WorkSpec
CONSTANTS
    Tasks = {t1, t2}
    Sessions = {s1, s2}
    NoSession = NoSession
    NoTask = NoTask
    Keys = {k1}
    NoKey = NoKey
    MaxAttempts = 2
    Policies <- RoundLimits
    Questions = {"open"}
    Conditions = {}
    Outcomes = {"completed"}
    ReviewKinds = {"result"}
    Edges <- NoEdges
    Events = {}
    MaxEpoch = 3
    MaxRequests = 0
INVARIANTS
    OpenAttemptIsHeld
    OneAttemptPerKey
PROPERTIES
    AuthorityIsFenced
    KeepsLedger
SYMMETRY Symmetry
CHECK_DEADLOCK FALSE
