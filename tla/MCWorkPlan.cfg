SPECIFICATION WorkSpec
CONSTANTS
    Tasks = {t1, t2}
    Sessions = {s1}
    NoSession = NoSession
    NoTask = NoTask
    Keys = {}
    NoKey = NoKey
    MaxAttempts = 1
    Policies <- OneLimit
    Questions = {"open"}
    Conditions = {"none", "paused"}
    Outcomes = {"completed"}
    ReviewKinds = {"plan", "result"}
    Edges <- AllEdges
    Events = {"result", "analysis", "flag"}
    MaxEpoch = 0
    MaxRequests = 1
INVARIANTS
    DependenciesAcyclic
    ReadyNeverWaits
CHECK_DEADLOCK FALSE
SYMMETRY TaskSymmetry
