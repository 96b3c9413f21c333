SPECIFICATION RouteSpec
CONSTANTS
    Messages = {}
    Attempts = {a1}
    Sessions = {s1, s2, ex}
    Manager = s1
    Executor = ex
    MaxAttempts = 3
    MaxRetries = 1
    MaxFaults = 2
INVARIANTS UndeliveredStaysClosed
PROPERTIES SlotIsFreed
