SPECIFICATION RouteSpec
CONSTANTS
    Messages = {m1, m2}
    Attempts = {}
    Sessions = {s1, s2, ex}
    Manager = s1
    Executor = ex
    MaxAttempts = 2
    MaxRetries = 1
    MaxFaults = 1
INVARIANTS DeliveredWasAdmitted FailureIsNoted ReadMessageHasRoute
PROPERTIES RoutesSettle
