SPECIFICATION SessionSpec
CONSTANTS
    PlainIds = {p1}
    DraftIds = {}
    NoClient = NoClient
    Outcomes = {"completed", "failed", "cancelled"}
    MaxRuns = 2
    MaxItems = 1
    MaxMoves = 1
    MaxEdits = 1
    MaxActors = 2
    MaxSends = 2
    Events = {"resend", "ready", "idle", "edit"}
CHECK_DEADLOCK FALSE
INVARIANTS
    RoutedToCurrent
