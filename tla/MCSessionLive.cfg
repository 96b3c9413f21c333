SPECIFICATION SessionSpec
CONSTANTS
    PlainIds = {}
    DraftIds = {}
    NoClient = NoClient
    Outcomes = {"completed", "failed", "cancelled"}
    MaxRuns = 3
    MaxItems = 2
    MaxMoves = 1
    MaxEdits = 0
    MaxActors = 1
    MaxSends = 2
    Events = {"steer", "cancel", "remove"}
CHECK_DEADLOCK FALSE
INVARIANTS
    RunHasOneHolder
    QueueIsWatched
PROPERTIES
    EveryRunEnds
    EveryItemIsDrained
