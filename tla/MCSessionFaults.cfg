SPECIFICATION SessionSpec
CONSTANTS
    PlainIds = {}
    DraftIds = {}
    NoClient = NoClient
    Outcomes = {"completed", "failed", "cancelled"}
    MaxRuns = 3
    MaxItems = 1
    MaxMoves = 1
    MaxEdits = 0
    MaxActors = 2
    MaxSends = 2
    Events = {"idle", "disconnect", "fail", "crash", "permission", "storage"}
CHECK_DEADLOCK FALSE
INVARIANTS
    PromptedAtMostOnce
    NeverTwoHolders
PROPERTIES
    OnlyItsActorEndsATurn
    ImplementsStore
