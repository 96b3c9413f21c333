SPECIFICATION StoreSpec
CONSTANTS
    PlainIds = {p1}
    DraftIds = {d1}
    NoClient = NoClient
    Outcomes = {"completed"}
    MaxRuns = 3
    MaxItems = 2
    MaxMoves = 1
    MaxEdits = 1
CHECK_DEADLOCK FALSE
INVARIANTS
    CompletedOnce
    ActiveRunMatchesItem
    OneDrainPerItem
    PromptKept
    SameSendSameItem
PROPERTIES
    DrainInOrder
