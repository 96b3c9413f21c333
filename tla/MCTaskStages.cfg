SPECIFICATION TaskSpec
CONSTANTS
    Tasks = {t1,t2}
    NoTask = NoTask
    Calls = {c1, c2}
    MaxPosts = 3
    MaxRevision = 2
    MaxEvents = 1
SYMMETRY TaskSymmetry
INVARIANTS
    ScopeWasShown
    OldWordsStartNothing
    ArchivedIsSettled
CHECK_DEADLOCK FALSE
