SPECIFICATION RunSpec
CONSTANTS
    Keys = {k1, k2}
    Members = {}
    Owners = {"team"}
    Limits <- TwoLaunches
    MaxCallers = 2
    MaxReminders = 0
    MaxCrashes = 1
    Ways = {"round", "limits", "pause", "unnamed"}
INVARIANTS
    OneProcessPerKey
    BudgetIsExact
    RoundCancelIsComplete
CHECK_DEADLOCK FALSE
SYMMETRY KeySymmetry
