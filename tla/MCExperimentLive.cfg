SPECIFICATION FairRunSpec
CONSTANTS
    Keys = {k1}
    Members = {m1}
    Owners = {"team", "task"}
    Limits <- OneLaunch
    MaxCallers = 2
    MaxReminders = 1
    MaxCrashes = 1
    Ways = {"cancel", "unnamed", "tell", "team"}
INVARIANTS
    OpenWaitIsOwed
    SlotHeldWhileRunning
PROPERTIES
    AttemptSettles
    TaskFollowsAnalysis
CHECK_DEADLOCK FALSE
