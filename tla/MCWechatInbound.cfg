SPECIFICATION FairWechatSpec
CONSTANTS
    Messages = 2
    Strangers = {2}
    Unreadable = {}
    MaxLoops = 2
    MaxEvents = 2
    Ways = {"expire", "seal", "login", "reconnect", "disconnect", "refuse", "store", "bare"}
INVARIANTS
    HandledOnce
    NothingIsSkipped
PROPERTIES
    EveryMessageIsServed
CHECK_DEADLOCK FALSE
