SPECIFICATION Spec
CONSTANTS
    pause = pause
    app = app
    t1 = t1
    None = None
    Ids <- TwoIds
    MaxInc = 2
    Threads <- OneThread
    Calls <- CallsOf
    EventCap = 1
    Clients <- BothClients
SYMMETRY RegistrySymmetry
INVARIANTS
    ExitMeetsItsIncarnation
    NothingForgotten
    NoSendAfterClose

    
CHECK_DEADLOCK FALSE
