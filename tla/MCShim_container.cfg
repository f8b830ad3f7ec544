SPECIFICATION FairSpec
CONSTANTS
    pause = pause
    app = app
    t1 = t1
    t2 = t2
    None = None
    Containers <- OnlyPause
    Root = pause
    Annotated <- OnlyPause
    Threads <- TwoThreads
    Calls <- AllCalls
    ExitCodes <- OneCode
    InternalError = 128
    KillAttempts = 4
    EventCap = 1
INVARIANTS
    TypeOK
    StartExitedOrder
    OneExitStory
PROPERTIES
    WaitReturns
    ImplementsTask
CHECK_DEADLOCK FALSE
