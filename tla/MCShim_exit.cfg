SPECIFICATION FairSpec
CONSTANTS
    pause = pause
    app = app
    t1 = t1
    t2 = t2
    None = None
    Containers <- PodContainers
    Root = pause
    Annotated <- NoContainer
    Threads <- OneThread
    Calls <- LiveCalls
    ExitCodes <- OneCode
    InternalError = 128
    KillAttempts = 2
    EventCap = 1
PROPERTIES
    ExitReported
CHECK_DEADLOCK FALSE
