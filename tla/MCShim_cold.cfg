SPECIFICATION Spec
CONSTANTS
    pause = pause
    app = app
    t1 = t1
    t2 = t2
    None = None
    Containers <- OnlyPause
    Root = pause
    Annotated <- OnlyPause
    Threads <- OneThread
    Calls <- LiveCalls
    ExitCodes <- OneCode
    InternalError = 128
    KillAttempts = 2
    EventCap = 1
INVARIANTS
    AnnotatedNeverCold
CHECK_DEADLOCK FALSE
