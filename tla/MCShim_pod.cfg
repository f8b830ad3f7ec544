SPECIFICATION Spec
CONSTANTS
    pause = pause
    app = app
    t1 = t1
    t2 = t2
    None = None
    Containers <- PodContainers
    Root = pause
    Annotated <- NoContainer
    Threads <- OneThread
    Calls <- PodCalls
    ExitCodes <- OneCode
    InternalError = 128
    KillAttempts = 2
    EventCap = 1
INVARIANTS
    ExitMeansDead
    OOMBeforeExit
    NoOrphan
    OneExitStory
PROPERTIES
    ImplementsTask
CHECK_DEADLOCK FALSE
