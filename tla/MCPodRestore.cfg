SPECIFICATION FairSpec
CONSTANTS
    pause = pause
    app = app
    sidecar = sidecar
    logger = logger
    Containers <- FourContainers
    Root = pause
    Mishaps = 3
INVARIANTS
    MixedOnlyLate
PROPERTIES
    PodComesUp
CHECK_DEADLOCK FALSE
