SPECIFICATION MCFairSpec
CONSTANTS
    amd64 = amd64
    arm64 = arm64
    MaxRuns = 2
    Arches <- BothArches
    MaxHead = 2
    MaxFaults = 1
    Serial = TRUE
    DevPushes = TRUE
INVARIANTS
    TypeOK
    OneRelease
    StampAsPromised
    ExactCommit
PROPERTIES
    PublishedFixed
    ImplementsTag
    RerunRepairs
CHECK_DEADLOCK FALSE
