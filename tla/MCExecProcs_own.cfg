SPECIFICATION FairSpec
CONSTANTS
    c1 = c1
    c2 = c2
    x = x
    y = y
    k1 = k1
    k2 = k2
    Containers <- Pod
    ExecIds <- Ids
    Clients <- Two
    Uses <- OwnIds
    MaxProcs = 4
INVARIANTS
    TypeOK
    Reachable
    ExitReachesItsProcess
PROPERTIES
    ExecExitReported
CHECK_DEADLOCK FALSE
