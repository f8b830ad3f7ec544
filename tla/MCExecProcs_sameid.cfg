SPECIFICATION Spec
CONSTANTS
    c1 = c1
    c2 = c2
    x = x
    y = y
    k1 = k1
    k2 = k2
    Containers <- Pod
    ExecIds <- Ids
    Clients <- Two
    Uses <- SameId
    MaxProcs = 2
INVARIANTS
    ExitReachesItsProcess
CHECK_DEADLOCK FALSE
