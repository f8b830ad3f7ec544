SPECIFICATION PartsSpec
CONSTANTS
    g1 = g1
    g2 = g2
    b1 = b1
    b2 = b2
    b3 = b3
    b4 = b4
    app = app
    pause = pause
    None = None
    Goroutines <- TwoGoroutines
    Bufs <- FourBufs
    Commands <- EachStyle
    OutLen = 1
    Stacks <- SomeStacks
    Heads <- SomeHeads
    Pods <- SomePods
    Others <- SomeOthers
    MaxParts = 4
    NoPath = NoPath
SYMMETRY CmdSymmetry
INVARIANTS
    PoolPartition
    OwnBuffers
    ExactStack
    AdaptedAsMapped
    MirrorIsShipped
    SandboxJoinsPod
