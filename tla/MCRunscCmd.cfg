SPECIFICATION Spec
CONSTANTS
    g1 = g1
    g2 = g2
    b1 = b1
    b2 = b2
    b3 = b3
    b4 = b4
    app = app
    pause = pause
    None = None
    Goroutines <- TwoGoroutines
    Bufs <- FourBufs
    Commands <- TwoWaits
    OutLen = 2
SYMMETRY CmdSymmetry
INVARIANTS
    OwnAnswer
