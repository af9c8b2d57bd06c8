SPECIFICATION FairSpec
CONSTANTS
    a = a
    b = b
    c = c
    o = o
    f1 = f1
    f2 = f2
    Reaper = Reaper
    Handles = {a, b}
    CStubs = {a, b}
    Triggers = {}
    Finalizers = {f1}
    MaxCycles = 1
    ChunksComplete = FALSE
    CyclesOverlap = FALSE
CHECK_DEADLOCK FALSE
PROPERTY
    FinalizersCatchUp
