SPECIFICATION FairSpec
CONSTANTS
    a = a
    b = b
    c = c
    o = o
    f1 = f1
    f2 = f2
    Reaper = Reaper
    Handles = {a, b, c}
    CStubs = {a, b}
    Triggers = {}
    Finalizers = {f1}
    MaxCycles = 3
    ChunksComplete = TRUE
    CyclesOverlap = FALSE
CHECK_DEADLOCK FALSE
INVARIANT
    ExplorationForgotten
PROPERTIES
    FinalizersCatchUp
    HeadsSettle
