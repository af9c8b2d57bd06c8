SPECIFICATION Spec
CONSTANTS
    a = a
    b = b
    c = c
    o = o
    f1 = f1
    f2 = f2
    Reaper = Reaper
    Handles = {a, b, c}
    CStubs = {a, b}
    Triggers = {o}
    Finalizers = {f1, f2}
    MaxCycles = 2
    ChunksComplete = TRUE
    CyclesOverlap = FALSE
CHECK_DEADLOCK FALSE
SYMMETRY Symmetry
INVARIANTS
    CounterExact
    VerdictsStand
    RefListCurrent
PROPERTIES
    ImplementsVerdict
